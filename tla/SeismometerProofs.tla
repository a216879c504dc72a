------------------------- MODULE SeismometerProofs -------------------------
(***************************************************************************)
(* Theorems of Seismometer, for every set of readings, every length of an    *)
(* event and every sequence of configurations and clock steps.              *)
(***************************************************************************)
EXTENDS Seismometer, TLAPS, NaturalsInduction, WellFoundedInduction

USE SeismometerAssumption, MillisAssumption

\* One reading keeps the statistics typed.
LEMMA AddValueTypes ==
    ASSUME TypeOK, NEW value \in Readings, AddValue(value)
    PROVE  /\ elements' \in 0 .. MaxElements
           /\ partialAvg' \in Int
           /\ partialStdDev' \in Int
           /\ quakeThreshold' \in
                  [avg : Int, dev : Int, n : 0 .. MaxElements, sigma : Nat]
           /\ window' \in Seq(Readings) /\ Len(window') = elements'
           /\ judged' \in [samples : Seq(Readings), sigma : Nat]
<1>1. elements' = elements + 1 /\ elements' \in 1 .. MaxElements
    BY DEF AddValue, TypeOK
<1>2. value \in Int /\ value - partialAvg \in Int
    BY DEF TypeOK
<1>3. (value - partialAvg) \div elements' \in Int
    BY <1>1, <1>2
<1>4. partialAvg' \in Int
    BY <1>3 DEF AddValue, TypeOK
<1>5. partialStdDev' \in Int
    <2>1. partialStdDev' = partialStdDev + (value - partialAvg) * (value - partialAvg')
        BY DEF AddValue
    <2>2. \A a, b, c \in Int : c + a * b \in Int
        OBVIOUS
    <2>3. value - partialAvg \in Int /\ value - partialAvg' \in Int /\ partialStdDev \in Int
        BY <1>2, <1>4 DEF TypeOK
    <2> QED
        BY <2>1, <2>2, <2>3
<1>6. window' = Append(window, value)
    BY DEF AddValue
<1>7. window' \in Seq(Readings) /\ Len(window') = elements'
    BY <1>1, <1>6 DEF TypeOK
<1>8. CASE elements' > 1
    <2>1. quakeThreshold' = Threshold(partialAvg', partialStdDev', elements', sigmaIter)
          /\ judged' = [samples |-> window', sigma |-> sigmaIter]
        BY <1>8 DEF AddValue
    <2> QED
        BY <2>1, <1>1, <1>4, <1>5, <1>7 DEF Threshold, TypeOK
<1>9. CASE ~(elements' > 1)
    BY <1>9, <1>1, <1>4, <1>5, <1>7 DEF AddValue, TypeOK
<1> QED
    BY <1>1, <1>4, <1>5, <1>7, <1>8, <1>9

\* Every reachable state has the declared types; the number of elements is the
\* number of readings since the last configuration.
THEOREM TypeCorrect == Spec => []TypeOK
<1>1. Init => TypeOK
    <2> SUFFICES ASSUME Init PROVE TypeOK
        OBVIOUS
    <2>1. window = <<>> /\ <<>> \in Seq(Readings) /\ Len(<<>>) = 0
        BY DEF Init
    <2>2. lastEventWas \in Instant
        BY DEF Init, Instant
    <2>3. quakeThreshold \in [avg : Int, dev : Int, n : 0 .. MaxElements, sigma : Nat]
        BY DEF Init, PowerOnThreshold, Threshold
    <2>4. judged \in [samples : Seq(Readings), sigma : Nat]
        BY <2>1 DEF Init
    <2>5. window \in Seq(Readings) /\ Len(window) = elements
        BY <2>1 DEF Init
    <2>6. /\ now \in Nat /\ wall \in Nat /\ clockSteps \in Nat
          /\ elements \in 0 .. MaxElements
          /\ partialAvg \in Int /\ partialStdDev \in Int
          /\ sigmaIter \in Nat
          /\ alertAt \in Nat \cup {Never}
        BY DEF Init, DefaultSigma
    <2>7. /\ inEvent \in BOOLEAN /\ red \in BOOLEAN /\ posting \in BOOLEAN
          /\ disturbed \in BOOLEAN
        BY DEF Init
    <2> QED
        BY <2>2, <2>3, <2>4, <2>5, <2>6, <2>7 DEF TypeOK
<1>2. TypeOK /\ [Next]_vars => TypeOK'
    <2> SUFFICES ASSUME TypeOK, [Next]_vars PROVE TypeOK'
        OBVIOUS
    <2>a. Millis(wall) \in Instant
        BY MillisDivision DEF TypeOK
    <2> USE DEF statVars, eventVars, clockVars
    <2>1. CASE TickInEvent
        <3>1. PICK value \in Readings : AddValue(value)
            BY <2>1 DEF TickInEvent
        <3> QED
            BY <2>1, <3>1, AddValueTypes DEF TickInEvent, TypeOK
    <2>2. CASE TickQuiet
        <3>1. PICK value \in Readings : AddValue(value)
            BY <2>2 DEF TickQuiet
        <3> QED
            BY <2>2, <3>1, AddValueTypes DEF TickQuiet, TypeOK
    <2>3. CASE TickAlert
        <3>1. PICK value \in Readings : AddValue(value)
            BY <2>3 DEF TickAlert
        <3> QED
            BY <2>3, <3>1, <2>a, AddValueTypes DEF TickAlert, TypeOK
    <2>4. CASE PostReturns
        BY <2>4 DEF PostReturns, TypeOK
    <2>5. CASE NewServerConfig
        <3>1. window' \in Seq(Readings) /\ Len(window') = elements'
            BY <2>5 DEF NewServerConfig
        <3>2. sigmaIter' \in Nat
            BY <2>5 DEF NewServerConfig, TypeOK
        <3> QED
            BY <2>5, <3>1, <3>2 DEF NewServerConfig, TypeOK
    <2>6. CASE TimePasses
        BY <2>6 DEF TimePasses, TypeOK
    <2>7. CASE ClockStep
        BY <2>7 DEF ClockStep, TypeOK
    <2>8. CASE UNCHANGED vars
        BY <2>8 DEF vars, TypeOK
    <2> QED
        BY <2>1, <2>2, <2>3, <2>4, <2>5, <2>6, <2>7, <2>8 DEF Next
<1> QED
    BY <1>1, <1>2, PTL DEF Spec

-----------------------------------------------------------------------------
(***************************************************************************)
(* Alert spacing.  lastEventWas is millis() at the last alert; without a     *)
(* clock step the system clock has moved since then as far as real time, so  *)
(* a difference of EventHold in the code's arithmetic is at least as much    *)
(* real time - provided unsigned long wraps where millis() does.            *)
(***************************************************************************)

Undisturbed == alertAt # Never /\ ~disturbed

\* What the system clock showed at the last alert.
WallAtAlert == wall - (now - alertAt)

\* What the code notes of an alert is millis() at that moment.
AlertNoted ==
    /\ TypeOK
    /\ inEvent => alertAt # Never
    /\ Undisturbed => /\ alertAt <= now
                      /\ WallAtAlert \in Nat
                      /\ lastEventWas = Millis(WallAtAlert)

SpacingInv ==
    /\ AlertNoted
    /\ Undisturbed /\ ~inEvent => now - alertAt >= EventHold

LEMMA AlertNotedInductive == AlertNoted /\ TypeOK' /\ [Next]_vars => AlertNoted'
<1> SUFFICES ASSUME AlertNoted, TypeOK', [Next]_vars PROVE AlertNoted'
    OBVIOUS
<1>t. TypeOK /\ TypeOK'
    BY DEF AlertNoted
<1> USE DEF statVars, eventVars, clockVars, Never
<1>1. CASE TickInEvent \/ TickQuiet
    BY <1>1, <1>t DEF TickInEvent, TickQuiet, AlertNoted, Undisturbed, WallAtAlert
<1>3. CASE TickAlert
    <2>1. /\ alertAt' = now /\ now' = now /\ wall' = wall /\ inEvent'
          /\ lastEventWas' = Millis(wall)
        BY <1>3 DEF TickAlert
    <2>2. WallAtAlert' = wall
        BY <2>1, <1>t DEF WallAtAlert, TypeOK
    <2> QED
        BY <2>1, <2>2, <1>t DEF AlertNoted, Undisturbed, TypeOK
<1>4. CASE PostReturns \/ NewServerConfig
    BY <1>4, <1>t DEF PostReturns, NewServerConfig, AlertNoted, Undisturbed, WallAtAlert
<1>6. CASE TimePasses
    <2>1. Undisturbed => WallAtAlert' = WallAtAlert
        BY <1>6, <1>t DEF TimePasses, Undisturbed, WallAtAlert, TypeOK
    <2>2. /\ now \in Nat /\ now' = now + 1
          /\ alertAt' = alertAt /\ disturbed' = disturbed
          /\ lastEventWas' = lastEventWas /\ inEvent' = inEvent
        BY <1>6, <1>t DEF TimePasses, TypeOK
    <2>3. Undisturbed' <=> Undisturbed
        BY <2>2 DEF Undisturbed
    <2>4. ASSUME Undisturbed
          PROVE  /\ alertAt' <= now' /\ WallAtAlert' \in Nat
                 /\ lastEventWas' = Millis(WallAtAlert)'
        <3>1. alertAt \in Nat /\ alertAt <= now
            BY <2>4, <1>t DEF AlertNoted, Undisturbed, TypeOK
        <3>2. WallAtAlert \in Nat /\ lastEventWas = Millis(WallAtAlert)
            BY <2>4 DEF AlertNoted
        <3> QED
            BY <2>1, <2>2, <2>4, <3>1, <3>2 DEF Millis
    <2> QED
        BY <1>t, <2>2, <2>3, <2>4 DEF AlertNoted
<1>7. CASE ClockStep
    BY <1>7, <1>t DEF ClockStep, AlertNoted, Undisturbed
<1>8. CASE UNCHANGED vars
    BY <1>8, <1>t DEF vars, AlertNoted, Undisturbed, WallAtAlert
<1> QED
    BY <1>1, <1>3, <1>4, <1>6, <1>7, <1>8 DEF Next

\* When the code finds an undisturbed event over, it is.
LEMMA OverMeansOver ==
    ASSUME SpacingInv, Undisturbed, EventIsOver, LongWrap = Wrap
    PROVE  now - alertAt >= EventHold
<1>1. /\ now \in Nat /\ wall \in Nat /\ alertAt \in Nat
      /\ WallAtAlert \in Nat /\ alertAt <= now
    BY DEF SpacingInv, AlertNoted, Undisturbed, TypeOK, Never
<1>2. WallAtAlert <= wall /\ wall - WallAtAlert = now - alertAt
    BY <1>1 DEF WallAtAlert
<1>3. Elapsed(Millis(wall), Millis(WallAtAlert)) <= wall - WallAtAlert
    BY <1>1, <1>2, ElapsedWithinGap
<1>4. /\ Millis(wall) \in Int /\ Millis(WallAtAlert) \in Int
    BY <1>1, MillisDivision DEF Instant
<1>5. Elapsed(Millis(wall), Millis(WallAtAlert)) \in Int
    BY <1>4 DEF Elapsed
<1>6. Elapsed(Millis(wall), Millis(WallAtAlert)) >= EventHold
    BY DEF EventIsOver, SpacingInv, AlertNoted
<1> QED
    BY <1>1, <1>2, <1>3, <1>5, <1>6

LEMMA SpacingInductive ==
    ASSUME LongWrap = Wrap
    PROVE  SpacingInv /\ TypeOK' /\ [Next]_vars => SpacingInv'
<1> SUFFICES ASSUME SpacingInv, TypeOK', [Next]_vars PROVE SpacingInv'
    OBVIOUS
<1>t. TypeOK /\ AlertNoted /\ AlertNoted'
    BY AlertNotedInductive DEF SpacingInv, AlertNoted
<1> SUFFICES ASSUME Undisturbed', ~inEvent' PROVE now' - alertAt' >= EventHold
    BY <1>t DEF SpacingInv
<1> USE DEF statVars, eventVars, clockVars, Never
<1>1. CASE TickInEvent \/ TickAlert
    BY <1>1 DEF TickInEvent, TickAlert
<1>2. CASE TickQuiet
    <2>1. Undisturbed /\ (inEvent => EventIsOver)
        BY <1>2 DEF TickQuiet, Undisturbed
    <2>2. now - alertAt >= EventHold
        BY <2>1, OverMeansOver DEF SpacingInv
    <2> QED
        BY <1>2, <2>2 DEF TickQuiet
<1>3. CASE PostReturns \/ NewServerConfig \/ UNCHANGED vars
    BY <1>3 DEF PostReturns, NewServerConfig, SpacingInv, Undisturbed, vars
<1>4. CASE TimePasses
    <2>1. /\ now \in Nat /\ now' = now + 1 /\ alertAt' = alertAt
          /\ Undisturbed /\ ~inEvent
        BY <1>4, <1>t DEF TimePasses, Undisturbed, TypeOK
    <2>2. alertAt \in Nat /\ now - alertAt >= EventHold
        BY <2>1, <1>t DEF SpacingInv, Undisturbed, TypeOK
    <2> QED
        BY <2>1, <2>2
<1>5. CASE ClockStep
    BY <1>5 DEF ClockStep, Undisturbed
<1> QED
    BY <1>1, <1>2, <1>3, <1>4, <1>5 DEF Next

\* On a 32-bit build two alerts are at least EventHold apart unless the clock is
\* stepped between them, however often millis() wraps.
THEOREM AlertSpacingHolds ==
    ASSUME LongWrap = Wrap
    PROVE  Spec => AlertSpacing
<1>1. Init => SpacingInv \/ ~TypeOK
    BY DEF Init, SpacingInv, AlertNoted, Undisturbed
<1>2. SpacingInv /\ [Next]_vars
          => [Alerting => \/ alertAt = Never
                          \/ disturbed
                          \/ now - alertAt >= EventHold]_vars
    <2> SUFFICES ASSUME SpacingInv, Next, Alerting, Undisturbed
                 PROVE  now - alertAt >= EventHold
        BY DEF Undisturbed
    <2>1. TickAlert
        BY DEF Next, Alerting, TickInEvent, TickQuiet, PostReturns, NewServerConfig,
               TimePasses, ClockStep, eventVars
    <2> QED
        BY <2>1, OverMeansOver DEF TickAlert, SpacingInv
<1> QED
    BY <1>1, <1>2, SpacingInductive, TypeCorrect, PTL DEF Spec, AlertSpacing

-----------------------------------------------------------------------------
(***************************************************************************)
(* The end of an event.  In less than one wrap the code's difference is not  *)
(* less than the time that passed, on a 32-bit and on a 64-bit build: a      *)
(* reading that comes EventHold after the alert finds the event over.       *)
(***************************************************************************)

LEMMA DueMeansOver ==
    ASSUME AlertNoted, Undisturbed, now - alertAt \in EventHold .. Wrap - 1
    PROVE  EventIsOver
<1>1. /\ now \in Nat /\ wall \in Nat /\ alertAt \in Nat
      /\ WallAtAlert \in Nat /\ alertAt <= now
      /\ lastEventWas = Millis(WallAtAlert)
    BY DEF AlertNoted, Undisturbed, TypeOK, Never
<1>2. wall - WallAtAlert = now - alertAt
    BY <1>1 DEF WallAtAlert
<1>3. wall - WallAtAlert < Wrap /\ wall - WallAtAlert >= EventHold
    BY <1>1, <1>2
<1>4. /\ Elapsed(Millis(wall), Millis(WallAtAlert)) \in Nat
      /\ wall - WallAtAlert <= Elapsed(Millis(wall), Millis(WallAtAlert))
    BY <1>1, <1>3, ElapsedCoversGap
<1>5. EventHold \in Nat /\ wall - WallAtAlert \in Int
    BY <1>1
<1> QED
    BY <1>1, <1>3, <1>4, <1>5 DEF EventIsOver

\* Every event ends with the first reading after EventHold, whatever the readings
\* are, however long the alert was posted and wherever millis() wraps.
THEOREM EventEndsHolds == Spec => EventEnds
<1>1. Init => AlertNoted \/ ~TypeOK
    BY DEF Init, AlertNoted, Undisturbed
<1>2. AlertNoted /\ [Next]_vars
          => [(Sampling /\ inEvent /\ ~disturbed /\ now - alertAt \in EventHold .. Wrap - 1)
                  => (inEvent' => alertAt' = now) /\ (red' <=> inEvent')]_vars
    <2> SUFFICES ASSUME AlertNoted, Next, Sampling, inEvent, ~disturbed,
                        now - alertAt \in EventHold .. Wrap - 1
                 PROVE  (inEvent' => alertAt' = now) /\ (red' <=> inEvent')
        OBVIOUS
    <2>1. EventIsOver
        BY DueMeansOver DEF AlertNoted, Undisturbed
    <2>2. TickQuiet \/ TickAlert
        <3>1. window \in Seq(Readings) /\ Len(window) \in Nat
            BY DEF AlertNoted, TypeOK
        <3>2. ~(UNCHANGED window)
            BY <3>1 DEF Sampling
        <3>3. ~NewServerConfig
            BY <3>1 DEF NewServerConfig, Sampling
        <3> QED
            BY <2>1, <3>2, <3>3 DEF Next, TickInEvent, PostReturns, TimePasses, ClockStep,
                                    statVars
    <2>3. CASE TickQuiet
        BY <2>3 DEF TickQuiet
    <2>4. CASE TickAlert
        BY <2>4 DEF TickAlert
    <2> QED
        BY <2>2, <2>3, <2>4
<1> QED
    BY <1>1, <1>2, AlertNotedInductive, TypeCorrect, PTL DEF Spec, EventEnds

-----------------------------------------------------------------------------
(***************************************************************************)
(* Sums.  Total is defined by recursion; what it is for every sequence       *)
(* follows by induction, here over a set of numbers: the least number that   *)
(* is not in it would have a predecessor that is.                           *)
(***************************************************************************)

LEMMA NatSetInduction ==
    ASSUME NEW S, 0 \in S, \A n \in Nat : n \in S => n + 1 \in S
    PROVE  \A n \in Nat : n \in S
<1> SUFFICES ASSUME NEW b \in Nat, b \notin S PROVE FALSE
    OBVIOUS
<1> DEFINE T == Nat \ S
<1>1. T \subseteq Nat /\ T # {}
    OBVIOUS
<1> HIDE DEF T
<1>2. PICK x \in T : \A y \in T : ~(<<y, x>> \in OpToRel(<, Nat))
    BY <1>1, NatLessThanWellFounded, WFMin
<1>3. \A y \in T : ~(y < x)
    BY <1>1, <1>2 DEF OpToRel
<1> QED
    <2>1. x \in Nat /\ x # 0
        BY <1>1 DEF T
    <2>2. x - 1 \in Nat /\ x - 1 < x
        BY <2>1
    <2>3. x - 1 \notin T
        BY <1>3, <2>2
    <2> QED
        BY <2>1, <2>2, <2>3 DEF T

\* f[i] is the sum of the first i members of s.
IsSum(f, s) == f = [i \in 0 .. Len(s) |-> IF i = 0 THEN 0 ELSE f[i - 1] + s[i]]

\* The recursion defines a function.
LEMMA SumExists ==
    ASSUME NEW s, Len(s) \in Nat
    PROVE  \E f : IsSum(f, s)
<1> DEFINE Up(f, k) == f = [i \in 0 .. k |-> IF i = 0 THEN 0 ELSE f[i - 1] + s[i]]
           S == {k \in Nat : \E f : Up(f, k)}
<1>1. 0 \in S
    <2> DEFINE f == [i \in 0 .. 0 |-> 0]
    <2>1. f = [i \in 0 .. 0 |-> IF i = 0 THEN 0 ELSE f[i - 1] + s[i]]
        OBVIOUS
    <2>2. Up(f, 0)
        BY <2>1
    <2> QED
        BY <2>2
<1>2. ASSUME NEW k \in Nat, k \in S PROVE k + 1 \in S
    <2>1. PICK f : Up(f, k)
        BY <1>2
    <2> DEFINE g == [i \in 0 .. k + 1 |-> IF i = k + 1 THEN f[k] + s[k + 1] ELSE f[i]]
    <2>2. \A i \in 0 .. k : f[i] = IF i = 0 THEN 0 ELSE f[i - 1] + s[i]
        BY <2>1
    <2>3. ASSUME NEW i \in 0 .. k + 1
          PROVE  g[i] = IF i = 0 THEN 0 ELSE g[i - 1] + s[i]
        <3>1. CASE i = k + 1
            BY <3>1
        <3>2. CASE i # k + 1 /\ i # 0
            <4>1. i \in 0 .. k /\ i - 1 \in 0 .. k
                BY <3>2
            <4>2. g[i] = f[i] /\ g[i - 1] = f[i - 1]
                BY <4>1
            <4>3. f[i] = f[i - 1] + s[i]
                BY <2>2, <4>1, <3>2
            <4> QED
                BY <3>2, <4>2, <4>3
        <3>3. CASE i = 0
            <4>1. g[0] = f[0] /\ f[0] = 0
                BY <2>2
            <4> QED
                BY <3>3, <4>1
        <3> QED
            BY <3>1, <3>2, <3>3
    <2>4. Up(g, k + 1)
        <3>1. g = [i \in 0 .. k + 1 |-> g[i]]
            OBVIOUS
        <3> HIDE DEF g
        <3> QED
            BY <2>3, <3>1
    <2> HIDE DEF g, Up
    <2>5. \E e : Up(e, k + 1)
        BY <2>4
    <2> QED
        BY <2>5
<1>3. \A k \in Nat : k \in S
    <2> HIDE DEF S
    <2> QED
        BY <1>1, <1>2, NatSetInduction
<1> QED
    <2>1. Len(s) \in S
        <3> HIDE DEF S
        <3> QED
            BY <1>3
    <2>2. \E f : Up(f, Len(s))
        BY <2>1
    <2> QED
        BY <2>2 DEF IsSum

LEMMA TotalIsSum ==
    ASSUME NEW s, Len(s) \in Nat
    PROVE  \E f : IsSum(f, s) /\ Total(s) = f[Len(s)]
<1>1. IsSum(CHOOSE f : IsSum(f, s), s)
    BY SumExists
<1>2. Total(s) = (CHOOSE f : IsSum(f, s))[Len(s)]
    BY DEF Total, IsSum
<1> QED
    BY <1>1, <1>2

\* A sum starts at 0 and grows by one member at a time.
LEMMA SumSteps ==
    ASSUME NEW s \in Seq(Int), NEW f, IsSum(f, s)
    PROVE  /\ f[0] = 0
           /\ \A i \in 0 .. Len(s) - 1 : f[i + 1] = f[i] + s[i + 1]
           /\ \A i \in 0 .. Len(s) : f[i] \in Int
<1>0. Len(s) \in Nat
    OBVIOUS
<1>1. \A i \in 0 .. Len(s) : f[i] = IF i = 0 THEN 0 ELSE f[i - 1] + s[i]
    BY DEF IsSum
<1>2. f[0] = 0
    BY <1>0, <1>1
<1>3. ASSUME NEW i \in 0 .. Len(s) - 1 PROVE f[i + 1] = f[i] + s[i + 1]
    <2>1. i + 1 \in 0 .. Len(s) /\ i + 1 # 0 /\ i + 1 - 1 = i
        BY <1>0
    <2> QED
        BY <1>1, <2>1
<1> DEFINE S == {i \in Nat : i <= Len(s) => f[i] \in Int}
<1>4. 0 \in S
    BY <1>2
<1>5. ASSUME NEW k \in Nat, k \in S PROVE k + 1 \in S
    <2>1. ASSUME k + 1 <= Len(s) PROVE f[k + 1] \in Int
        <3>1. k \in 0 .. Len(s) - 1 /\ k + 1 \in 1 .. Len(s) /\ k <= Len(s)
            BY <1>0, <2>1
        <3>2. f[k] \in Int /\ s[k + 1] \in Int
            BY <1>5, <3>1
        <3>3. f[k + 1] = f[k] + s[k + 1]
            BY <1>3, <3>1
        <3> QED
            BY <3>2, <3>3
    <2> QED
        BY <2>1
<1>6. \A k \in Nat : k \in S
    <2> HIDE DEF S
    <2> QED
        BY <1>4, <1>5, NatSetInduction
<1> QED
    BY <1>0, <1>2, <1>3, <1>6

LEMMA TotalIsInt == ASSUME NEW s \in Seq(Int) PROVE Total(s) \in Int
<1>1. Len(s) \in 0 .. Len(s)
    OBVIOUS
<1> QED
    BY <1>1, TotalIsSum, SumSteps

LEMMA TotalOfNone == Total(<<>>) = 0
<1>1. <<>> \in Seq(Int) /\ Len(<<>>) = 0
    OBVIOUS
<1>2. PICK f : IsSum(f, <<>>) /\ Total(<<>>) = f[Len(<<>>)]
    BY <1>1, TotalIsSum
<1>3. f[0] = 0
    BY <1>1, <1>2, SumSteps
<1> QED
    BY <1>1, <1>2, <1>3

LEMMA TotalAppend ==
    ASSUME NEW s \in Seq(Int), NEW v \in Int
    PROVE  Total(Append(s, v)) = Total(s) + v
<1> DEFINE r == Append(s, v)
           n == Len(s)
<1>1. /\ r \in Seq(Int) /\ n \in Nat /\ Len(r) = n + 1
      /\ r[n + 1] = v
      /\ \A i \in 1 .. n : r[i] = s[i]
    OBVIOUS
<1> HIDE DEF r
<1>2. PICK f : IsSum(f, s) /\ Total(s) = f[n]
    BY <1>1, TotalIsSum
<1>3. PICK g : IsSum(g, r) /\ Total(r) = g[n + 1]
    BY <1>1, TotalIsSum
<1>4. /\ f[0] = 0
      /\ \A i \in 0 .. n - 1 : f[i + 1] = f[i] + s[i + 1]
    BY <1>2, SumSteps
<1>5. /\ g[0] = 0
      /\ \A i \in 0 .. n : g[i + 1] = g[i] + r[i + 1]
    <2>1. /\ g[0] = 0
          /\ \A i \in 0 .. Len(r) - 1 : g[i + 1] = g[i] + r[i + 1]
        BY <1>1, <1>3, SumSteps
    <2> QED
        BY <1>1, <2>1
<1> DEFINE S == {i \in Nat : i <= n => g[i] = f[i]}
<1>6. 0 \in S
    BY <1>4, <1>5
<1>7. ASSUME NEW k \in Nat, k \in S PROVE k + 1 \in S
    <2>1. ASSUME k + 1 <= n PROVE g[k + 1] = f[k + 1]
        <3>1. k \in 0 .. n - 1 /\ k \in 0 .. n /\ k + 1 \in 1 .. n /\ k <= n
            BY <1>1, <2>1
        <3> QED
            BY <1>1, <1>4, <1>5, <1>7, <3>1
    <2> QED
        BY <2>1
<1>8. \A k \in Nat : k \in S
    <2> HIDE DEF S
    <2> QED
        BY <1>6, <1>7, NatSetInduction
<1>9. g[n] = f[n]
    BY <1>1, <1>8
<1>10. g[n + 1] = g[n] + v
    BY <1>1, <1>5
<1> QED
    BY <1>2, <1>3, <1>9, <1>10 DEF r

Squares(s) == [i \in 1 .. Len(s) |-> s[i] * s[i]]

LEMMA SquaresTyped ==
    ASSUME NEW s \in Seq(Int)
    PROVE  Squares(s) \in Seq(Int) /\ Len(Squares(s)) = Len(s)
<1>1. \A a \in Int : a * a \in Int
    OBVIOUS
<1>2. \A i \in 1 .. Len(s) : s[i] \in Int
    OBVIOUS
<1>3. \A i \in 1 .. Len(s) : s[i] * s[i] \in Int
    BY <1>1, <1>2
<1> QED
    BY <1>3 DEF Squares

LEMMA SquaresAppend ==
    ASSUME NEW s \in Seq(Int), NEW v \in Int
    PROVE  Total(Squares(Append(s, v))) = Total(Squares(s)) + v * v
<1>1. Squares(Append(s, v)) = Append(Squares(s), v * v)
    <2> DEFINE r == Append(s, v)
    <2>1. /\ Len(s) \in Nat /\ Len(r) = Len(s) + 1
          /\ r[Len(s) + 1] = v
          /\ \A i \in 1 .. Len(s) : r[i] = s[i]
        OBVIOUS
    <2> HIDE DEF r
    <2>2. \A i \in 1 .. Len(r) : r[i] * r[i] = IF i <= Len(s) THEN s[i] * s[i] ELSE v * v
        BY <2>1
    <2>3. Append(Squares(s), v * v)
              = [i \in 1 .. Len(r) |-> IF i <= Len(s) THEN s[i] * s[i] ELSE v * v]
        BY <2>1, SquaresTyped DEF Squares
    <2> QED
        BY <2>2, <2>3 DEF Squares, r
<1>2. v * v \in Int
    OBVIOUS
<1> QED
    BY <1>1, <1>2, SquaresTyped, TotalAppend

\* One more member: what its squared distance adds.
LEMMA DistanceStep ==
    ASSUME NEW n \in Int, NEW t \in Int, NEW x \in Int, NEW k \in Int,
           NEW a \in Int, NEW b \in Int, NEW c \in Int,
           c = n * n * b - 2 * n * t * a + k * (t * t)
    PROVE  c + (n * x - t) * (n * x - t)
               = n * n * (b + x * x) - 2 * n * t * (a + x) + (k + 1) * (t * t)
OBVIOUS

\* The sum of squared distances from the mean by the sums of members and squares.
LEMMA DistancesBySquares ==
    ASSUME NEW s \in Seq(Int)
    PROVE  SquaredDistances(s)
               = Len(s) * Len(s) * Total(Squares(s)) - Len(s) * (Total(s) * Total(s))
<1> DEFINE n == Len(s)
           t == Total(s)
           q == Squares(s)
           d == [i \in 1 .. n |-> (n * s[i] - t) * (n * s[i] - t)]
<1>1. n \in Nat /\ t \in Int /\ q \in Seq(Int) /\ Len(q) = n
    BY TotalIsInt, SquaresTyped
<1>2. SquaredDistances(s) = Total(d)
    <2> DEFINE dist == [i \in 1 .. n |-> n * s[i] - t]
    <2>1. [i \in 1 .. n |-> dist[i] * dist[i]] = d
        OBVIOUS
    <2> QED
        BY <2>1 DEF SquaredDistances
<1>3. d \in Seq(Int) /\ Len(d) = n
    <2>1. \A a, b, c \in Int : (a * b - c) * (a * b - c) \in Int
        OBVIOUS
    <2>2. \A i \in 1 .. n : (n * s[i] - t) * (n * s[i] - t) \in Int
        BY <1>1, <2>1
    <2> QED
        BY <1>1, <2>2
<1>4. PICK f : IsSum(f, s) /\ t = f[n]
    BY <1>1, TotalIsSum
<1>5. PICK g : IsSum(g, q) /\ Total(q) = g[n]
    BY <1>1, TotalIsSum
<1>6. PICK h : IsSum(h, d) /\ Total(d) = h[n]
    BY <1>1, <1>3, TotalIsSum
<1>7. /\ f[0] = 0 /\ \A i \in 0 .. n - 1 : f[i + 1] = f[i] + s[i + 1]
      /\ \A i \in 0 .. n : f[i] \in Int
    BY <1>4, SumSteps
<1>8. /\ g[0] = 0 /\ \A i \in 0 .. n - 1 : g[i + 1] = g[i] + q[i + 1]
      /\ \A i \in 0 .. n : g[i] \in Int
    BY <1>1, <1>5, SumSteps
<1>9. /\ h[0] = 0 /\ \A i \in 0 .. n - 1 : h[i + 1] = h[i] + d[i + 1]
      /\ \A i \in 0 .. n : h[i] \in Int
    BY <1>3, <1>6, SumSteps
<1>10. \A i \in 1 .. n : /\ q[i] = s[i] * s[i]
                         /\ d[i] = (n * s[i] - t) * (n * s[i] - t)
                         /\ s[i] \in Int
    BY DEF Squares
<1> DEFINE S == {k \in Nat : k <= n =>
                     h[k] = n * n * g[k] - 2 * n * t * f[k] + k * (t * t)}
<1> HIDE DEF t, q, d
<1>11. 0 \in S
    <2>1. n * n * 0 - 2 * n * t * 0 + 0 * (t * t) = 0
        BY <1>1
    <2> QED
        BY <1>7, <1>8, <1>9, <2>1
<1>12. ASSUME NEW k \in Nat, k \in S PROVE k + 1 \in S
    <2> SUFFICES ASSUME k + 1 <= n
                 PROVE  h[k + 1] = n * n * g[k + 1] - 2 * n * t * f[k + 1] + (k + 1) * (t * t)
        OBVIOUS
    <2>1. k \in 0 .. n - 1 /\ k \in 0 .. n /\ k + 1 \in 1 .. n /\ k <= n
        BY <1>1
    <2>2. h[k] = n * n * g[k] - 2 * n * t * f[k] + k * (t * t)
        BY <1>12, <2>1
    <2>3. /\ f[k + 1] = f[k] + s[k + 1]
          /\ g[k + 1] = g[k] + s[k + 1] * s[k + 1]
          /\ h[k + 1] = h[k] + (n * s[k + 1] - t) * (n * s[k + 1] - t)
        BY <1>7, <1>8, <1>9, <1>10, <2>1
    <2>4. f[k] \in Int /\ g[k] \in Int /\ h[k] \in Int /\ s[k + 1] \in Int /\ n \in Int
        BY <1>1, <1>7, <1>8, <1>9, <1>10, <2>1
    <2>5. h[k] + (n * s[k + 1] - t) * (n * s[k + 1] - t)
              = n * n * (g[k] + s[k + 1] * s[k + 1]) - 2 * n * t * (f[k] + s[k + 1])
                + (k + 1) * (t * t)
        <3> DEFINE a == f[k]
                   b == g[k]
                   c == h[k]
                   x == s[k + 1]
        <3>1. /\ n \in Int /\ t \in Int /\ k \in Int
              /\ a \in Int /\ b \in Int /\ c \in Int /\ x \in Int
              /\ c = n * n * b - 2 * n * t * a + k * (t * t)
            BY <1>1, <2>2, <2>4
        <3> HIDE DEF n, S, a, b, c, x
        <3>2. c + (n * x - t) * (n * x - t)
                  = n * n * (b + x * x) - 2 * n * t * (a + x) + (k + 1) * (t * t)
            BY ONLY <3>1, DistanceStep
        <3> QED
            BY <3>2 DEF a, b, c, x
    <2> QED
        BY <2>3, <2>5
<1>13. \A k \in Nat : k \in S
    <2> HIDE DEF S
    <2> QED
        BY <1>11, <1>12, NatSetInduction
<1>14. n \in S
    <2> HIDE DEF S, n
    <2> QED
        BY <1>1, <1>13
<1>15. h[n] = n * n * g[n] - 2 * n * t * f[n] + n * (t * t)
    BY <1>1, <1>14
<1>16. h[n] = n * n * g[n] - n * (t * t)
    <2>1. \A a, b, c \in Int : a * a * b - 2 * a * c * c + a * (c * c) = a * a * b - a * (c * c)
        OBVIOUS
    <2>2. g[n] \in Int /\ f[n] = t
        BY <1>1, <1>4, <1>8
    <2> HIDE DEF n
    <2> QED
        BY <1>1, <1>15, <2>1, <2>2
<1> QED
    BY <1>2, <1>5, <1>6, <1>16 DEF t, q

-----------------------------------------------------------------------------
(***************************************************************************)
(* Arithmetic of the running statistics.                                    *)
(***************************************************************************)

\* A positive number times an integer.
LEMMA Multiplied ==
    ASSUME NEW m \in Nat \ {0}, NEW k \in Int
    PROVE  /\ m * k \in Int
           /\ k >= 1 => m * k >= m
           /\ k <= 0 => m * k <= 0
           /\ k <= -1 => m * k <= -m
<1>2. m * k \in Int
    OBVIOUS
<1>3. k >= 1 => m * k >= m
    OBVIOUS
<1>4. k <= 0 => m * k <= 0
    OBVIOUS
<1>6. k <= -1 => m * k <= -m
    OBVIOUS
<1> QED
    BY <1>2, <1>3, <1>4, <1>6

\* A positive factor keeps an order.
LEMMA Scaled ==
    ASSUME NEW m \in Nat \ {0}, NEW x \in Int, NEW y \in Int
    PROVE  m * x > m * y <=> x > y
<1>1. x - y \in Int /\ m * (x - y) = m * x - m * y
    OBVIOUS
<1>2. m * x \in Int /\ m * y \in Int
    OBVIOUS
<1>3. x > y => m * (x - y) >= m
    BY <1>1, Multiplied
<1>4. ~(x > y) => m * (x - y) <= 0
    BY <1>1, Multiplied
<1> QED
    BY <1>1, <1>2, <1>3, <1>4

\* Division without remainder.
LEMMA Divided ==
    ASSUME NEW m \in Nat \ {0}, NEW k \in Int
    PROVE  (m * k) \div m = k
<1> DEFINE q == (m * k) \div m
<1>1. m * k \in Int
    OBVIOUS
<1>2. q \in Int /\ m * k >= m * q /\ m * k < m * q + m
    <2>1. \A x \in Int : /\ x \div m \in Int
                         /\ x >= m * (x \div m) /\ x < m * (x \div m) + m
        OBVIOUS
    <2> QED
        BY <1>1, <2>1
<1> HIDE DEF q
<1>3. k - q \in Int /\ m * (k - q) = m * k - m * q /\ m * q \in Int
    BY <1>2
<1>4. ~(k - q >= 1)
    BY <1>1, <1>2, <1>3, Multiplied
<1>5. ~(k - q <= -1)
    BY <1>1, <1>2, <1>3, Multiplied
<1>6. k = q
    BY <1>2, <1>3, <1>4, <1>5
<1> QED
    BY <1>6 DEF q

\* The running mean of n readings is exact, and so is that of one more if it is
\* an integer at all.
LEMMA WelfordMean ==
    ASSUME NEW n \in Nat, NEW a \in Int, NEW v \in Int, NEW m \in Int,
           n * a + v = (n + 1) * m
    PROVE  a + ((v - a) \div (n + 1)) = m
<1>1. v - a = (n + 1) * (m - a)
    <2>1. (n + 1) * (m - a) = (n + 1) * m - n * a - a
        OBVIOUS
    <2>2. n * a \in Int
        OBVIOUS
    <2> QED
        BY <2>1, <2>2
<1>2. n + 1 \in Nat \ {0} /\ m - a \in Int
    OBVIOUS
<1>3. ((n + 1) * (m - a)) \div (n + 1) = m - a
    BY <1>2, Divided
<1> QED
    BY <1>1, <1>3

\* The running sum of squared distances is the sum of the squares without n
\* squares of the mean.
LEMMA WelfordDeviation ==
    ASSUME NEW n \in Int, NEW a \in Int, NEW b \in Int, NEW v \in Int, NEW q \in Int,
           n * a + v = (n + 1) * b
    PROVE  (q - n * (a * a)) + (v - a) * (v - b) = (q + v * v) - (n + 1) * (b * b)
<1>1. v = (n + 1) * b - n * a
    <2>1. n * a \in Int
        OBVIOUS
    <2> QED
        BY <2>1
<1> DEFINE w == (n + 1) * b - n * a
<1>2. (q - n * (a * a)) + (w - a) * (w - b) = (q + w * w) - (n + 1) * (b * b)
    OBVIOUS
<1> QED
    BY <1>1, <1>2

\* The threshold's condition and the two-pass formula's differ by a factor.
LEMMA SameVerdict ==
    ASSUME NEW n \in Nat, n > 1, NEW value \in Int, NEW a \in Int, NEW q \in Int,
           NEW t \in Int, t = n * a,
           NEW d \in Int, d = q - n * (a * a), NEW sigma \in Int
    PROVE  /\ n * value - t > 0 <=> value - a > 0
           /\ (n * value - t) * (n * value - t) * (n - 1)
                  > sigma * sigma * (n * n * q - n * (t * t))
              <=> (value - a) * (value - a) * (n - 1) > sigma * sigma * d
<1> DEFINE above == value - a
           x == above * above * (n - 1)
           y == sigma * sigma * d
<1>1. n \in Nat \ {0} /\ n * n \in Nat \ {0} /\ above \in Int
    <2>1. n * n > 0
        BY Multiplied
    <2>2. n * n \in Int
        OBVIOUS
    <2> QED
        BY <2>1, <2>2
<1>2. x \in Int /\ y \in Int
    <2>1. \A i, j \in Int : i * i * j \in Int
        OBVIOUS
    <2> QED
        BY <1>1, <2>1
<1>3. n * value - t = n * above
    OBVIOUS
<1>4. n * above > n * 0 <=> above > 0
    BY <1>1, Scaled
<1>5. (n * above) * (n * above) * (n - 1) = (n * n) * x
    OBVIOUS
<1>6. sigma * sigma * (n * n * q - n * (t * t)) = (n * n) * y
    OBVIOUS
<1>7. (n * n) * x > (n * n) * y <=> x > y
    <2> HIDE DEF x, y
    <2> QED
        BY <1>1, <1>2, Scaled
<1> QED
    BY <1>3, <1>4, <1>5, <1>6, <1>7

-----------------------------------------------------------------------------
(***************************************************************************)
(* The threshold.  The running average and deviation describe the window,    *)
(* and the threshold describes the window it was computed from; a reading    *)
(* exceeds it exactly when the two-pass formula over that window says so.    *)
(***************************************************************************)

\* The unit is so small that the average of up to MaxElements readings is an
\* integer: the model's premise for exact arithmetic.
ExactUnit(u) ==
    /\ u \in Nat \ {0}
    /\ \A r \in Readings : \E m \in Int : r = u * m
    /\ \A n \in 1 .. MaxElements : \E m \in Int : u = n * m

\* avg and dev are the mean of s and the sum of the squared distances from it.
Describes(s, avg, dev) ==
    /\ Len(s) * avg = Total(s)
    /\ dev = Total(Squares(s)) - Len(s) * (avg * avg)

ThresholdDescribes ==
    \/ judged.samples = <<>> /\ quakeThreshold = PowerOnThreshold
    \/ /\ Len(judged.samples) > 1
       /\ Describes(judged.samples, quakeThreshold.avg, quakeThreshold.dev)
       /\ quakeThreshold.n = Len(judged.samples)
       /\ quakeThreshold.sigma = judged.sigma

StatsInv ==
    /\ TypeOK
    /\ Describes(window, partialAvg, partialStdDev)
    /\ ThresholdDescribes

LEMMA ElementOfReadings ==
    ASSUME NEW s \in Seq(Readings), NEW i \in 1 .. Len(s)
    PROVE  s[i] \in Readings
OBVIOUS

LEMMA ReadingsAreInts == Readings \subseteq Int /\ Seq(Readings) \subseteq Seq(Int)
<1>1. Readings \subseteq Int
    OBVIOUS
<1>2. ASSUME NEW s \in Seq(Readings) PROVE s \in Seq(Int)
    <2>1. Len(s) \in Nat /\ s = [i \in 1 .. Len(s) |-> s[i]]
        OBVIOUS
    <2>2. \A i \in 1 .. Len(s) : s[i] \in Int
        BY <1>1, ElementOfReadings
    <2> DEFINE n == Len(s)
    <2>3. n \in Nat /\ \A i \in 1 .. n : s[i] \in Int
        BY <2>1, <2>2
    <2> HIDE DEF n
    <2>4. [i \in 1 .. n |-> s[i]] \in Seq(Int)
        BY <2>3
    <2> QED
        BY <2>1, <2>4 DEF n
<1> QED
    BY <1>1, <1>2

LEMMA MeansAreExact ==
    ASSUME NEW u, ExactUnit(u), NEW s \in Seq(Readings), Len(s) \in 1 .. MaxElements
    PROVE  \E m \in Int : Total(s) = Len(s) * m
<1> DEFINE n == Len(s)
<1>1. u \in Nat \ {0} /\ n \in Nat /\ s \in Seq(Int)
    BY ReadingsAreInts DEF ExactUnit
<1>2. PICK f : IsSum(f, s) /\ Total(s) = f[n]
    BY <1>1, TotalIsSum
<1>3. f[0] = 0 /\ \A i \in 0 .. n - 1 : f[i + 1] = f[i] + s[i + 1]
    BY <1>1, <1>2, SumSteps
<1> DEFINE S == {k \in Nat : k <= n => \E m \in Int : f[k] = u * m}
<1>4. 0 \in S
    <2>1. f[0] = u * 0
        BY <1>1, <1>3
    <2> QED
        BY <2>1
<1>5. ASSUME NEW k \in Nat, k \in S PROVE k + 1 \in S
    <2> SUFFICES ASSUME k + 1 <= n PROVE \E m \in Int : f[k + 1] = u * m
        OBVIOUS
    <2>1. k \in 0 .. n - 1 /\ k <= n /\ k + 1 \in 1 .. n
        BY <1>1
    <2>2. PICK i \in Int : f[k] = u * i
        BY <1>5, <2>1
    <2>3. s[k + 1] \in Readings
        BY <2>1
    <2>4. PICK j \in Int : s[k + 1] = u * j
        BY <2>3 DEF ExactUnit
    <2>5. u * i + u * j = u * (i + j) /\ i + j \in Int
        BY <1>1
    <2>6. f[k + 1] = u * (i + j)
        BY <1>3, <2>1, <2>2, <2>4, <2>5
    <2> QED
        BY <2>5, <2>6
<1>6. \A k \in Nat : k \in S
    <2> HIDE DEF S
    <2> QED
        BY <1>4, <1>5, NatSetInduction
<1>7. PICK i \in Int : f[n] = u * i
    <2> HIDE DEF n
    <2>1. n \in S
        <3> HIDE DEF S
        <3> QED
            BY <1>1, <1>6
    <2>2. n <= n => \E m \in Int : f[n] = u * m
        BY ONLY <2>1
    <2>3. n <= n
        BY <1>1
    <2> QED
        BY <2>2, <2>3
<1>8. PICK j \in Int : u = n * j
    BY DEF ExactUnit
<1>9. (n * j) * i = n * (j * i) /\ j * i \in Int
    BY <1>1
<1> QED
    BY <1>2, <1>7, <1>8, <1>9

\* addValueToAvgVar() keeps the statistics those of the window.
LEMMA StatsFollowWindow ==
    ASSUME NEW u, ExactUnit(u), StatsInv, TypeOK', NEW value \in Readings, AddValue(value)
    PROVE  Describes(window, partialAvg, partialStdDev)'
<1> DEFINE n == elements
           a == partialAvg
           b == partialAvg'
           q == Total(Squares(window))
<1>1. /\ n \in Nat /\ a \in Int /\ b \in Int /\ value \in Int
      /\ window \in Seq(Int) /\ Len(window) = n
      /\ Len(window') = n + 1 /\ window' \in Seq(Readings)
      /\ window' = Append(window, value)
      /\ n + 1 \in 1 .. MaxElements
    <2>1. n \in Nat /\ a \in Int /\ Len(window) = n /\ window \in Seq(Readings)
        BY DEF StatsInv, TypeOK
    <2>2. b \in Int /\ Len(window') = elements' /\ window' \in Seq(Readings)
        BY DEF TypeOK
    <2>3. /\ elements' = n + 1 /\ n < MaxElements
          /\ window' = Append(window, value)
        BY DEF AddValue
    <2>4. value \in Int /\ window \in Seq(Int)
        BY <2>1, ReadingsAreInts
    <2> QED
        BY <2>1, <2>2, <2>3, <2>4
<1>2. q \in Int
    BY <1>1, SquaresTyped, TotalIsInt
<1>3. n * a = Total(window) /\ partialStdDev = q - n * (a * a)
    BY <1>1 DEF StatsInv, Describes
<1>4. /\ Total(window') = Total(window) + value
      /\ Total(Squares(window')) = q + value * value
    BY <1>1, TotalAppend, SquaresAppend
<1>5. PICK m \in Int : Total(window') = (n + 1) * m
    BY <1>1, MeansAreExact
<1>6. n * a + value = (n + 1) * m
    BY <1>3, <1>4, <1>5
<1>7. b = a + ((value - a) \div (n + 1))
    BY <1>1 DEF AddValue
<1>8. b = m
    <2>1. n \in Nat /\ a \in Int /\ value \in Int /\ m \in Int
        BY <1>1
    <2> HIDE DEF n, a, b
    <2> QED
        BY ONLY <2>1, <1>6, <1>7, WelfordMean
<1>9. partialStdDev' = partialStdDev + (value - a) * (value - b)
    BY DEF AddValue
<1> HIDE DEF n, a, b, q
<1>10. (q - n * (a * a)) + (value - a) * (value - b)
           = (q + value * value) - (n + 1) * (b * b)
    BY <1>1, <1>2, <1>6, <1>8, WelfordDeviation
<1>11. Len(window') * b = Total(window')
    BY <1>1, <1>5, <1>8
<1>12. partialStdDev' = Total(Squares(window')) - Len(window') * (b * b)
    BY <1>1, <1>3, <1>4, <1>9, <1>10 DEF a, b
<1> QED
    BY <1>11, <1>12 DEF Describes, Squares, b

LEMMA StatsInductive ==
    ASSUME NEW u, ExactUnit(u)
    PROVE  StatsInv /\ TypeOK' /\ [Next]_vars => StatsInv'
<1> SUFFICES ASSUME StatsInv, TypeOK', [Next]_vars PROVE StatsInv'
    OBVIOUS
<1> USE DEF StatsInv
<1>1. ASSUME NEW value \in Readings, AddValue(value)
      PROVE  StatsInv'
    <2>1. Describes(window, partialAvg, partialStdDev)'
        BY <1>1, StatsFollowWindow
    <2>2. ThresholdDescribes'
        <3>1. CASE elements' > 1
            <4>1. /\ quakeThreshold' =
                         Threshold(partialAvg', partialStdDev', elements', sigmaIter)
                  /\ judged' = [samples |-> window', sigma |-> sigmaIter]
                BY <1>1, <3>1 DEF AddValue
            <4>2. Len(window') = elements'
                BY DEF TypeOK
            <4> QED
                BY <2>1, <3>1, <4>1, <4>2 DEF ThresholdDescribes, Threshold, Describes, Squares
        <3>2. CASE ~(elements' > 1)
            BY <1>1, <3>2 DEF AddValue, ThresholdDescribes, Describes, Squares
        <3> QED
            BY <3>1, <3>2
    <2> QED
        BY <2>1, <2>2
<1>2. CASE TickInEvent \/ TickQuiet \/ TickAlert
    BY <1>1, <1>2 DEF TickInEvent, TickQuiet, TickAlert
<1>3. CASE NewServerConfig
    <2>1. /\ window' = <<>> /\ partialAvg' = 0 /\ partialStdDev' = 0
          /\ quakeThreshold' = quakeThreshold /\ judged' = judged
        BY <1>3 DEF NewServerConfig
    <2>2. Describes(<<>>, 0, 0)
        <3>1. Len(<<>>) = 0 /\ Squares(<<>>) = <<>>
            BY DEF Squares
        <3> QED
            BY <3>1, TotalOfNone DEF Describes
    <2> QED
        BY <2>1, <2>2 DEF ThresholdDescribes, Describes, Squares
<1>4. CASE PostReturns \/ TimePasses \/ ClockStep \/ UNCHANGED vars
    <2>1. UNCHANGED <<window, partialAvg, partialStdDev, quakeThreshold, judged>>
        BY <1>4 DEF PostReturns, TimePasses, ClockStep, vars, statVars
    <2> QED
        BY <2>1 DEF ThresholdDescribes, Describes, Squares
<1> QED
    BY <1>2, <1>3, <1>4 DEF Next

\* With exact arithmetic the one-pass threshold of addValueToAvgVar() judges every
\* reading as the two-pass formula of Utils::stddev() over the last window that
\* had two readings does - for any number of readings, of windows and of sigmas.
THEOREM ThresholdIsTwoPassHolds ==
    ASSUME NEW CONSTANT u, ExactUnit(u)
    PROVE  Spec => []ThresholdIsTwoPass
<1>1. Init => StatsInv \/ ~TypeOK
    <2>1. Len(<<>>) = 0 /\ Squares(<<>>) = <<>>
        BY DEF Squares
    <2>2. Describes(<<>>, 0, 0)
        BY <2>1, TotalOfNone DEF Describes
    <2> QED
        BY <2>2 DEF Init, StatsInv, ThresholdDescribes
<1>2. StatsInv => ThresholdIsTwoPass
    <2> SUFFICES ASSUME StatsInv, judged.samples # <<>>, NEW value \in Readings
                 PROVE  Exceeds(value, quakeThreshold)
                            <=> ReferenceExceeds(value, judged.samples, judged.sigma)
        <3> SUFFICES ASSUME StatsInv PROVE ThresholdIsTwoPass
            OBVIOUS
        <3>1. judged.samples = <<>> => quakeThreshold = PowerOnThreshold
            <4>1. judged.samples = <<>> => Len(judged.samples) = 0
                OBVIOUS
            <4>2. ThresholdDescribes
                BY DEF StatsInv
            <4> QED
                BY <4>1, <4>2 DEF ThresholdDescribes
        <3> QED
            BY <3>1 DEF ThresholdIsTwoPass
    <2> DEFINE s == judged.samples
               n == Len(s)
               a == quakeThreshold.avg
               d == quakeThreshold.dev
               t == Total(s)
               q == Total(Squares(s))
               g == judged.sigma
    <2>1. s \in Seq(Int) /\ n \in Nat /\ g \in Int /\ a \in Int /\ d \in Int /\ value \in Int
        <3>1. s \in Seq(Readings) /\ g \in Nat /\ a \in Int /\ d \in Int
            BY DEF StatsInv, TypeOK
        <3> QED
            BY <3>1, ReadingsAreInts
    <2>2. n > 1 /\ n * a = t /\ d = q - n * (a * a) /\ quakeThreshold.n = n
          /\ quakeThreshold.sigma = g
        BY DEF StatsInv, ThresholdDescribes, Describes
    <2>3. t \in Int /\ q \in Int
        BY <2>1, SquaresTyped, TotalIsInt
    <2>4. SquaredDistances(s) = n * n * q - n * (t * t)
        BY <2>1, DistancesBySquares
    <2>5. Exceeds(value, quakeThreshold)
              <=> value - a > 0 /\ (value - a) * (value - a) * (n - 1) > g * g * d
        BY <2>2 DEF Exceeds
    <2>6. ReferenceExceeds(value, s, g)
              <=> /\ n * value - t > 0
                  /\ (n * value - t) * (n * value - t) * (n - 1)
                         > g * g * (n * n * q - n * (t * t))
        BY <2>4 DEF ReferenceExceeds
    <2> HIDE DEF s, n, a, d, t, q, g
    <2>7. /\ n * value - t > 0 <=> value - a > 0
          /\ (n * value - t) * (n * value - t) * (n - 1)
                 > g * g * (n * n * q - n * (t * t))
              <=> (value - a) * (value - a) * (n - 1) > g * g * d
        <3>1. n \in Nat /\ n > 1 /\ t = n * a /\ d = q - n * (a * a)
            BY <2>1, <2>2
        <3> QED
            BY ONLY <2>1, <2>3, <3>1, SameVerdict
    <2> QED
        BY <2>5, <2>6, <2>7 DEF s, g
<1> QED
    BY <1>1, <1>2, StatsInductive, TypeCorrect, PTL DEF Spec
=============================================================================
