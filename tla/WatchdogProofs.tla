--------------------------- MODULE WatchdogProofs ---------------------------
(***************************************************************************)
(* Theorems of Watchdog, for every length of the intervals, every width of   *)
(* millis() and every sequence of clock steps.                              *)
(***************************************************************************)
EXTENDS Watchdog, TLAPS

USE WatchdogAssumption, MillisAssumption

\* The initial states are well typed.
LEMMA InitTypes == Init => TypeOK
<1> SUFFICES ASSUME Init PROVE TypeOK
    OBVIOUS
<1>1. wall \in Nat
    BY DEF Init
<1>2. mtime \in Nat \cup {NoFile}
    BY <1>1 DEF Init, NoFile
<1>3. lastBeat \in Instant
    BY DEF Init, Instant
<1> QED
    BY <1>1, <1>2, <1>3 DEF Init, TypeOK

\* Every reachable state has the declared types: Watchdog::lastBeat keeps to
\* the 32 bits of millis(), no clock goes below zero.
THEOREM TypeCorrect == Spec => []TypeOK
<1>1. Init => TypeOK
    BY InitTypes
<1>2. TypeOK /\ [Next]_vars => TypeOK'
    <2> SUFFICES ASSUME TypeOK, [Next]_vars PROVE TypeOK'
        OBVIOUS
    <2>a. Millis(wall) \in Instant
        BY MillisDivision DEF TypeOK
    <2> USE DEF TypeOK, beatVars
    <2>b. ASSUME Beat
          PROVE  /\ beatAt' \in Nat
                 /\ mtime' \in Nat \cup {NoFile}
                 /\ lastBeat' \in Instant
                 /\ written' \in BOOLEAN
                 /\ stepped' \subseteq Directions
                 /\ reboot' \in {"none", "sketch", "dog"}
        BY <2>a, <2>b DEF Beat, TouchFile
    <2>1. CASE LaunchUnderInit
        BY <2>1 DEF LaunchUnderInit
    <2>2. CASE LaunchForkFails
        BY <2>2 DEF LaunchForkFails
    <2>3. CASE LaunchForks
        BY <2>3, <2>b DEF LaunchForks
    <2>4. CASE HeartBeat
        BY <2>4, <2>b DEF HeartBeat
    <2>5. CASE SketchExits
        BY <2>5 DEF SketchExits
    <2>6. CASE PollFindsLife
        BY <2>6 DEF PollFindsLife
    <2>7. CASE PollFindsDeath \/ PollCrashes
        BY <2>7 DEF PollFindsDeath, PollCrashes
    <2>8. CASE Tick
        BY <2>8 DEF Tick
    <2>9. CASE ClockStep
        BY <2>9 DEF ClockStep, Directions
    <2>10. CASE UNCHANGED vars
        BY <2>10 DEF vars
    <2> QED
        BY <2>1, <2>2, <2>3, <2>4, <2>5, <2>6, <2>7, <2>8, <2>9, <2>10 DEF Next
<1> QED
    BY <1>1, <1>2, PTL DEF Spec

-----------------------------------------------------------------------------
(***************************************************************************)
(* Completeness.  A poll that finds the file fresh knows that the last call  *)
(* of heartBeat() is at most Timer old, because the clock shows at least the *)
(* real age of the file as long as nobody steps it back; so the next poll    *)
(* comes at most Timer + Poll after that call, and time does not pass it.    *)
(***************************************************************************)

\* The dog sleeps no longer than Poll, and the clock has not passed its waking.
DogWakes == dog = "asleep" => now <= wake /\ wake <= now + Poll

\* The file this sketch touched shows at least its real age.
FileAges ==
    (written /\ "back" \notin stepped)
        => (mtime # NoFile => wall - mtime >= now - beatAt)

\* The file can go only with a failed beat, which reboots the board.
FileStays == (written /\ reboot = "none") => mtime # NoFile

\* The next poll is no later than Timer + Poll after the last call.
NextPollInTime ==
    (dog = "asleep" /\ written /\ "back" \notin stepped)
        => wake <= beatAt + Timer + Poll

CompletenessInv ==
    /\ TypeOK
    /\ beatAt <= now
    /\ sketch = "new" => dog = "none" /\ ~written
    /\ DogWakes
    /\ FileAges
    /\ FileStays
    /\ NextPollInTime

LEMMA CompletenessInductive ==
    CompletenessInv /\ TypeOK' /\ [Next]_vars => CompletenessInv'
<1> SUFFICES ASSUME CompletenessInv, TypeOK', [Next]_vars
             PROVE  CompletenessInv'
    OBVIOUS
<1> USE DEF CompletenessInv, DogWakes, FileAges, FileStays, NextPollInTime,
            beatVars, NoFile
<1>1. CASE LaunchUnderInit
    BY <1>1 DEF LaunchUnderInit, TypeOK
<1>2. CASE LaunchForkFails
    BY <1>2 DEF LaunchForkFails, TypeOK
<1>3. CASE LaunchForks
    <2>1. CASE ~BeatDue /\ UNCHANGED <<lastBeat, mtime, written, stepped, reboot>>
        BY <1>3, <2>1 DEF LaunchForks, Beat, TypeOK
    <2>2. CASE BeatDue /\ TouchFile /\ UNCHANGED reboot
        BY <1>3, <2>2 DEF LaunchForks, Beat, TouchFile, TypeOK
    <2>3. CASE /\ mtime' = NoFile
               /\ reboot' = "sketch"
               /\ UNCHANGED <<lastBeat, written, stepped>>
        BY <1>3, <2>3 DEF LaunchForks, Beat, TypeOK
    <2> QED
        BY <1>3, <2>1, <2>2, <2>3 DEF LaunchForks, Beat
<1>4. CASE HeartBeat
    <2>1. CASE ~BeatDue /\ UNCHANGED <<lastBeat, mtime, written, stepped, reboot>>
        BY <1>4, <2>1 DEF HeartBeat, Beat, TypeOK
    <2>2. CASE BeatDue /\ TouchFile /\ UNCHANGED reboot
        BY <1>4, <2>2 DEF HeartBeat, Beat, TouchFile, TypeOK
    <2>3. CASE /\ mtime' = NoFile
               /\ reboot' = "sketch"
               /\ UNCHANGED <<lastBeat, written, stepped>>
        BY <1>4, <2>3 DEF HeartBeat, Beat, TypeOK
    <2> QED
        BY <1>4, <2>1, <2>2, <2>3 DEF HeartBeat, Beat
<1>5. CASE SketchExits
    BY <1>5 DEF SketchExits, TypeOK
<1>6. CASE PollFindsLife
    BY <1>6 DEF PollFindsLife, FileIsFresh, TypeOK
<1>7. CASE PollFindsDeath \/ PollCrashes
    BY <1>7 DEF PollFindsDeath, PollCrashes, TypeOK
<1>8. CASE Tick
    BY <1>8 DEF Tick, TypeOK
<1>9. CASE ClockStep
    <2>1. PICK s \in Steps :
              /\ wall' = wall + s
              /\ stepped' = stepped \cup {IF s > 0 THEN "forward" ELSE "back"}
        BY <1>9 DEF ClockStep
    <2>2. "back" \notin stepped' => wall' >= wall /\ "back" \notin stepped
        BY <2>1 DEF TypeOK
    <2> QED
        BY <1>9, <2>1, <2>2 DEF ClockStep, TypeOK
<1>10. CASE UNCHANGED vars
    BY <1>10 DEF vars, TypeOK
<1> QED
    BY <1>1, <1>2, <1>3, <1>4, <1>5, <1>6, <1>7, <1>8, <1>9, <1>10 DEF Next

\* A silent sketch is rebooted within Timer + Poll: no behaviour reaches a
\* later moment with the dog still asleep.
THEOREM CompletenessHolds == Spec => []Completeness
<1>1. Init => CompletenessInv
    BY InitTypes DEF Init, CompletenessInv, DogWakes, FileAges, FileStays,
                     NextPollInTime
<1>2. CompletenessInv => Completeness
    BY DEF CompletenessInv, Completeness, DogWakes, NextPollInTime, TypeOK
<1> QED
    BY <1>1, <1>2, CompletenessInductive, TypeCorrect, PTL DEF Spec

-----------------------------------------------------------------------------
(***************************************************************************)
(* Accuracy.  After every call of heartBeat() the file is at most BeatGap    *)
(* old - here the subtraction of millis() must not show less than the real   *)
(* age, which holds because a sleeping dog bounds that age below one wrap -  *)
(* so a file older than Timer means more than Timer - BeatGap of silence.    *)
(***************************************************************************)

\* lastBeat is the modification time of the file, as millis() showed it.
BeatMatchesFile == (written /\ mtime # NoFile) => lastBeat = Millis(mtime)

\* With a dog that has found the file fresh, its age is below one wrap.
AgeBelowWrap ==
    (dog = "asleep" /\ written /\ "forward" \notin stepped /\ reboot = "none")
        => (wall - mtime) + (wake - now) <= Timer + Poll

\* A call of heartBeat() leaves the file at most BeatGap old.
BeatsKeepYoung ==
    (dog = "asleep" /\ written /\ "forward" \notin stepped /\ reboot = "none")
        => wall - mtime <= BeatGap + (now - beatAt)

AccuracyInv ==
    /\ CompletenessInv
    /\ BeatMatchesFile
    /\ AgeBelowWrap
    /\ BeatsKeepYoung
    /\ Accuracy

\* A call that finds the file older than BeatGap rewrites it.
LEMMA BeatKeepsYoung ==
    ASSUME AccuracyInv, dog = "asleep", written, "forward" \notin stepped,
           reboot = "none", ~BeatDue
    PROVE  wall - mtime <= BeatGap
<1>1. mtime \in Nat /\ wall \in Nat /\ wall - mtime < Wrap
    BY DEF AccuracyInv, CompletenessInv, AgeBelowWrap, FileStays, DogWakes, TypeOK,
           NoFile
<1>2. wall - mtime <= Elapsed(Millis(wall), Millis(mtime))
      /\ Elapsed(Millis(wall), Millis(mtime)) \in Nat
    BY <1>1, ElapsedCoversGap
<1>3. Elapsed(Millis(wall), Millis(mtime)) <= BeatGap
    BY <1>1, <1>2 DEF BeatDue, AccuracyInv, BeatMatchesFile, NoFile
<1> QED
    BY <1>1, <1>2, <1>3

LEMMA AccuracyInductive ==
    AccuracyInv /\ CompletenessInv' /\ [Next]_vars => AccuracyInv'
<1> SUFFICES ASSUME AccuracyInv, CompletenessInv', [Next]_vars
             PROVE  AccuracyInv'
    OBVIOUS
<1> USE DEF beatVars, NoFile
<1>t. TypeOK /\ TypeOK' /\ beatAt <= now
    BY DEF AccuracyInv, CompletenessInv
<1>d. (dog = "asleep" => now <= wake /\ wake <= now + Poll)
      /\ (sketch = "new" => dog = "none" /\ ~written)
    BY DEF AccuracyInv, CompletenessInv, DogWakes
<1>f. (written /\ reboot = "none") => mtime # NoFile
    BY DEF AccuracyInv, CompletenessInv, FileStays
<1> USE DEF BeatMatchesFile, AgeBelowWrap, BeatsKeepYoung, Accuracy
<1>1. CASE LaunchUnderInit
    BY <1>1, <1>t, <1>d DEF LaunchUnderInit, TypeOK, AccuracyInv
<1>2. CASE LaunchForkFails
    BY <1>2, <1>t, <1>d DEF LaunchForkFails, TypeOK, AccuracyInv
<1>3. CASE LaunchForks
    <2>1. CASE ~BeatDue /\ UNCHANGED <<lastBeat, mtime, written, stepped, reboot>>
        BY <1>3, <2>1, <1>t, <1>d DEF LaunchForks, Beat, TypeOK, AccuracyInv
    <2>2. CASE BeatDue /\ TouchFile /\ UNCHANGED reboot
        <3>1. BeatMatchesFile'
            BY <2>2 DEF TouchFile
        <3>2. reboot' # "dog" /\ wall' - mtime' = 0 /\ now' - beatAt' = 0
            BY <1>3, <2>2, <1>t DEF LaunchForks, Beat, TouchFile, TypeOK
        <3>3. dog' = "asleep" => wake' - now' <= Poll
            BY <1>3, <1>t, <1>d DEF LaunchForks, TypeOK
        <3>t. /\ wall' - mtime' \in Int /\ wake' - now' \in Int
              /\ now' - beatAt' \in Int
            BY <1>t DEF TypeOK
        <3>4. AgeBelowWrap' /\ BeatsKeepYoung'
            BY <3>2, <3>3, <3>t
        <3> QED
            BY <3>1, <3>2, <3>4 DEF AccuracyInv
    <2>3. CASE mtime' = NoFile /\ reboot' = "sketch"
        BY <1>3, <2>3, <1>t, <1>d DEF LaunchForks, Beat, TypeOK, AccuracyInv
    <2> QED
        BY <1>3, <2>1, <2>2, <2>3 DEF LaunchForks, Beat
<1>4. CASE HeartBeat
    <2>1. CASE ~BeatDue /\ UNCHANGED <<lastBeat, mtime, written, stepped, reboot>>
        <3>1. (dog = "asleep" /\ written /\ "forward" \notin stepped)
                  => wall - mtime <= BeatGap
            BY <1>4, <2>1, BeatKeepsYoung DEF HeartBeat
        <3> QED
            BY <1>4, <2>1, <3>1, <1>t, <1>d
            DEF HeartBeat, Beat, TypeOK, AccuracyInv
    <2>2. CASE BeatDue /\ TouchFile /\ UNCHANGED reboot
        BY <1>4, <2>2, <1>t, <1>d
        DEF HeartBeat, Beat, TouchFile, TypeOK, AccuracyInv
    <2>3. CASE mtime' = NoFile /\ reboot' = "sketch"
        BY <1>4, <2>3, <1>t, <1>d DEF HeartBeat, Beat, TypeOK, AccuracyInv
    <2> QED
        BY <1>4, <2>1, <2>2, <2>3 DEF HeartBeat, Beat
<1>5. CASE SketchExits
    BY <1>5, <1>t, <1>d DEF SketchExits, TypeOK, AccuracyInv
<1>6. CASE PollFindsLife
    BY <1>6, <1>t, <1>d, <1>f
    DEF PollFindsLife, FileIsFresh, TypeOK, AccuracyInv
<1>7. CASE PollFindsDeath
    BY <1>7, <1>t, <1>d, <1>f
    DEF PollFindsDeath, PidExists, FileIsFresh, TypeOK, AccuracyInv
<1>11. CASE PollCrashes
    BY <1>11, <1>t, <1>d DEF PollCrashes, TypeOK, AccuracyInv
<1>8. CASE Tick
    BY <1>8, <1>t, <1>d DEF Tick, TypeOK, AccuracyInv
<1>9. CASE ClockStep
    <2>1. PICK s \in Steps :
              /\ wall' = wall + s
              /\ stepped' = stepped \cup {IF s > 0 THEN "forward" ELSE "back"}
        BY <1>9 DEF ClockStep
    <2>2. "forward" \notin stepped' => wall' <= wall /\ "forward" \notin stepped
        BY <2>1, <1>t DEF TypeOK
    <2> QED
        BY <1>9, <2>1, <2>2, <1>t, <1>d DEF ClockStep, TypeOK, AccuracyInv
<1>10. CASE UNCHANGED vars
    BY <1>10 DEF vars, AccuracyInv
<1> QED
    BY <1>1, <1>2, <1>3, <1>4, <1>5, <1>6, <1>7, <1>8, <1>9, <1>10, <1>11 DEF Next

\* The dog never reboots the board while heartBeat() is called at least every
\* Timer - BeatGap, unless the process is gone, the clock jumped forward or no
\* file of this sketch is there yet.
THEOREM AccuracyHolds == Spec => []Accuracy
<1>1. Init => CompletenessInv
    BY InitTypes DEF Init, CompletenessInv, DogWakes, FileAges, FileStays,
                     NextPollInTime
<1>2. Init => AccuracyInv
    BY <1>1 DEF Init, AccuracyInv, BeatMatchesFile, AgeBelowWrap, BeatsKeepYoung,
                Accuracy
<1>3. AccuracyInv => Accuracy
    BY DEF AccuracyInv
<1> QED
    BY <1>1, <1>2, <1>3, CompletenessInductive, AccuracyInductive, TypeCorrect,
       PTL DEF Spec

-----------------------------------------------------------------------------
(***************************************************************************)
(* The refinement.  A poll that reboots is a Bark because Accuracy holds     *)
(* after it; a Tick is a Wait because Completeness holds after it.          *)
(***************************************************************************)

\* The silence, as Dog counts it.
Silence == IF now - beatAt > Timer + Poll THEN Timer + Poll + 1 ELSE now - beatAt
Hasty == sketch = "gone" \/ "forward" \in stepped \/ ~written
Blind == dog = "none" \/ "back" \in stepped \/ ~written

\* A call of heartBeat() by a living sketch is a Beat of the dog.
LEMMA BeatIsBeat ==
    ASSUME TypeOK, reboot = "none", Beat, now' = now,
           sketch # "gone", sketch' # "gone",
           dog' = "none" => dog = "none" \/ ~written
    PROVE  Guard!Beat
<1>1. Silence' = 0
    BY DEF Beat, Silence, TypeOK
<1>2. CASE ~BeatDue /\ UNCHANGED <<lastBeat, mtime, written, stepped, reboot>>
    <2>1. Hasty' = Hasty
        BY <1>2 DEF Hasty
    <2>2. Blind' \in {FALSE, Blind}
        BY <1>2 DEF Blind
    <2> QED
        BY <1>1, <1>2, <2>1, <2>2 DEF Guard!Beat, Silence, Hasty, Blind
<1>3. CASE TouchFile /\ UNCHANGED reboot
    <2>1. Hasty' = FALSE
        BY <1>3 DEF Hasty, TouchFile
    <2>2. Blind' \in {FALSE, Blind}
        BY <1>3 DEF Blind, TouchFile
    <2> QED
        BY <1>1, <1>3, <2>1, <2>2 DEF Guard!Beat, Silence, Hasty, Blind
<1>4. CASE reboot' = "sketch" /\ UNCHANGED <<lastBeat, written, stepped>>
    <2>1. Hasty' = Hasty
        BY <1>4 DEF Hasty
    <2>2. Blind' \in {FALSE, Blind}
        BY <1>4 DEF Blind
    <2> QED
        BY <1>1, <1>4, <2>1, <2>2 DEF Guard!Beat, Silence, Hasty, Blind
<1> QED
    BY <1>2, <1>3, <1>4 DEF Beat

LEMMA StepRefines ==
    AccuracyInv /\ AccuracyInv' /\ Completeness' /\ [Next]_vars => [Guard!Next]_(Guard!vars)
<1> SUFFICES ASSUME AccuracyInv, AccuracyInv', Completeness', [Next]_vars
             PROVE  Guard!Next \/ UNCHANGED Guard!vars
    OBVIOUS
<1>t. /\ TypeOK /\ TypeOK' /\ beatAt <= now /\ DogWakes /\ Accuracy'
      /\ sketch = "new" => dog = "none" /\ ~written
    BY DEF AccuracyInv, CompletenessInv
<1> USE DEF beatVars, Guard!Next, Guard!vars
<1>1. CASE LaunchUnderInit
    <2>1. Hasty' = Hasty /\ Blind' = Blind /\ Silence' = Silence /\ reboot' = reboot
        BY <1>1, <1>t DEF LaunchUnderInit, Hasty, Blind, Silence
    <2> QED
        BY <2>1 DEF Hasty, Blind, Silence
<1>2. CASE LaunchForkFails
    <2>1. Hasty' = Hasty /\ Blind' = Blind /\ Silence' = Silence
          /\ reboot = "none" /\ reboot' = "sketch"
        BY <1>2 DEF LaunchForkFails, Hasty, Blind, Silence
    <2> QED
        BY <2>1 DEF Hasty, Blind, Silence
<1>3. CASE LaunchForks
    BY <1>3, <1>t, BeatIsBeat DEF LaunchForks
<1>4. CASE HeartBeat
    BY <1>4, <1>t, BeatIsBeat DEF HeartBeat
<1>5. CASE SketchExits
    <2>1. Hasty' \in {Hasty, TRUE} /\ Blind' = Blind /\ Silence' = Silence
          /\ reboot' = reboot
        BY <1>5 DEF SketchExits, Hasty, Blind, Silence
    <2> QED
        BY <2>1 DEF Guard!Excuse, Hasty, Blind, Silence
<1>6. CASE PollFindsLife
    <2>1. Hasty' = Hasty /\ Blind' = Blind /\ Silence' = Silence /\ reboot' = reboot
        BY <1>6 DEF PollFindsLife, Hasty, Blind, Silence
    <2> QED
        BY <2>1 DEF Hasty, Blind, Silence
<1>7. CASE PollFindsDeath
    <2>1. Hasty' = Hasty /\ Blind' = Blind /\ Silence' = Silence
          /\ reboot = "none" /\ reboot' = "dog"
        BY <1>7 DEF PollFindsDeath, Hasty, Blind, Silence
    <2>2. Hasty \/ now - beatAt > Timer - BeatGap
        BY <1>7, <2>1, <1>t DEF Accuracy, Hasty, PollFindsDeath
    <2>3. now - beatAt > Timer - BeatGap => Silence > Timer - BeatGap
        BY <1>t DEF TypeOK, Silence
    <2> QED
        BY <2>1, <2>2, <2>3 DEF Guard!Bark, Hasty, Blind, Silence
<1>8. CASE Tick
    <2>1. Hasty' = Hasty /\ Blind' = Blind /\ reboot = "none" /\ reboot' = "none"
        BY <1>8 DEF Tick, Hasty, Blind
    <2>2. Silence' = IF Silence > Timer + Poll THEN Silence ELSE Silence + 1
        BY <1>8, <1>t DEF Tick, Silence, TypeOK
    <2>3. dog = "asleep" \/ dog = "none"
        BY <1>t DEF TypeOK
    <2>4. ~Blind => now' <= beatAt' + Timer + Poll
        BY <1>8, <2>3 DEF Tick, Blind, Completeness
    <2>5. ~Blind => Silence < Timer + Poll
        BY <1>8, <2>4, <1>t DEF Tick, Silence, TypeOK
    <2> QED
        BY <2>1, <2>2, <2>5 DEF Guard!Wait, Hasty, Blind, Silence
<1>9. CASE ClockStep
    <2>1. /\ Hasty' \in {Hasty, TRUE} /\ Blind' \in {Blind, TRUE}
          /\ Silence' = Silence /\ reboot' = reboot
        BY <1>9 DEF ClockStep, Hasty, Blind, Silence
    <2> QED
        BY <2>1 DEF Guard!Excuse, Hasty, Blind, Silence
<1>10. CASE UNCHANGED vars
    BY <1>10 DEF vars
<1>11. CASE PollCrashes
    <2>1. Hasty' = Hasty /\ Blind' = TRUE /\ Silence' = Silence /\ reboot' = reboot
        BY <1>11 DEF PollCrashes, Hasty, Blind, Silence
    <2> QED
        BY <2>1 DEF Guard!Excuse, Hasty, Blind, Silence
<1> QED
    BY <1>1, <1>2, <1>3, <1>4, <1>5, <1>6, <1>7, <1>8, <1>9, <1>10, <1>11 DEF Next

\* launch(), heartBeat() and the daemon implement the watchdog that the rest of
\* the program is modelled with.
THEOREM RefinesDogHolds == Spec => RefinesDog
<1>1. Init => CompletenessInv
    BY InitTypes DEF Init, CompletenessInv, DogWakes, FileAges, FileStays,
                     NextPollInTime
<1>2. Init => AccuracyInv
    BY <1>1 DEF Init, AccuracyInv, BeatMatchesFile, AgeBelowWrap, BeatsKeepYoung,
                Accuracy
<1>3. Init => Guard!Init
    <2> SUFFICES ASSUME Init PROVE Guard!Init
        OBVIOUS
    <2>1. Silence = 0 /\ Hasty = TRUE /\ Blind = TRUE /\ reboot = "none"
        BY DEF Init, Silence, Hasty, Blind
    <2> QED
        BY <2>1 DEF Guard!Init, Silence, Hasty, Blind
<1>4. CompletenessInv => Completeness
    BY DEF CompletenessInv, Completeness, DogWakes, NextPollInTime, TypeOK
<1> QED
    BY <1>1, <1>2, <1>3, <1>4, CompletenessInductive, AccuracyInductive, StepRefines,
       TypeCorrect, PTL DEF Spec, RefinesDog, Guard!Spec
=============================================================================
