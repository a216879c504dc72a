----------------------------- MODULE CoreProofs -----------------------------
(***************************************************************************)
(* Theorems of Core.  The second one is about the order of the tasks in the  *)
(* code and about calls short enough for those between two beats.            *)
(***************************************************************************)
EXTENDS Core, TLAPS

USE CoreAssumption, MillisAssumption

LEMMA TurnsAreTasks == Order[1] \in Turns /\ Turns \subseteq Tasks
<1>1. Len(Order) \in Nat /\ Len(Order) >= 1
    BY DEF CoreAssumption
<1>2. \A i \in 1 .. Len(Order) : Order[i] \in Tasks
    BY DEF CoreAssumption
<1> QED
    BY <1>1, <1>2 DEF Turns

\* The thread leaves a task for another one, or for the top of loop().
LEMMA AfterIsPlace == ASSUME NEW t \in Turns
                      PROVE  After(t) \in Turns \cup {"top"}
<1>1. Len(Order) \in Nat /\ Len(Order) >= 1
    BY DEF CoreAssumption
<1>2. PICK i \in 1 .. Len(Order) : Order[i] = t
    BY DEF Turns
<1>3. CASE t = Order[Len(Order)]
    BY <1>3 DEF After
<1>4. CASE t # Order[Len(Order)]
    <2>1. i \in 1 .. Len(Order) - 1
        BY <1>1, <1>2, <1>4
    <2>2. ASSUME NEW k \in 1 .. Len(Order) - 1
          PROVE  Order[1 + k] \in Turns
        <3>1. 1 + k \in 1 .. Len(Order)
            BY <1>1
        <3> QED
            BY <3>1 DEF Turns
    <2>3. (CHOOSE k \in 1 .. Len(Order) - 1 : Order[k] = t) \in 1 .. Len(Order) - 1
        BY <1>2, <2>1
    <2> QED
        BY <1>4, <2>2, <2>3 DEF After
<1> QED
    BY <1>3, <1>4

-----------------------------------------------------------------------------
(***************************************************************************)
(* Types, in three parts: the provers do not mix places, flags and numbers.  *)
(***************************************************************************)

ThreadOK ==
    /\ at \in {"down", "top", "command"} \cup Setup \cup Turns
    /\ called \in BOOLEAN /\ (called => at \in Turns)
    /\ second \in BOOLEAN /\ (second => called /\ at = "seismo")
    /\ spent \in 0 .. Answer

FlagsOK ==
    /\ healthy \in BOOLEAN
    /\ hasty \in BOOLEAN /\ blind \in BOOLEAN /\ barked \in BOOLEAN
    /\ trouble \in BOOLEAN
    /\ moved \in BOOLEAN

TimeOK ==
    /\ clock \in Instant
    /\ clockSteps \in Nat
    /\ tries \in 0 .. MaxTries
    /\ last \in [Tasks -> Instant]
    /\ quiet \in 0 .. Late + 1
    /\ age \in (0 .. Wrap) \cup {Never}

LEMMA TypeParts == TypeOK <=> ThreadOK /\ FlagsOK /\ TimeOK
    BY DEF TypeOK, ThreadOK, FlagsOK, TimeOK

LEMMA GotoTypes ==
    ASSUME NEW place \in {"down", "top", "command"} \cup Setup \cup Turns, Goto(place)
    PROVE  ThreadOK'
<1>1. called' = FALSE /\ second' = FALSE /\ at' = place /\ spent' = 0
    BY DEF Goto
<1>2. spent' \in 0 .. Answer
    BY <1>1
<1> QED
    BY ONLY <1>1, <1>2, Zenon DEF ThreadOK

LEMMA AtTurn == ASSUME TypeOK, NEW t \in Tasks, at = t PROVE t \in Turns
    BY DEF TypeOK, Setup, Tasks

LEMMA ClockTyped ==
    TypeOK => (Tick \/ ClockStep => clock' \in Instant)
<1> SUFFICES ASSUME TypeOK PROVE Tick \/ ClockStep => clock' \in Instant
    OBVIOUS
<1>1. clock \in Nat /\ Instant \subseteq Nat
    BY DEF TypeOK, Instant
<1>2. ASSUME NEW n \in Nat PROVE Millis(n) \in Instant
    BY MillisDivision DEF Instant, Millis
<1>3. CASE Tick
    <2>1. clock + 1 \in Nat
        BY <1>1
    <2> QED
        BY <1>2, <1>3, <2>1 DEF Tick
<1>4. CASE ClockStep
    <2>1. PICK s \in Steps : clock' = Millis(clock + s)
        BY <1>4 DEF ClockStep
    <2>2. clock + s \in Nat
        BY <1>1 DEF CoreAssumption
    <2> QED
        BY <1>2, <2>1, <2>2
<1> QED
    BY <1>3, <1>4

\* The thread is at one of its places, in a call only at a task.
LEMMA ThreadTyped == TypeOK /\ [Next]_vars => ThreadOK'
<1> SUFFICES ASSUME TypeOK, [Next]_vars PROVE ThreadOK'
    OBVIOUS
<1>1. CASE Boot
    BY <1>1, GotoTypes DEF Boot, Setup, ThreadOK
<1>2. CASE FindMAC
    BY <1>2, GotoTypes DEF FindMAC, Setup, ThreadOK
<1>3. CASE GiveUpMAC
    BY <1>3, GotoTypes DEF GiveUpMAC, GoDown, ThreadOK
<1>4. CASE SetupConfig
    BY <1>4, GotoTypes DEF SetupConfig, Setup, ThreadOK
<1>5. CASE SetupSync
    BY <1>5, GotoTypes DEF SetupSync, Setup, ThreadOK
<1>6. CASE AwaitPosition
    BY <1>6, GotoTypes DEF AwaitPosition, Setup, ThreadOK
<1>7. CASE Top
    BY <1>7, GotoTypes DEF Top, ThreadOK
<1>8. CASE Ordered
    BY <1>8, GotoTypes DEF Ordered, GoDown, ThreadOK
<1>9. CASE Rotate
    BY <1>9, GotoTypes, AfterIsPlace, AtTurn DEF Rotate, Ran, TypeOK
<1>10. CASE SyncAgain
    BY <1>10 DEF SyncAgain, TypeOK, ThreadOK
<1>11. CASE InterfaceLost
    BY <1>11, GotoTypes DEF InterfaceLost, GoDown, ThreadOK
<1>12. CASE Tick
    BY <1>12 DEF Tick, TypeOK, ThreadOK
<1>13. CASE ClockStep
    BY <1>13 DEF ClockStep, TypeOK, ThreadOK
<1>14. CASE NetworkChanges
    BY <1>14 DEF NetworkChanges, TypeOK, ThreadOK
<1>15. CASE Bark
    BY <1>15, GotoTypes DEF Bark, GoDown, ThreadOK
<1>16. ASSUME NEW t \in Tasks, NotDue(t) PROVE ThreadOK'
    BY <1>16, GotoTypes, AfterIsPlace, AtTurn DEF NotDue, TypeOK
<1>17. ASSUME NEW t \in Tasks, Enter(t) PROVE ThreadOK'
    <2>1. t \in Turns /\ at' = t /\ spent' = spent /\ called' = TRUE /\ second' = second
        BY <1>17, AtTurn, Zenon DEF Enter
    <2>2. spent \in 0 .. Answer /\ second = FALSE
        BY <1>17 DEF TypeOK, Enter
    <2> QED
        BY <2>1, <2>2, Zenon DEF ThreadOK
<1>18. ASSUME NEW t \in Tasks, Return(t) PROVE ThreadOK'
    BY <1>18, GotoTypes, AfterIsPlace, AtTurn DEF Return, Ran, TypeOK
<1>19. CASE UNCHANGED vars
    BY <1>19 DEF vars, TypeOK, ThreadOK
<1>20. CASE DogDies
    BY <1>20 DEF DogDies, TypeOK, ThreadOK
<1>21. CASE Delay
    BY <1>21, GotoTypes DEF Delay, Setup, ThreadOK
<1>22. CASE Obey
    BY <1>22, GotoTypes, TurnsAreTasks DEF Obey, Setup, ThreadOK
<1>23. CASE TraceSent
    <2>1. at' = at /\ called' = TRUE /\ second' = TRUE /\ spent' = 0 /\ at = "seismo"
          /\ at \in Turns
        BY <1>23 DEF TraceSent, TypeOK
    <2> QED
        BY <2>1 DEF ThreadOK, CoreAssumption
<1> QED
    BY <1>1, <1>2, <1>3, <1>4, <1>5, <1>6, <1>7, <1>8, <1>9, <1>10, <1>11, 
       <1>12, <1>13, <1>14, <1>15, <1>16, <1>17, <1>18, <1>19, <1>20, <1>21, <1>22, <1>23 DEF Next

\* The two-valued variables.
LEMMA FlagsTyped == TypeOK /\ [Next]_vars => FlagsOK'
<1> SUFFICES ASSUME TypeOK, [Next]_vars PROVE FlagsOK'
    OBVIOUS
<1>1. CASE Boot
    BY <1>1 DEF Boot, TypeOK, FlagsOK, dogVars, taskVars
<1>2. CASE FindMAC
    BY <1>2 DEF FindMAC, TypeOK, FlagsOK, dogVars, taskVars
<1>3. CASE GiveUpMAC
    BY <1>3 DEF GiveUpMAC, TypeOK, FlagsOK, dogVars, taskVars, GoDown
<1>4. CASE SetupConfig
    BY <1>4 DEF SetupConfig, TypeOK, FlagsOK, dogVars, taskVars
<1>5. CASE SetupSync
    BY <1>5 DEF SetupSync, TypeOK, FlagsOK, dogVars, taskVars
<1>6. CASE AwaitPosition
    BY <1>6 DEF AwaitPosition, TypeOK, FlagsOK, dogVars, taskVars, Guard!Beat
<1>7. CASE Top
    BY <1>7 DEF Top, TypeOK, FlagsOK, dogVars, taskVars, Guard!Beat
<1>8. CASE Ordered
    BY <1>8 DEF Ordered, TypeOK, FlagsOK, dogVars, taskVars, GoDown
<1>9. CASE Rotate
    BY <1>9 DEF Rotate, TypeOK, FlagsOK, dogVars, taskVars, Ran
<1>10. CASE SyncAgain
    BY <1>10 DEF SyncAgain, TypeOK, FlagsOK, dogVars, taskVars
<1>11. CASE InterfaceLost
    BY <1>11 DEF InterfaceLost, TypeOK, FlagsOK, dogVars, taskVars, GoDown
<1>12. CASE Tick
    BY <1>12 DEF Tick, TypeOK, FlagsOK, dogVars, taskVars, Guard!Wait
<1>13. CASE ClockStep
    BY <1>13 DEF ClockStep, TypeOK, FlagsOK, dogVars, taskVars, Guard!Excuse
<1>14. CASE NetworkChanges
    BY <1>14 DEF NetworkChanges, TypeOK, FlagsOK, dogVars, taskVars
<1>15. CASE Bark
    BY <1>15 DEF Bark, TypeOK, FlagsOK, dogVars, taskVars, GoDown, Guard!Bark
<1>16. ASSUME NEW t \in Tasks, NotDue(t) PROVE FlagsOK'
    BY <1>16 DEF NotDue, TypeOK, FlagsOK, dogVars, taskVars
<1>17. ASSUME NEW t \in Tasks, Enter(t) PROVE FlagsOK'
    BY <1>17 DEF Enter, TypeOK, FlagsOK, dogVars, taskVars
<1>18. ASSUME NEW t \in Tasks, Return(t) PROVE FlagsOK'
    BY <1>18 DEF Return, TypeOK, FlagsOK, dogVars, taskVars, Ran
<1>19. CASE UNCHANGED vars
    BY <1>19 DEF vars, TypeOK, FlagsOK, dogVars, taskVars
<1>20. CASE DogDies
    BY <1>20 DEF DogDies, TypeOK, FlagsOK, taskVars
<1>21. CASE Delay \/ Obey \/ TraceSent
    BY <1>21 DEF Delay, Obey, TraceSent, TypeOK, FlagsOK, dogVars, taskVars
<1> QED
    BY <1>1, <1>2, <1>3, <1>4, <1>5, <1>6, <1>7, <1>8, <1>9, <1>10, <1>11, 
       <1>12, <1>13, <1>14, <1>15, <1>16, <1>17, <1>18, <1>19, <1>20, <1>21 DEF Next

\* The clock, the timers and what counts time or attempts.
LEMMA TimeTyped == TypeOK /\ [Next]_vars => TimeOK'
<1> SUFFICES ASSUME TypeOK, [Next]_vars PROVE TimeOK'
    OBVIOUS
<1>1. CASE Boot
    BY <1>1 DEF Boot, TypeOK, TimeOK, dogVars, clockVars, taskVars, Instant, Never, FirstRuns, Unseen
<1>2. CASE FindMAC
    BY <1>2 DEF FindMAC, TypeOK, TimeOK, dogVars, clockVars, taskVars, Instant, Never
<1>3. CASE GiveUpMAC
    BY <1>3 DEF GiveUpMAC, TypeOK, TimeOK, dogVars, clockVars, taskVars, Instant, Never, GoDown
<1>4. CASE SetupConfig
    BY <1>4 DEF SetupConfig, TypeOK, TimeOK, dogVars, clockVars, taskVars, Instant, Never
<1>5. CASE SetupSync
    BY <1>5 DEF SetupSync, TypeOK, TimeOK, dogVars, clockVars, taskVars, Instant, Never
<1>6. CASE AwaitPosition
    BY <1>6 DEF AwaitPosition, TypeOK, TimeOK, dogVars, clockVars, taskVars, Instant, Never, Guard!Beat
<1>7. CASE Top
    BY <1>7 DEF Top, TypeOK, TimeOK, dogVars, clockVars, taskVars, Instant, Never, Guard!Beat
<1>8. CASE Ordered
    BY <1>8 DEF Ordered, TypeOK, TimeOK, dogVars, clockVars, taskVars, Instant, Never, GoDown
<1>9. CASE Rotate
    BY <1>9 DEF Rotate, TypeOK, TimeOK, dogVars, clockVars, taskVars, Instant, Never, Ran
<1>10. CASE SyncAgain
    BY <1>10 DEF SyncAgain, TypeOK, TimeOK, dogVars, clockVars, taskVars, Instant, Never
<1>11. CASE InterfaceLost
    BY <1>11 DEF InterfaceLost, TypeOK, TimeOK, dogVars, clockVars, taskVars, Instant, Never, GoDown
<1>12. CASE Tick
    BY <1>12, ClockTyped DEF Tick, TypeOK, TimeOK, dogVars, clockVars, taskVars, Instant, Never, Guard!Wait
<1>13. CASE ClockStep
    <2>1. clock' \in Instant
        BY <1>13, ClockTyped
    <2>2. clockSteps' = clockSteps + 1 /\ quiet' = quiet
        BY <1>13 DEF ClockStep, Guard!Excuse
    <2>3. UNCHANGED <<tries, last, age>>
        BY <1>13 DEF ClockStep
    <2> QED
        BY <2>1, <2>2, <2>3 DEF TypeOK, TimeOK
<1>14. CASE NetworkChanges
    BY <1>14 DEF NetworkChanges, TypeOK, TimeOK, dogVars, clockVars, taskVars, Instant, Never
<1>15. CASE Bark
    BY <1>15 DEF Bark, TypeOK, TimeOK, dogVars, clockVars, taskVars, Instant, Never, GoDown, Guard!Bark
<1>16. ASSUME NEW t \in Tasks, NotDue(t) PROVE TimeOK'
    BY <1>16 DEF NotDue, TypeOK, TimeOK, dogVars, clockVars, taskVars, Instant, Never
<1>17. ASSUME NEW t \in Tasks, Enter(t) PROVE TimeOK'
    BY <1>17 DEF Enter, TypeOK, TimeOK, dogVars, clockVars, taskVars, Instant, Never
<1>18. ASSUME NEW t \in Tasks, Return(t) PROVE TimeOK'
    BY <1>18 DEF Return, TypeOK, TimeOK, dogVars, clockVars, taskVars, Instant, Never, Ran
<1>19. CASE UNCHANGED vars
    BY <1>19 DEF vars, TypeOK, TimeOK, dogVars, clockVars, taskVars, Instant, Never
<1>20. CASE DogDies
    BY <1>20 DEF DogDies, TypeOK, TimeOK, clockVars, taskVars, Instant, Never
<1>21. CASE Delay \/ Obey \/ TraceSent
    BY <1>21 DEF Delay, Obey, TraceSent, TypeOK, TimeOK, dogVars, clockVars, taskVars, Instant, Never
<1> QED
    BY <1>1, <1>2, <1>3, <1>4, <1>5, <1>6, <1>7, <1>8, <1>9, <1>10, <1>11, 
       <1>12, <1>13, <1>14, <1>15, <1>16, <1>17, <1>18, <1>19, <1>20, <1>21 DEF Next

LEMMA InitTypes == Init => TypeOK
<1> SUFFICES ASSUME Init PROVE TypeOK
    OBVIOUS
<1>1. ThreadOK
    <2>1. at \in Setup /\ called = FALSE /\ second = FALSE /\ spent = 0
        BY DEF Init, Setup
    <2>2. 0 \in 0 .. Answer
        BY DEF CoreAssumption
    <2> QED
        BY ONLY <2>1, <2>2, Zenon DEF ThreadOK
<1>2. FlagsOK
    BY DEF Init, FlagsOK, Guard!Init
<1>3. TimeOK
    BY DEF Init, TimeOK, Guard!Init, FirstRuns, Unseen, Instant, Never
<1> QED
    BY <1>1, <1>2, <1>3, TypeParts

\* Every reachable state has the declared types: no timer leaves the 32 bits of
\* millis(), no place of the thread is outside setup() and the tasks of loop().
THEOREM TypeCorrect == Spec => []TypeOK
<1>1. TypeOK /\ [Next]_vars => TypeOK'
    <2>1. ThreadOK' /\ FlagsOK' /\ TimeOK' => TypeOK'
        BY DEF TypeOK, ThreadOK, FlagsOK, TimeOK
    <2> QED
        BY <2>1, ThreadTyped, FlagsTyped, TimeTyped
<1> QED
    BY <1>1, InitTypes, PTL DEF Spec

-----------------------------------------------------------------------------
(***************************************************************************)
(* The watchdog's patience covers a pass of loop(), and setup().             *)
(***************************************************************************)

\* The order of loop(), and calls that are short enough.
PassFits ==
    /\ Order = <<"net", "cfg", "ntp", "seismo", "log">>
    /\ Early >= Command + Answer + Answer + Answer + Answer + Answer + Pause

Places == {"top", "command"} \cup Setup \cup Tasks

\* How long the silence may have been when the thread came to a place.
Base ==
    [place \in Places |->
        CASE place \in {"mac", "listen", "command"} -> 0
          [] place = "config" -> Pause
          [] place = "sync" -> Pause + Answer
          [] place = "position" -> Pause + Answer + Answer
          [] place \in {"delay", "net"} -> Command
          [] place = "cfg" -> Command + Answer
          [] place = "ntp" -> Command + Answer + Answer
          [] place = "seismo" -> Command + Answer + Answer + Answer
          [] place \in {"log", "top"} -> Command + Answer + Answer + Answer + Answer + Answer]

\* The strengthening: without trouble the silence is what the calls since the
\* beat are allowed, and what the present one has taken.
SilenceCovered ==
    ~trouble /\ at # "down" =>
        /\ spent <= Limit
        /\ quiet <= Base[at] + (IF second THEN Answer ELSE 0) + spent
        /\ at = "log" => spent = 0

LEMMA BaseOf ==
    /\ Base["mac"] = 0 /\ Base["listen"] = 0 /\ Base["command"] = 0
    /\ Base["config"] = Pause
    /\ Base["sync"] = Pause + Answer
    /\ Base["position"] = Pause + Answer + Answer
    /\ Base["delay"] = Command /\ Base["net"] = Command
    /\ Base["cfg"] = Command + Answer
    /\ Base["ntp"] = Command + Answer + Answer
    /\ Base["seismo"] = Command + Answer + Answer + Answer
    /\ Base["log"] = Command + Answer + Answer + Answer + Answer + Answer
    /\ Base["top"] = Command + Answer + Answer + Answer + Answer + Answer
    BY DEF Base, Places, Setup, Tasks

LEMMA AfterOf ==
    ASSUME PassFits
    PROVE  /\ After("net") = "cfg" /\ After("cfg") = "ntp" /\ After("ntp") = "seismo"
           /\ After("seismo") = "log" /\ After("log") = "top"
           /\ Order[1] = "net"
<1>1. Len(Order) = 5 /\ Order[5] = "log" /\ Order[1] = "net" /\ Order[2] = "cfg"
      /\ Order[3] = "ntp" /\ Order[4] = "seismo"
    BY DEF PassFits
<1>2. ASSUME NEW i \in 1 .. 4 PROVE After(Order[i]) = Order[1 + i]
    <2>1. Order[i] # Order[5]
        BY <1>1
    <2>2. \A k \in 1 .. Len(Order) - 1 : Order[k] = Order[i] => k = i
        BY <1>1
    <2>3. (CHOOSE k \in 1 .. Len(Order) - 1 : Order[k] = Order[i]) = i
        BY <1>1, <2>2
    <2> QED
        BY <1>1, <2>1, <2>3 DEF After
<1>3. After("log") = "top"
    BY <1>1 DEF After
<1> QED
    BY <1>1, <1>2, <1>3

LEMMA Numbers == TypeOK => /\ quiet \in Nat /\ spent \in Nat /\ spent <= Answer
                          /\ Pause \in Nat /\ Answer \in Nat /\ Pause <= Answer
                          /\ Command \in Nat /\ Command <= Answer
    BY DEF TypeOK, CoreAssumption

LEMMA BaseIsNat == ASSUME NEW place \in Places
                   PROVE  Base[place] \in Nat
<1>1. Pause \in Nat /\ Answer \in Nat /\ Command \in Nat
    BY DEF CoreAssumption
<1>2. CASE place \in {"mac", "listen", "command", "config", "sync", "position", "delay"}
    BY <1>1, <1>2, BaseOf
<1>3. CASE place \in {"net", "cfg", "ntp"}
    BY <1>1, <1>3, BaseOf
<1>4. CASE place \in {"seismo", "log", "top"}
    BY <1>1, <1>4, BaseOf
<1>5. place \in {"mac", "listen", "command", "config", "sync", "position", "delay"}
                 \cup {"net", "cfg", "ntp"} \cup {"seismo", "log", "top"}
    BY DEF Places, Setup, Tasks
<1> QED
    BY <1>2, <1>3, <1>4, <1>5

\* Until the log may be rotated a command and three answers have passed at most.
LEMMA EarlyBase ==
    ASSUME NEW place \in Places \ {"log", "top"}
    PROVE  Base[place] <= Command + Answer + Answer + Answer
<1>1. Pause \in Nat /\ Answer \in Nat /\ Pause <= Answer /\ Command \in Nat
    BY DEF CoreAssumption
<1>2. CASE place \in {"mac", "listen", "command", "config", "sync", "position", "delay"}
    BY <1>1, <1>2, BaseOf
<1>3. CASE place \in {"net", "cfg", "ntp", "seismo"}
    BY <1>1, <1>3, BaseOf
<1>4. place \in {"mac", "listen", "command", "config", "sync", "position", "delay"}
                 \cup {"net", "cfg", "ntp", "seismo"}
    BY DEF Places, Setup, Tasks
<1> QED
    BY <1>2, <1>3, <1>4

LEMMA LimitIsNat == Limit \in Nat /\ Limit <= Answer
    BY DEF Limit, CoreAssumption

\* The thread comes to a place, no later than Base allows.
LEMMA Arrive ==
    ASSUME NEW place \in Places, Goto(place), TypeOK',
           ~trouble' => quiet' <= Base[place]
    PROVE  SilenceCovered'
<1>1. at' = place /\ spent' = 0 /\ second' = FALSE
    BY DEF Goto
<1>2. Limit' \in {Pause, Answer, Command} /\ Pause \in Nat /\ Answer \in Nat /\ Command \in Nat
    BY DEF Limit, CoreAssumption
<1>3. quiet' \in Nat
    BY DEF TypeOK, CoreAssumption
<1>4. Base[place] \in Nat
    BY BaseIsNat
<1>5. /\ ~trouble' => spent' <= Limit' /\ quiet' <= Base[at'] + 0 + spent'
      /\ spent' = 0 /\ second' = FALSE
      => SilenceCovered'
    BY DEF SilenceCovered, Base
<1>6. 0 <= Limit'
    BY <1>2
<1>7. ~trouble' => quiet' <= Base[place] + 0 + 0
    BY <1>3, <1>4
<1> QED
    BY <1>1, <1>5, <1>6, <1>7

\* Where no second request of a tick() is under way the silence is what was spent before the
\* place, and there.
LEMMA CoverAt ==
    ASSUME TypeOK, SilenceCovered, ~trouble, at \in Places \ {"seismo"}
    PROVE  spent <= Limit /\ quiet <= Base[at] + spent
<1>1. second = FALSE /\ at # "down"
    BY DEF TypeOK, Places, Setup, Tasks
<1>2. spent <= Limit /\ quiet <= Base[at] + 0 + spent
    BY <1>1 DEF SilenceCovered
<1>3. Base[at] \in Nat /\ spent \in Nat
    BY BaseIsNat, Numbers
<1> QED
    BY <1>2, <1>3

LEMMA SetupFits ==
    ASSUME NEW p \in Nat, NEW a \in Nat, NEW c \in Nat, NEW q \in Nat, NEW s \in Nat,
           p <= a, s <= a, q <= (p + a) + s
    PROVE  q <= p + a + a /\ q <= c + a + a + a + a + a
    OBVIOUS

LEMMA WaitFits ==
    ASSUME NEW p \in Nat, NEW a \in Nat, NEW c \in Nat, NEW q \in Nat, NEW s \in Nat,
           c <= a, s <= p, p <= a, q <= c + s
    PROVE  q <= p + a + a /\ q <= c + a + a + a + a + a
    OBVIOUS

LEMMA SilenceKept ==
    ASSUME PassFits
    PROVE  TypeOK /\ TypeOK' /\ SilenceCovered /\ [Next]_vars => SilenceCovered'
<1> SUFFICES ASSUME TypeOK, TypeOK', SilenceCovered, [Next]_vars PROVE SilenceCovered'
    OBVIOUS
<1> USE Numbers DEF Places, Setup, Tasks
<1>0. at # "seismo" => second = FALSE
    BY DEF TypeOK
<1>1. CASE Boot
    <2>1. quiet' = 0 /\ Goto("mac")
        BY <1>1 DEF Boot
    <2> QED
        BY <2>1, Arrive, BaseOf
<1>2. CASE FindMAC
    <2>1. CASE Goto("config") /\ UNCHANGED trouble
        <3>1. at = "mac" /\ quiet' = quiet
            BY <1>2 DEF FindMAC, dogVars
        <3>2. ~trouble => spent <= Pause /\ quiet <= spent
            <4>1. Limit = Pause /\ Base[at] = 0 /\ at \in Places \ {"seismo"}
                BY <3>1, BaseOf DEF Limit
            <4> QED
                BY <4>1, CoverAt
        <3>3. ~trouble' => quiet' <= Base["config"]
            BY <2>1, <3>1, <3>2, BaseOf
        <3> QED
            BY <2>1, <3>3, Arrive
    <2>2. CASE trouble' = TRUE
        BY <2>2 DEF SilenceCovered
    <2> QED
        BY <1>2, <2>1, <2>2 DEF FindMAC
<1>3. CASE GiveUpMAC \/ Ordered \/ InterfaceLost \/ Bark
    <2>1. at' = "down"
        BY <1>3 DEF GiveUpMAC, Ordered, InterfaceLost, Bark, GoDown, Goto
    <2> QED
        BY <2>1 DEF SilenceCovered
<1>4. CASE SetupConfig
    <2>1. CASE Goto("sync") /\ UNCHANGED trouble
        <3>1. at = "config" /\ quiet' = quiet
            BY <1>4 DEF SetupConfig, dogVars
        <3>2. ~trouble => quiet <= Pause + spent
            <4>1. Base[at] = Pause /\ at \in Places \ {"seismo"}
                BY <3>1, BaseOf
            <4> QED
                BY <4>1, CoverAt
        <3>3. ~trouble' => quiet' <= Base["sync"]
            BY <2>1, <3>1, <3>2, BaseOf
        <3> QED
            BY <2>1, <3>3, Arrive
    <2>2. CASE trouble' = TRUE
        BY <2>2 DEF SilenceCovered
    <2> QED
        BY <1>4, <2>1, <2>2 DEF SetupConfig
<1>5. CASE SetupSync
    <2>1. at = "sync" /\ quiet' = quiet /\ trouble' = trouble
        BY <1>5 DEF SetupSync, dogVars
    <2>2. ~trouble => quiet <= (Pause + Answer) + spent
        <3>1. Base[at] = Pause + Answer /\ at \in Places \ {"seismo"}
            BY <2>1, BaseOf
        <3> QED
            BY <3>1, CoverAt
    <2>3. ~trouble' => quiet' <= Base["top"] /\ quiet' <= Base["position"]
        <3>1. ~trouble => /\ quiet <= Pause + Answer + Answer
                          /\ quiet <= Command + Answer + Answer + Answer + Answer + Answer
            BY <2>2, SetupFits
        <3> QED
            BY <2>1, <3>1, BaseOf
    <2>4. CASE Goto("top")
        BY <2>3, <2>4, Arrive
    <2>5. CASE Goto("position")
        BY <2>3, <2>5, Arrive
    <2> QED
        BY <1>5, <2>4, <2>5 DEF SetupSync
<1>6. CASE AwaitPosition \/ Top
    <2>1. quiet' = 0 /\ (Goto("listen") \/ Goto("command"))
        BY <1>6 DEF AwaitPosition, Top, Guard!Beat
    <2>2. ~trouble' => quiet' <= Base["listen"] /\ quiet' <= Base["command"]
        BY <2>1, BaseOf
    <2>3. CASE Goto("listen")
        BY <2>2, <2>3, Arrive
    <2>4. CASE Goto("command")
        BY <2>2, <2>4, Arrive
    <2> QED
        BY <2>1, <2>3, <2>4
<1>7. CASE Obey
    <2>1. quiet' = quiet /\ trouble' = trouble /\ at \in {"command", "listen"}
          /\ (Goto("net") \/ Goto("delay"))
        BY <1>7, AfterOf DEF Obey, dogVars
    <2>2. ~trouble => spent <= Command /\ quiet <= spent
        <3>1. Limit = Command /\ Base[at] = 0 /\ at \in Places \ {"seismo"}
            BY <2>1, BaseOf DEF Limit
        <3> QED
            BY <3>1, CoverAt
    <2>3. ~trouble' => quiet' <= Base["net"] /\ quiet' <= Base["delay"]
        BY <2>1, <2>2, BaseOf
    <2>4. CASE Goto("net")
        BY <2>3, <2>4, Arrive
    <2>5. CASE Goto("delay")
        BY <2>3, <2>5, Arrive
    <2> QED
        BY <2>1, <2>4, <2>5
<1>17. CASE Delay
    <2>1. quiet' = quiet /\ trouble' = trouble /\ at = "delay"
          /\ (Goto("top") \/ Goto("position"))
        BY <1>17 DEF Delay, dogVars
    <2>2. ~trouble => spent <= Pause /\ quiet <= Command + spent
        <3>1. Limit = Pause /\ Base[at] = Command /\ at \in Places \ {"seismo"}
            BY <2>1, BaseOf DEF Limit
        <3> QED
            BY <3>1, CoverAt
    <2>3. ~trouble' => quiet' <= Base["top"] /\ quiet' <= Base["position"]
        <3>1. ~trouble => /\ quiet <= Pause + Answer + Answer
                          /\ quiet <= Command + Answer + Answer + Answer + Answer + Answer
            BY <2>2, WaitFits
        <3> QED
            BY <2>1, <3>1, BaseOf
    <2>4. CASE Goto("top")
        BY <2>3, <2>4, Arrive
    <2>5. CASE Goto("position")
        BY <2>3, <2>5, Arrive
    <2> QED
        BY <2>1, <2>4, <2>5
<1>18. CASE TraceSent
    <2>1. /\ at' = at /\ at = "seismo" /\ second = FALSE /\ second' = TRUE /\ spent' = 0
          /\ quiet' = quiet /\ trouble' = trouble
        BY <1>18 DEF TraceSent, dogVars, TypeOK
    <2>2. Limit' = Limit /\ Limit \in Nat /\ Base["seismo"] \in Nat
        BY <2>1, LimitIsNat, BaseIsNat DEF Limit
    <2>3. ~trouble => quiet <= Base["seismo"] + spent
        BY <2>1, <2>2 DEF SilenceCovered
    <2>4. ~trouble' => quiet' <= Base["seismo"] + Answer + 0
        BY <2>1, <2>2, <2>3
    <2> QED
        BY <2>1, <2>2, <2>4 DEF SilenceCovered, Base
<1>8. ASSUME NEW t \in Tasks, at = t, Goto(After(t)), quiet' = quiet, trouble' = trouble
      PROVE  SilenceCovered'
    <2>1. Base[t] \in Nat
        BY BaseIsNat
    <2>2. CASE t \notin {"seismo", "log"}
        <3>1. After(t) \in Tasks /\ Base[After(t)] = Base[t] + Answer
            BY <2>2, AfterOf, BaseOf
        <3>2. ~trouble => quiet <= Base[t] + spent
            BY <1>8, <2>2, CoverAt
        <3>3. ~trouble => quiet <= Base[t] + Answer
            BY <2>1, <3>2
        <3> QED
            BY <1>8, <3>1, <3>3, Arrive
    <2>3. CASE t = "seismo"
        <3>1. After(t) = "log" /\ Base["log"] = Base[t] + Answer + Answer
            BY <2>3, AfterOf, BaseOf
        <3>2. ~trouble => quiet <= Base[t] + (IF second THEN Answer ELSE 0) + spent
            BY <1>8 DEF SilenceCovered
        <3>3. ~trouble => quiet <= Base[t] + Answer + Answer
            BY <2>1, <3>2
        <3> QED
            BY <1>8, <3>1, <3>3, Arrive
    <2>4. CASE t = "log"
        <3>1. ~trouble => quiet <= Base["top"]
            BY <1>0, <1>8, <2>4, BaseOf DEF SilenceCovered
        <3>2. Goto("top")
            BY <1>8, <2>4, AfterOf
        <3> QED
            BY <1>8, <3>1, <3>2, Arrive
    <2> QED
        BY <2>2, <2>3, <2>4
<1>9. CASE Rotate
    <2>1. at = "log" /\ Goto(After("log")) /\ quiet' = quiet /\ trouble' = trouble
        BY <1>9 DEF Rotate, Ran, dogVars
    <2> QED
        BY <2>1, <1>8
<1>10. ASSUME NEW t \in Tasks, NotDue(t) PROVE SilenceCovered'
    <2>1. at = t /\ Goto(After(t)) /\ quiet' = quiet /\ trouble' = trouble
        BY <1>10 DEF NotDue, dogVars
    <2> QED
        BY <2>1, <1>8
<1>11. ASSUME NEW t \in Tasks, Return(t) PROVE SilenceCovered'
    <2>1. at = t /\ Goto(After(t)) /\ quiet' = quiet /\ trouble' = trouble
        BY <1>11 DEF Return, Ran, dogVars
    <2> QED
        BY <2>1, <1>8
<1>12. CASE Tick
    <2>1. /\ at' = at /\ at # "log" /\ second' = second
          /\ trouble' = (trouble \/ spent >= Limit)
          /\ spent' = IF spent < Answer THEN spent + 1 ELSE spent
          /\ quiet' = IF quiet > Late THEN quiet ELSE quiet + 1
        BY <1>12 DEF Tick, Guard!Wait
    <2>2. SUFFICES ASSUME ~trouble', at # "down" PROVE SilenceCovered'
        BY <2>1 DEF SilenceCovered
    <2>3. ~trouble /\ spent < Limit
        <3>1. ~trouble /\ ~(spent >= Limit)
            BY <2>1, <2>2, Zenon
        <3> QED
            BY <3>1, LimitIsNat
    <2>4. spent' = spent + 1 /\ spent' <= Limit /\ quiet' <= quiet + 1
        BY <2>1, <2>3, LimitIsNat
    <2> DEFINE more == IF second THEN Answer ELSE 0
    <2>5. quiet <= Base[at] + more + spent
        BY <2>1, <2>2, <2>3 DEF SilenceCovered
    <2>6. Base[at] \in Nat /\ more \in Nat
        <3>1. at \in Places
            BY <2>1, <2>2, TurnsAreTasks DEF TypeOK
        <3> QED
            BY <3>1, BaseIsNat
    <2>7. quiet' <= Base[at] + more + spent'
        <3>1. quiet' \in Nat
            BY DEF TypeOK, CoreAssumption
        <3>2. spent \in Nat /\ quiet \in Nat
            OBVIOUS
        <3> DEFINE base == Base[at]
        <3>3. base \in Nat /\ more \in Nat /\ quiet <= base + more + spent
            BY <2>5, <2>6
        <3> HIDE DEF more, base
        <3>4. quiet' <= base + more + spent'
            BY ONLY <2>4, <3>1, <3>2, <3>3
        <3> QED
            BY <3>4 DEF base
    <2>8. Limit' = Limit
        BY <2>1 DEF Limit
    <2> QED
        BY <2>1, <2>4, <2>7, <2>8 DEF SilenceCovered, Base
<1>13. CASE ClockStep \/ DogDies \/ UNCHANGED vars
    <2>1. UNCHANGED <<at, second, spent, trouble, quiet>>
        BY <1>13 DEF ClockStep, DogDies, vars, dogVars, Guard!Excuse
    <2> QED
        BY <2>1 DEF SilenceCovered, Limit, Base
<1>14. CASE SyncAgain
    BY <1>14 DEF SyncAgain, SilenceCovered
<1>15. CASE NetworkChanges
    <2>1. CASE trouble'
        BY <2>1 DEF SilenceCovered
    <2>2. CASE ~trouble'
        <3>1. UNCHANGED <<at, second, spent, trouble, quiet>>
            BY <1>15, <2>2 DEF NetworkChanges, dogVars
        <3> QED
            BY <3>1 DEF SilenceCovered, Limit, Base
    <2> QED
        BY <2>1, <2>2
<1>16. ASSUME NEW t \in Tasks, Enter(t) PROVE SilenceCovered'
    <2>1. UNCHANGED <<at, second, spent, trouble, quiet>>
        BY <1>16 DEF Enter, dogVars
    <2> QED
        BY <2>1 DEF SilenceCovered, Limit, Base
<1> QED
    BY <1>1, <1>2, <1>3, <1>4, <1>5, <1>6, <1>7, <1>9, <1>10, <1>11, <1>12, <1>13,
       <1>14, <1>15, <1>16, <1>17, <1>18 DEF Next

\* The dog reboots the board only after trouble or with an excuse, when the
\* tasks have the order of loop() and its patience covers what a pass may hold: a command
\* that pings twice, five answers - two of them to one tick() - and a delay.
THEOREM RebootOnlyInTroubleHolds ==
    ASSUME PassFits
    PROVE  Spec => []RebootOnlyInTrouble
<1>1. Init => SilenceCovered /\ RebootOnlyInTrouble
    <2>1. Init => at = "mac" /\ spent = 0 /\ quiet = 0 /\ barked = FALSE
        BY DEF Init, Guard!Init
    <2>2. 0 <= Limit
        BY LimitIsNat
    <2> QED
        BY <2>1, <2>2, BaseOf DEF SilenceCovered, RebootOnlyInTrouble
<1>2. TypeOK /\ SilenceCovered /\ Bark => RebootOnlyInTrouble'
    <2> SUFFICES ASSUME TypeOK, SilenceCovered, Bark PROVE trouble' \/ hasty'
        BY DEF RebootOnlyInTrouble
    <2>1. at # "down" /\ hasty' = hasty /\ trouble' = trouble /\ (quiet > Early \/ hasty)
        BY DEF Bark, Guard!Bark, GoDown
    <2>2. ASSUME ~trouble PROVE quiet <= Early
        <3> DEFINE more == IF second THEN Answer ELSE 0
        <3>1. spent <= Limit /\ quiet <= Base[at] + more + spent
            BY <2>1, <2>2 DEF SilenceCovered
        <3>2. at \in Places
            BY <2>1, TurnsAreTasks DEF TypeOK, Places
        <3>3. Base[at] \in Nat /\ more \in Nat /\ more <= Answer
            BY <3>2, BaseIsNat, Numbers
        <3>4. at \in {"top", "log"} => more = 0
            BY DEF TypeOK
        <3> HIDE DEF more
        <3>5. CASE at = "top"
            <4>1. spent <= Pause
                BY <3>1, <3>5 DEF Limit
            <4>2. quiet <= Command + Answer + Answer + Answer + Answer + Answer + spent
                BY <3>1, <3>4, <3>5, BaseOf, Numbers
            <4> QED
                BY <4>1, <4>2, Numbers DEF PassFits, CoreAssumption
        <3>6. CASE at = "log"
            <4>1. spent = 0
                BY <2>1, <2>2, <3>6 DEF SilenceCovered
            <4>2. quiet <= Command + Answer + Answer + Answer + Answer + Answer + spent
                BY <3>1, <3>4, <3>6, BaseOf, Numbers
            <4> QED
                BY <4>1, <4>2, Numbers DEF PassFits, CoreAssumption
        <3>7. CASE at \notin {"top", "log"}
            <4>1. Base[at] <= Command + Answer + Answer + Answer
                BY <3>2, <3>7, EarlyBase
            <4> QED
                BY <3>1, <3>3, <4>1, Numbers DEF PassFits, CoreAssumption
        <3> QED
            BY <3>5, <3>6, <3>7
    <2> QED
        BY <2>1, <2>2, Numbers DEF CoreAssumption
<1>3. TypeOK /\ SilenceCovered /\ RebootOnlyInTrouble /\ [Next]_vars => RebootOnlyInTrouble'
    <2> SUFFICES ASSUME TypeOK, SilenceCovered, RebootOnlyInTrouble, [Next]_vars
                 PROVE  RebootOnlyInTrouble'
        OBVIOUS
    <2> USE DEF RebootOnlyInTrouble, dogVars
    <2>1. CASE Boot \/ AwaitPosition \/ Top
        BY <2>1 DEF Boot, AwaitPosition, Top, Guard!Beat
    <2>2. CASE \/ FindMAC \/ SetupConfig \/ SetupSync \/ SyncAgain \/ NetworkChanges
              \/ Delay \/ Obey \/ TraceSent
        BY <2>2 DEF FindMAC, SetupConfig, SetupSync, SyncAgain, NetworkChanges, Delay, Obey,
                    TraceSent
    <2>3. CASE GiveUpMAC \/ Ordered \/ InterfaceLost
        BY <2>3 DEF GiveUpMAC, Ordered, InterfaceLost, GoDown
    <2>4. CASE Rotate \/ \E t \in Tasks : NotDue(t) \/ Enter(t) \/ Return(t)
        BY <2>4 DEF Rotate, NotDue, Enter, Return, Ran
    <2>5. CASE Tick
        BY <2>5 DEF Tick, Guard!Wait
    <2>6. CASE ClockStep
        <3>1. barked' = barked /\ trouble' = trouble /\ (hasty' = hasty \/ hasty' = TRUE)
            BY <2>6, Zenon DEF ClockStep, Guard!Excuse
        <3> QED
            BY <3>1, Zenon
    <2>7. CASE Bark
        BY <2>7, <1>2
    <2>8. CASE DogDies \/ UNCHANGED vars
        BY <2>8 DEF DogDies, vars
    <2> QED
        BY <2>1, <2>2, <2>3, <2>4, <2>5, <2>6, <2>7, <2>8 DEF Next
<1> QED
    BY <1>1, <1>2, <1>3, SilenceKept, TypeCorrect, PTL DEF Spec

-----------------------------------------------------------------------------
(***************************************************************************)
(* The periodic tasks.  As long as nobody moves the clock, millis() has run  *)
(* since the last run of a task as far as the time that passed, and wraps    *)
(* once at most: what the code computes as elapsed is that time.  Not for    *)
(* the rotation of the log, whose time is never noted.                      *)
(***************************************************************************)

Aged == age # Never /\ ~moved

AgeShown ==
    Aged => /\ age < Wrap
            /\ clock = last[Watched] + age \/ clock = last[Watched] + age - Wrap

\* What a step can do to the watched task's timer: nothing, forget it, spoil it,
\* let it run, or note a run.
LEMMA TimerSteps ==
    ASSUME Watched # "log", TypeOK, [Next]_vars
    PROVE  \/ /\ clock' = clock /\ last'[Watched] = last[Watched]
              /\ age' = age /\ moved' = moved
           \/ age' = Never
           \/ moved' = TRUE
           \/ Tick
           \/ Return(Watched)
<1>1. CASE Boot
    BY <1>1 DEF Boot, Unseen
<1>2. CASE GiveUpMAC \/ Ordered \/ InterfaceLost \/ Bark
    BY <1>2 DEF GiveUpMAC, Ordered, InterfaceLost, Bark, GoDown
<1>3. CASE ClockStep
    BY <1>3 DEF ClockStep
<1>4. CASE \/ FindMAC \/ SetupConfig \/ SetupSync \/ AwaitPosition \/ Delay \/ Top \/ Obey
          \/ TraceSent
    BY <1>4 DEF FindMAC, SetupConfig, SetupSync, AwaitPosition, Delay, Top, Obey, TraceSent,
                clockVars, taskVars
<1>5. CASE SyncAgain \/ NetworkChanges \/ DogDies \/ UNCHANGED vars
    BY <1>5 DEF SyncAgain, NetworkChanges, DogDies, clockVars, taskVars, vars
<1>6. ASSUME NEW t \in Tasks, NotDue(t) \/ Enter(t)
      PROVE  UNCHANGED <<clock, last, age, moved>>
    BY <1>6 DEF NotDue, Enter, clockVars, taskVars
<1>7. ASSUME NEW t \in Tasks, t # Watched, Return(t)
      PROVE  /\ clock' = clock /\ last'[Watched] = last[Watched]
             /\ age' = age /\ moved' = moved
    BY <1>7 DEF Return, Ran, clockVars, TypeOK, CoreAssumption
<1>8. CASE Rotate
    BY <1>8 DEF Rotate, Ran, clockVars, TypeOK
<1> QED
    BY <1>1, <1>2, <1>3, <1>4, <1>5, <1>6, <1>7, <1>8 DEF Next

LEMMA NextInstant ==
    ASSUME NEW t \in Instant
    PROVE  Millis(t + 1) = IF t + 1 = Wrap THEN 0 ELSE t + 1
<1>1. t + 1 \in Nat /\ t + 1 <= Wrap /\ Wrap \in Nat
    BY DEF Instant
<1> QED
    BY <1>1, MillisWithinWrap

\* An instant and a time of less than a wrap before it, in the code's arithmetic.
LEMMA WithinOneWrap ==
    ASSUME NEW c \in Nat, NEW l \in Nat, NEW a \in Nat,
           c < Wrap, l < Wrap, a < Wrap,
           c = l + a \/ c = l + a - Wrap
    PROVE  /\ Elapsed(c, l) \in Nat
           /\ a <= Elapsed(c, l)
           /\ LongWrap = Wrap => Elapsed(c, l) = a
<1>1. Wrap \in Nat /\ LongWrap \in Nat /\ LongWrap >= Wrap
    OBVIOUS
<1>2. CASE c >= l
    BY <1>1, <1>2 DEF Elapsed
<1>3. CASE ~(c >= l)
    BY <1>1, <1>3 DEF Elapsed
<1> QED
    BY <1>2, <1>3

\* A second more of both.
LEMMA OneSecondMore ==
    ASSUME NEW c \in Nat, NEW l \in Nat, NEW a \in Nat,
           c < Wrap, l < Wrap, a < Wrap,
           c = l + a \/ c = l + a - Wrap,
           NEW d, d = IF c + 1 = Wrap THEN 0 ELSE c + 1
    PROVE  d = l + (a + 1) \/ d = l + (a + 1) - Wrap
<1>1. Wrap \in Nat
    OBVIOUS
<1>2. CASE c + 1 = Wrap
    BY <1>1, <1>2
<1>3. CASE c + 1 # Wrap
    BY <1>1, <1>3
<1> QED
    BY <1>2, <1>3

LEMMA AgeKept ==
    ASSUME Watched # "log"
    PROVE  TypeOK /\ TypeOK' /\ AgeShown /\ [Next]_vars => AgeShown'
<1> SUFFICES ASSUME TypeOK, TypeOK', AgeShown, [Next]_vars PROVE AgeShown'
    OBVIOUS
<1> USE DEF AgeShown, Aged
<1>1. /\ clock \in Nat /\ clock < Wrap
      /\ last[Watched] \in Nat /\ last[Watched] < Wrap
      /\ age # Never => age \in Nat
    <2>1. clock \in Instant /\ last[Watched] \in Instant
        BY DEF TypeOK, CoreAssumption
    <2>2. age # Never => age \in Nat
        BY DEF TypeOK
    <2> QED
        BY <2>1, <2>2 DEF Instant
<1>2. CASE Tick
    <2>1. /\ clock' = IF clock + 1 = Wrap THEN 0 ELSE clock + 1
          /\ last' = last
          /\ age' = IF age \in {Never, Wrap} THEN age ELSE age + 1
          /\ moved' = (moved \/ age' = Wrap)
        BY <1>2, NextInstant DEF Tick, TypeOK
    <2> SUFFICES ASSUME age' # Never, ~moved'
                 PROVE  /\ age' < Wrap
                        /\ \/ clock' = last[Watched] + age'
                           \/ clock' = last[Watched] + age' - Wrap
        BY <2>1
    <2>2. age' # Wrap /\ ~moved /\ age # Never /\ age # Wrap
        BY <2>1 DEF Never
    <2>3. /\ age < Wrap /\ age' = age + 1 /\ age \in Nat
          /\ clock = last[Watched] + age \/ clock = last[Watched] + age - Wrap
        BY <1>1, <2>1, <2>2
    <2>4. clock' = last[Watched] + (age + 1) \/ clock' = last[Watched] + (age + 1) - Wrap
        <3>1. clock' = IF clock + 1 = Wrap THEN 0 ELSE clock + 1
            BY <2>1
        <3> HIDE DEF AgeShown, Aged
        <3> QED
            BY ONLY <1>1, <2>3, <3>1, MillisAssumption, OneSecondMore
    <2>5. age' < Wrap
        BY <2>2, <2>3
    <2> QED
        BY <2>3, <2>4, <2>5
<1>3. CASE Return(Watched)
    BY <1>1, <1>3 DEF Return, Ran, clockVars, TypeOK, CoreAssumption
<1> QED
    BY <1>2, <1>3, TimerSteps

\* What the code takes for the time since the last run is never less than it,
\* and where unsigned long has 32 bits it is that time.
LEMMA AgeElapsed ==
    ASSUME TypeOK, AgeShown, Aged
    PROVE  /\ age \in Nat /\ Elapsed(clock, last[Watched]) \in Nat
           /\ age <= Elapsed(clock, last[Watched])
           /\ LongWrap = Wrap => Elapsed(clock, last[Watched]) = age
<1>1. /\ clock \in Nat /\ clock < Wrap
      /\ last[Watched] \in Nat /\ last[Watched] < Wrap
      /\ age \in Nat /\ age < Wrap
      /\ clock = last[Watched] + age \/ clock = last[Watched] + age - Wrap
    <2>1. clock \in Instant /\ last[Watched] \in Instant
        BY DEF TypeOK, CoreAssumption
    <2>2. age \in Nat
        BY DEF TypeOK, Aged
    <2> QED
        BY <2>1, <2>2 DEF Instant, AgeShown
<1> QED
    BY <1>1, WithinOneWrap

LEMMA AgeInit == Watched # "log" /\ Init => AgeShown
BY DEF Init, Unseen, AgeShown, Aged

\* On a 32-bit build no task but the rotation runs before its interval has passed,
\* however often millis() wraps - for every order of tasks, every interval, and
\* every call that hangs, fails or is slow.
THEOREM NotTooSoonHolds ==
    ASSUME Watched # "log", LongWrap = Wrap
    PROVE  Spec => NotTooSoon
<1>1. TypeOK /\ AgeShown /\ [Next]_vars
          => [(at = Watched /\ ~called /\ called' /\ age # Never /\ ~moved)
                  => age >= Interval[Watched]]_vars
    <2> SUFFICES ASSUME TypeOK, AgeShown, Next,
                        at = Watched, ~called, called', Aged
                 PROVE  age >= Interval[Watched]
        BY DEF Aged
    <2>1. \E t \in Tasks : Enter(t)
        BY DEF Next, Boot, FindMAC, GiveUpMAC, SetupConfig, SetupSync, AwaitPosition, Delay, Top,
               Obey, TraceSent, Ordered, NotDue, Return, Ran, Rotate, SyncAgain, InterfaceLost, Tick, ClockStep,
               NetworkChanges, Bark, DogDies, GoDown, Goto
    <2>2. Due(Watched)
        BY <2>1 DEF Enter
    <2> QED
        BY <2>2, AgeElapsed DEF Due
<1> QED
    BY <1>1, AgeKept, AgeInit, TypeCorrect, PTL DEF Spec, NotTooSoon

-----------------------------------------------------------------------------
(***************************************************************************)
(* No task is left behind.  Once a pass has been at the watched task, its    *)
(* timer is young: either it ran since, or its interval had not ended when   *)
(* the pass looked, which was no earlier than the last beat.                 *)
(***************************************************************************)

\* loop() comes to every task once, and to the watched one among them.
OncePerPass ==
    /\ \A i, j \in 1 .. Len(Order) : Order[i] = Order[j] => i = j
    /\ Watched \in Turns

\* The pass has been at the watched task when it comes to this place.
Passed(place) ==
    \E i, k \in 1 .. Len(Order) : Order[i] = place /\ Order[k] = Watched /\ k < i

Fresh == Passed(at) /\ Aged /\ quiet <= Late => age < Interval[Watched] + quiet

\* The thread goes on from a task.
Leaves(t) == at = t /\ (NotDue(t) \/ Return(t) \/ (t = "log" /\ Rotate))

LEMMA OrderLength == Len(Order) \in Nat /\ Len(Order) >= 1
BY DEF CoreAssumption

LEMMA NothingPassed ==
    ASSUME OncePerPass
    PROVE  ~Passed(Order[1]) /\ \A place : place \notin Turns => ~Passed(place)
<1>1. ~Passed(Order[1])
    BY OrderLength DEF OncePerPass, Passed
<1>2. ASSUME NEW place, place \notin Turns PROVE ~Passed(place)
    BY <1>2 DEF Passed, Turns
<1> QED
    BY <1>1, <1>2

\* What comes after a task is the next one: what had passed by then had passed
\* before, or is that task.
LEMMA PassedAfter ==
    ASSUME OncePerPass, NEW t \in Turns
    PROVE  /\ Passed(After(t)) => t = Watched \/ Passed(t)
           /\ t = Order[Len(Order)] => t = Watched \/ Passed(t)
<1>1. PICK i \in 1 .. Len(Order) : Order[i] = t
    BY DEF Turns
<1>2. PICK k \in 1 .. Len(Order) : Order[k] = Watched
    BY DEF OncePerPass, Turns
<1>3. i \in Nat /\ k \in Nat /\ Len(Order) \in Nat /\ i >= 1 /\ k >= 1
    BY OrderLength
<1>4. CASE t = Order[Len(Order)]
    <2>1. i = Len(Order)
        BY <1>1, <1>4, OrderLength DEF OncePerPass
    <2>2. t = Watched \/ Passed(t)
        <3>1. CASE k = i
            BY <3>1, <1>1, <1>2
        <3>2. CASE k # i
            BY <3>2, <1>1, <1>2, <1>3, <2>1 DEF Passed
        <3> QED
            BY <3>1, <3>2
    <2> QED
        BY <2>2
<1>5. CASE t # Order[Len(Order)]
    <2>1. i \in 1 .. Len(Order) - 1
        BY <1>1, <1>3, <1>5
    <2>2. \A j \in 1 .. Len(Order) - 1 : Order[j] = t => j = i
        BY <1>1, <1>3 DEF OncePerPass
    <2>3. (CHOOSE j \in 1 .. Len(Order) - 1 : Order[j] = t) = i
        BY <1>1, <2>1, <2>2
    <2>4. After(t) = Order[1 + i]
        BY <1>5, <2>3 DEF After
    <2>5. ASSUME Passed(After(t)) PROVE t = Watched \/ Passed(t)
        <3>1. PICK m, n \in 1 .. Len(Order) :
                  Order[m] = Order[1 + i] /\ Order[n] = Watched /\ n < m
            BY <2>4, <2>5 DEF Passed
        <3>2. m = 1 + i
            BY <3>1, <2>1, <1>3 DEF OncePerPass
        <3>3. CASE n = i
            BY <3>1, <3>3, <1>1
        <3>4. CASE n # i
            BY <3>1, <3>2, <3>4, <1>1, <1>3 DEF Passed
        <3> QED
            BY <3>3, <3>4
    <2> QED
        BY <1>5, <2>5
<1> QED
    BY <1>4, <1>5

\* The thread leaves the watched task with a young timer.
LEMMA LeftYoung ==
    ASSUME TypeOK, AgeShown, NEW t \in Tasks, Leaves(t),
           Watched # "log",
           t = Watched \/ (Fresh /\ Passed(t)), age' # Never, ~moved', quiet <= Late
    PROVE  quiet' = quiet /\ age' < Interval[Watched] + quiet
<1> USE DEF Leaves
<1>1. Interval[Watched] \in Nat /\ Interval[Watched] >= 1 /\ quiet \in Nat
    BY DEF TypeOK, CoreAssumption
<1>2. quiet' = quiet
    BY DEF NotDue, Return, Rotate, Ran, dogVars
<1>3. CASE NotDue(t) /\ t = Watched
    <2>1. Aged /\ age' = age
        BY <1>3 DEF NotDue, taskVars, Aged
    <2>2. ~(Elapsed(clock, last[Watched]) >= Interval[Watched])
        BY <1>3 DEF NotDue, Due
    <2> QED
        BY <1>1, <1>2, <2>1, <2>2, AgeElapsed
<1>4. CASE Return(t) /\ t = Watched
    <2>1. age' = 0
        BY <1>4 DEF Return, Ran
    <2> QED
        BY <1>1, <1>2, <2>1
<1>5. CASE t # Watched
    <2>1. age' = age /\ moved' = moved
        BY <1>5 DEF NotDue, Return, Rotate, Ran, taskVars, TypeOK
    <2> QED
        BY <1>2, <1>5, <2>1 DEF Fresh, Aged
<1> QED
    BY <1>3, <1>4, <1>5

\* Where a step can take the thread.
LEMMA PassSteps ==
    ASSUME TypeOK, [Next]_vars
    PROVE  \/ at' \notin Turns \/ at' = Order[1]
           \/ /\ at' = at /\ age' = age /\ quiet' = quiet
              /\ moved' = moved \/ moved' = TRUE
           \/ Tick
           \/ \E t \in Tasks : Leaves(t) /\ at' = After(t)
<1> USE TurnsAreTasks
<1>1. CASE Boot
    BY <1>1 DEF Boot, Goto, Tasks
<1>2. CASE GiveUpMAC \/ Ordered \/ InterfaceLost \/ Bark
    BY <1>2 DEF GiveUpMAC, Ordered, InterfaceLost, Bark, GoDown, Goto, Tasks
<1>3. CASE FindMAC \/ SetupConfig \/ SetupSync \/ AwaitPosition \/ Delay \/ Top
    BY <1>3 DEF FindMAC, SetupConfig, SetupSync, AwaitPosition, Delay, Top, Goto, Tasks
<1>4. CASE Obey
    BY <1>4 DEF Obey, Goto, Tasks
<1>5. CASE SyncAgain \/ TraceSent \/ NetworkChanges \/ UNCHANGED vars
    BY <1>5 DEF SyncAgain, TraceSent, NetworkChanges, dogVars, taskVars, vars
<1>6. CASE ClockStep
    BY <1>6 DEF ClockStep, Guard!Excuse
<1>7. CASE DogDies
    BY <1>7 DEF DogDies, taskVars
<1>8. ASSUME NEW t \in Tasks, Enter(t)
      PROVE  UNCHANGED <<at, age, quiet, moved>>
    BY <1>8 DEF Enter, dogVars, taskVars
<1>9. ASSUME NEW t \in Tasks, NotDue(t) \/ Return(t)
      PROVE  at = t /\ at' = After(t)
    BY <1>9 DEF NotDue, Return, Ran, Goto
<1>10. CASE Rotate
    BY <1>10 DEF Leaves, Rotate, Ran, Goto, Tasks
<1> USE DEF Leaves
<1> QED
    BY <1>1, <1>2, <1>3, <1>4, <1>5, <1>6, <1>7, <1>8, <1>9, <1>10 DEF Next

LEMMA FreshKept ==
    ASSUME OncePerPass, Watched # "log"
    PROVE  TypeOK /\ TypeOK' /\ AgeShown /\ AgeShown' /\ Fresh /\ [Next]_vars => Fresh'
<1> SUFFICES ASSUME TypeOK, TypeOK', AgeShown, AgeShown', Fresh, [Next]_vars,
                    Passed(at'), age' # Never, ~moved', quiet' <= Late
             PROVE  age' < Interval[Watched] + quiet'
    BY DEF Fresh, Aged, Passed
<1>1. CASE at' \notin Turns \/ at' = Order[1]
    BY <1>1, NothingPassed
<1>2. CASE /\ at' = at /\ age' = age /\ quiet' = quiet
           /\ moved' = moved \/ moved' = TRUE
    BY <1>2 DEF Fresh, Aged
<1>3. CASE Tick
    <2>1. /\ at' = at /\ quiet' = (IF quiet > Late THEN quiet ELSE quiet + 1)
          /\ age' = (IF age \in {Never, Wrap} THEN age ELSE age + 1)
          /\ moved' = (moved \/ age' = Wrap)
        BY <1>3 DEF Tick, Guard!Wait
    <2>2. quiet \in Nat /\ Late \in Nat /\ Interval[Watched] \in Nat
        BY DEF TypeOK, CoreAssumption
    <2>3. ~moved /\ age # Never /\ age # Wrap /\ age \in Nat
        <3>1. age # Never /\ age # Wrap
            BY <2>1
        <3>2. ~moved
            BY <2>1
        <3>3. age \in Nat
            BY <3>1 DEF TypeOK
        <3> QED
            BY <3>1, <3>2, <3>3
    <2>4. quiet <= Late /\ quiet' = quiet + 1 /\ age' = age + 1
        BY <2>1, <2>2, <2>3
    <2>5. age < Interval[Watched] + quiet
        BY <2>1, <2>3, <2>4 DEF Fresh, Aged
    <2> QED
        BY <2>2, <2>3, <2>4, <2>5
<1>4. ASSUME NEW t \in Tasks, Leaves(t), at' = After(t)
      PROVE  age' < Interval[Watched] + quiet'
    <2>1. t \in Turns
        BY <1>4, AtTurn DEF Leaves
    <2>2. t = Watched \/ Passed(t)
        BY <1>4, <2>1, PassedAfter
    <2>3. quiet' = quiet
        BY <1>4 DEF Leaves, NotDue, Return, Rotate, Ran, dogVars
    <2>4. quiet <= Late
        BY <2>3
    <2> QED
        BY <1>4, <2>2, <2>3, <2>4, LeftYoung
<1> QED
    BY <1>1, <1>2, <1>3, <1>4, PassSteps

\* No pass leaves the watched task behind, on a 32-bit or a 64-bit build: at the
\* end of one it has run, or its interval ended, no earlier than within the pass.
THEOREM NotLateHolds ==
    ASSUME OncePerPass, Watched # "log"
    PROVE  Spec => NotLate
<1>1. Init => Fresh
    BY DEF Init, Unseen, Fresh, Aged
<1>2. TypeOK /\ AgeShown /\ Fresh /\ [Next]_vars
          => [(at = Order[Len(Order)] /\ at' = "top" /\ age' # Never /\ ~moved' /\ quiet <= Late)
                  => age' < Interval[Watched] + quiet]_vars
    <2> SUFFICES ASSUME TypeOK, AgeShown, Fresh, Next, at = Order[Len(Order)], at' = "top",
                        age' # Never, ~moved', quiet <= Late
                 PROVE  age' < Interval[Watched] + quiet
        OBVIOUS
    <2>1. at \in Turns
        BY OrderLength DEF Turns
    <2>2. PICK t \in Tasks : Leaves(t)
        <3>1. at \in Tasks
            BY <2>1, TurnsAreTasks
        <3>2. CASE Boot \/ FindMAC \/ GiveUpMAC \/ SetupConfig \/ Ordered \/ InterfaceLost \/ Bark
            BY <3>2 DEF Boot, FindMAC, GiveUpMAC, SetupConfig, Ordered, InterfaceLost, Bark,
                        GoDown, Goto
        <3>3. CASE SetupSync \/ AwaitPosition \/ Delay \/ Top \/ Obey
            BY <3>1, <3>3 DEF SetupSync, AwaitPosition, Delay, Top, Obey, Tasks
        <3>4. CASE SyncAgain \/ TraceSent \/ Tick \/ ClockStep \/ NetworkChanges \/ DogDies
            BY <3>1, <3>4 DEF SyncAgain, TraceSent, Tick, ClockStep, NetworkChanges, DogDies, Tasks
        <3>5. ASSUME NEW t \in Tasks, NotDue(t) \/ Enter(t) \/ Return(t)
              PROVE  at = t /\ ~Enter(t)
            BY <3>1, <3>5 DEF NotDue, Enter, Return, Tasks
        <3>6. CASE Rotate
            BY <3>6 DEF Leaves, Rotate, Tasks
        <3> QED
            BY <3>2, <3>3, <3>4, <3>5, <3>6 DEF Next, Leaves
    <2>3. t = Watched \/ Passed(t)
        BY <2>1, <2>2, PassedAfter DEF Leaves
    <2> QED
        BY <2>2, <2>3, LeftYoung
<1> QED
    BY <1>1, <1>2, FreshKept, AgeKept, AgeInit, TypeCorrect, PTL DEF Spec, NotLate
=============================================================================
