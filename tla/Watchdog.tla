------------------------------ MODULE Watchdog ------------------------------
(***************************************************************************)
(* Watchdog.cpp: the sketch forks a daemon (the dog) that wakes up every    *)
(* Poll seconds, looks for the sketch's pid in /proc and at the modification *)
(* time of a file the sketch touches in heartBeat(), and reboots the board   *)
(* when either is missing.  The two processes share nothing but that file    *)
(* and the system clock, which NTP steps under their feet.                   *)
(*                                                                          *)
(* The unit of time is a second; within one second the order of events is   *)
(* free.  platformReboot() ends a behaviour: the next boot is another one,  *)
(* and Init allows what the previous one can leave in the file system.      *)
(***************************************************************************)
EXTENDS Millis

CONSTANTS
    BeatGap,    \* WATCHDOG_TIMER / 3: heartBeat() leaves a younger file alone
    Timer,      \* WATCHDOG_TIMER: age of the file the dog tolerates
    Poll,       \* sleep(15) of the dog
    Steps,      \* by how much a clock step (date -s) moves the clock
    Dawn,       \* what the system clock may show when the sketch starts
    MaxTime,    \* bound: real time stops here
    MaxSteps    \* bound: how often the clock is stepped

ASSUME WatchdogAssumption ==
    /\ BeatGap \in Nat
    /\ Timer \in Nat
    /\ Poll \in Nat \ {0}
    /\ Steps \subseteq Int
    /\ Dawn \subseteq Nat
    /\ MaxTime \in Nat
    /\ MaxSteps \in Nat
    /\ Timer + Poll < Wrap

NoFile == -1

VARIABLES
    now,        \* real time since the sketch started, which no code reads
    wall,       \* the system clock, in seconds since the epoch
    lastBeat,   \* Watchdog::lastBeat, an unsigned long
    mtime,      \* modification time of WATCHDOG_FILE, or NoFile
    sketch,     \* "new" | "running" | "zombie" | "gone"
    dog,        \* "none" | "asleep": the daemon, between two polls
    wake,       \* real time at which the dog's sleep(15) returns
    reboot,     \* "none" | "sketch" | "dog": who called platformReboot()
    clockSteps, \* how often the clock was stepped (for the bound)
    \* History variables: no action's guard reads them.
    beatAt,     \* real time of the last call of heartBeat()
    written,    \* this sketch has touched the file
    stepped     \* directions the clock was stepped in since it did

beatVars == <<lastBeat, mtime, written, stepped, beatAt>>
vars == <<now, wall, lastBeat, mtime, sketch, dog, wake, reboot,
          clockSteps, beatAt, written, stepped>>

Directions == {"forward", "back"}

\* Types; lastBeat keeps what the 32 bits of millis() can hold.
TypeOK ==
    /\ now \in Nat
    /\ wall \in Nat
    /\ lastBeat \in Instant
    /\ mtime \in Nat \cup {NoFile}
    /\ sketch \in {"new", "running", "zombie", "gone"}
    /\ dog \in {"none", "asleep"}
    /\ wake \in Nat
    /\ reboot \in {"none", "sketch", "dog"}
    /\ clockSteps \in Nat
    /\ beatAt \in Nat
    /\ written \in BOOLEAN
    /\ stepped \subseteq Directions

-----------------------------------------------------------------------------
\* /tmp may hold the file of a sketch that ran before this one.
Init ==
    /\ now = 0
    /\ wall \in Dawn
    /\ lastBeat = 0
    /\ mtime \in {NoFile} \cup {t \in {wall - Timer - 1, wall} : t >= 0}
    /\ sketch = "new"
    /\ dog = "none"
    /\ wake = 0
    /\ reboot = "none"
    /\ clockSteps = 0
    /\ beatAt = 0
    /\ written = FALSE
    /\ stepped = {}

-----------------------------------------------------------------------------
(***************************************************************************)
(* The sketch.                                                              *)
(***************************************************************************)

\* Mutant: the timer itself where a third of it is meant.
BeatDueAtTimer == Elapsed(Millis(wall), lastBeat) > Timer

BeatDue == Elapsed(Millis(wall), lastBeat) > BeatGap

\* Mutant: lastBeat from the clock instead of millis().
TouchFileUnfolded ==
    /\ mtime' = wall
    /\ lastBeat' = wall
    /\ written' = TRUE
    /\ stepped' = {}

TouchFile ==
    /\ mtime' = wall
    /\ lastBeat' = Millis(wall)
    /\ written' = TRUE
    /\ stepped' = {}

\* The body of heartBeat(): nothing when a beat is not due; otherwise the file
\* is rewritten or, when it cannot be opened, removed and the board rebooted.
Beat ==
    /\ beatAt' = now
    /\ \/ ~BeatDue /\ UNCHANGED <<lastBeat, mtime, written, stepped, reboot>>
       \/ BeatDue /\ TouchFile /\ UNCHANGED reboot
       \/ /\ BeatDue
          /\ mtime' = NoFile
          /\ reboot' = "sketch"
          /\ UNCHANGED <<lastBeat, written, stepped>>

\* A child of init (pid 1) takes itself for a daemon: it gets no dog and its
\* launch() writes no beat.
LaunchUnderInit ==
    /\ sketch = "new"
    /\ reboot = "none"
    /\ sketch' = "running"
    /\ UNCHANGED <<now, wall, dog, wake, reboot, clockSteps,
                   beatVars>>

LaunchForkFails ==
    /\ sketch = "new"
    /\ reboot = "none"
    /\ reboot' = "sketch"
    /\ UNCHANGED <<now, wall, sketch, dog, wake, clockSteps,
                   beatVars>>

\* The parent beats and goes on; the intermediate child may fail in setsid() or
\* fork(), the grandchild in its first log message (see PollCrashes) or in chdir(),
\* and then there is no dog.
LaunchForks ==
    /\ sketch = "new"
    /\ reboot = "none"
    /\ Beat
    /\ sketch' = "running"
    /\ \/ dog' = "asleep" /\ wake' = now + Poll
       \/ UNCHANGED <<dog, wake>>
    /\ UNCHANGED <<now, wall, clockSteps>>

HeartBeat ==
    /\ sketch = "running"
    /\ reboot = "none"
    /\ Beat
    /\ UNCHANGED <<now, wall, sketch, dog, wake, clockSteps>>

\* The process ends; /proc keeps a zombie until its parent collects it.
SketchExits ==
    /\ reboot = "none"
    /\ \/ sketch = "running" /\ sketch' \in {"zombie", "gone"}
       \/ sketch = "zombie" /\ sketch' = "gone"
    /\ UNCHANGED <<now, wall, dog, wake, reboot, clockSteps,
                   beatVars>>

-----------------------------------------------------------------------------
(***************************************************************************)
(* The dog.                                                                 *)
(***************************************************************************)

\* checkSketchPid(): /proc/<pid>/cmdline exists.
PidExists == sketch # "gone"

\* Mutant: the age tolerated is the dog's sleep, as in the BSD branch (line 105).
FileIsFreshByPoll == mtime # NoFile => mtime >= wall - Poll

\* A file that is not there counts as a heart beat.
FileIsFresh == mtime # NoFile => mtime >= wall - Timer

\* Mutant: either sign of life is enough.
PollFindsSomeLife ==
    /\ dog = "asleep"
    /\ reboot = "none"
    /\ now = wake
    /\ PidExists \/ FileIsFresh
    /\ wake' = now + Poll
    /\ UNCHANGED <<now, wall, sketch, dog, reboot, clockSteps,
                   beatVars>>

PollFindsLife ==
    /\ dog = "asleep"
    /\ reboot = "none"
    /\ now = wake
    /\ PidExists
    /\ FileIsFresh
    /\ wake' = now + Poll
    /\ UNCHANGED <<now, wall, sketch, dog, reboot, clockSteps,
                   beatVars>>

PollFindsDeath ==
    /\ dog = "asleep"
    /\ reboot = "none"
    /\ now = wake
    /\ ~(PidExists /\ FileIsFresh)
    /\ reboot' = "dog"
    /\ UNCHANGED <<now, wall, sketch, dog, wake, clockSteps, beatVars>>

\* While no interface has an address, the reason of the reboot is the dog's end: log()
\* looks for the MAC address that the daemon's Config lacks, getInterfaceMAC() logs that
\* there is none, the daemon logs at LEVEL_DEBUG, and so on down the stack.
PollCrashes ==
    /\ dog = "asleep"
    /\ reboot = "none"
    /\ now = wake
    /\ ~(PidExists /\ FileIsFresh)
    /\ dog' = "none"
    /\ UNCHANGED <<now, wall, sketch, wake, reboot, clockSteps, beatVars>>

-----------------------------------------------------------------------------
(***************************************************************************)
(* Time.  It does not pass over the end of the dog's sleep.                 *)
(***************************************************************************)

Tick ==
    /\ reboot = "none"
    /\ now < MaxTime
    /\ dog = "asleep" => now < wake
    /\ now' = now + 1
    /\ wall' = wall + 1
    /\ UNCHANGED <<sketch, dog, wake, reboot, clockSteps,
                   beatVars>>

\* NTP::execSystemTimeUpdate(), or anyone else, sets the clock.
ClockStep ==
    /\ reboot = "none"
    /\ clockSteps < MaxSteps
    /\ clockSteps' = clockSteps + 1
    /\ \E s \in Steps :
          /\ wall + s >= 0
          /\ wall' = wall + s
          /\ stepped' = stepped \cup {IF s > 0 THEN "forward" ELSE "back"}
    /\ UNCHANGED <<now, lastBeat, mtime, sketch, dog, wake, reboot,
                   beatAt, written>>

Next ==
    \/ LaunchUnderInit
    \/ LaunchForkFails
    \/ LaunchForks
    \/ HeartBeat
    \/ SketchExits
    \/ PollFindsLife
    \/ PollFindsDeath
    \/ PollCrashes
    \/ Tick
    \/ ClockStep

Spec == Init /\ [][Next]_vars

-----------------------------------------------------------------------------
(***************************************************************************)
(* Properties.                                                              *)
(***************************************************************************)

\* The dog reboots the board only when the sketch's process is gone or when
\* heartBeat() has not been called for Timer - BeatGap seconds (40 in the code:
\* the file may be BeatGap old at a call that leaves it alone).  Two
\* exceptions, both of the code: the clock was stepped forward since the file
\* was touched, or this sketch never touched it (millis() was below BeatGap at
\* its start) and a file of an earlier one lies there.
Accuracy ==
    reboot = "dog" => \/ sketch = "gone"
                      \/ now - beatAt > Timer - BeatGap
                      \/ "forward" \in stepped
                      \/ ~written

\* A sketch that stops calling heartBeat() - dead, a zombie, or stuck in a loop
\* that never returns - is rebooted within Timer + Poll seconds of the last
\* call.  Exceptions: the clock was stepped back since the file was touched, or
\* there is no file of this sketch for the dog to find too old.
Completeness ==
    (dog = "asleep" /\ written /\ "back" \notin stepped)
        => now <= beatAt + Timer + Poll

\* The two processes, the file and the clock together are the watchdog that Dog
\* promises the rest of the program (see Core): Accuracy and Completeness as one
\* specification, with what excuses each of them.
Guard == INSTANCE Dog WITH
    Early <- Timer - BeatGap,
    Late <- Timer + Poll,
    quiet <- IF now - beatAt > Timer + Poll THEN Timer + Poll + 1 ELSE now - beatAt,
    hasty <- sketch = "gone" \/ "forward" \in stepped \/ ~written,
    blind <- dog = "none" \/ "back" \in stepped \/ ~written,
    barked <- reboot = "dog"

\* launch() and heartBeat() give the program the dog that Dog describes.
RefinesDog == Guard!Spec
=============================================================================
