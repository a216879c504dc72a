-------------------------------- MODULE Core --------------------------------
(***************************************************************************)
(* galileo-core.cpp: main(), setup() and loop() run everything in one        *)
(* thread.  setup() retries the MAC address and the server's configuration;  *)
(* loop() calls heartBeat(), then each periodic task whose interval is over  *)
(* by millis().  Any call may block; while it does nothing beats, and Dog,   *)
(* which Watchdog implements, may reboot the board.                         *)
(*                                                                          *)
(* The clock is millis() itself and wraps, so behaviours have no end.  Time  *)
(* passes in calls and delays only.                                         *)
(***************************************************************************)
EXTENDS Millis, Sequences

CONSTANTS
    Order,      \* the tasks as loop() comes to them: net, cfg, ntp, seismo, log
    Interval,   \* for each task, the milliseconds between two runs
    Watched,    \* the task, any of them, that the properties observe
    MaxTries,   \* 20: attempts to find a MAC address
    Answer,     \* a request or a check of the network that takes longer is slow
    Command,    \* so is a checkCommandPacket(), which for GETINFO pings twice
    Pause,      \* the delay()s at the end of loop(), and between two attempts
    Early, Late,    \* of Dog: how long a silence it tolerates, and how long at most
    Steps,      \* by how much a clock step moves the clock, modulo Wrap
    MaxSteps    \* bound: how often the clock is stepped

Tasks == {"net", "cfg", "ntp", "seismo", "log"}

ASSUME CoreAssumption ==
    /\ Order \in Seq(Tasks) /\ Order # <<>>
    /\ Interval \in [Tasks -> 1 .. Wrap - 1]
    /\ Watched \in Tasks
    /\ MaxTries \in Nat
    /\ Answer \in Nat /\ Command \in 0 .. Answer /\ Pause \in 0 .. Answer
    /\ Early \in Nat /\ Late \in Nat
    /\ Early < Late
    /\ Steps \subseteq Instant
    /\ MaxSteps \in Nat

VARIABLES
    clock,      \* what millis() shows
    clockSteps, \* how often the clock was stepped (for the bound)
    at,         \* where the thread is: a step of setup(), "top" of loop(), at its
                \* "command", a task
    called,     \* it is in that task's call, not at the check before it
    second,     \* tick() has posted a trace, and goes on to an alert
    tries,      \* attempts to find a MAC address that failed
    last,       \* netLastMs, cfgLastMs, ntpLastMs, seismoLastMs, logRotationMs
    healthy,    \* the network and the servers answer, and within Answer
    \* Dog's variables.
    quiet, hasty, blind, barked,
    \* History variables.
    spent,      \* how long the present call has taken, up to Answer
    trouble,    \* since the last beat a call failed, was slow, or the network out
    age,        \* time since Watched ran last, up to Wrap; or Never
    moved       \* since then the clock was stepped, or Wrap passed

Never == -1

Guard == INSTANCE Dog

dogVars == <<quiet, hasty, blind, barked>>
clockVars == <<clock, clockSteps>>
taskVars == <<last, age, moved>>
vars == <<clockVars, at, called, second, tries, healthy, dogVars, spent, trouble, taskVars>>

\* The last three are the wait for a position: its beat, checkCommandPacket(), delay().
Setup == {"mac", "config", "sync", "position", "listen", "delay"}

Turns == {Order[i] : i \in 1 .. Len(Order)}

\* Types; a call is under way only at a task, a second request only in a tick().
TypeOK ==
    /\ clock \in Instant
    /\ clockSteps \in Nat
    /\ at \in {"down", "top", "command"} \cup Setup \cup Turns
    /\ called \in BOOLEAN /\ (called => at \in Turns)
    /\ second \in BOOLEAN /\ (second => called /\ at = "seismo")
    /\ tries \in 0 .. MaxTries
    /\ last \in [Tasks -> Instant]
    /\ healthy \in BOOLEAN
    /\ quiet \in 0 .. Late + 1
    /\ hasty \in BOOLEAN /\ blind \in BOOLEAN /\ barked \in BOOLEAN
    /\ spent \in 0 .. Answer
    /\ trouble \in BOOLEAN
    /\ age \in (0 .. Wrap) \cup {Never}
    /\ moved \in BOOLEAN

-----------------------------------------------------------------------------
\* Statics are zero; setup() notes the time in logRotationMs.
FirstRuns == [t \in Tasks |-> IF t = "log" THEN clock ELSE 0]
Unseen == IF Watched = "log" THEN 0 ELSE Never

\* The board is up when main() has called Watchdog::launch(); where that fails,
\* or the sketch is a child of init, there is no dog: blind from the start.
Init ==
    /\ clock \in Instant
    /\ clockSteps = 0
    /\ at = "mac"
    /\ called = FALSE /\ second = FALSE
    /\ tries = 0
    /\ last = FirstRuns
    /\ healthy \in BOOLEAN
    /\ Guard!Init
    /\ spent = 0
    /\ trouble = FALSE
    /\ age = Unseen
    /\ moved = FALSE

Goto(place) == at' = place /\ called' = FALSE /\ second' = FALSE /\ spent' = 0

\* platformReboot(), an upgrade, or the dog: whoever calls it ends the run.
GoDown ==
    /\ Goto("down")
    /\ tries' = 0
    /\ last' = [t \in Tasks |-> 0]
    /\ age' = Never
    /\ moved' = FALSE
    /\ UNCHANGED <<clockVars, healthy, trouble>>

\* Mutant: launch() without its heartBeat().
BootUnbeaten ==
    /\ at = "down"
    /\ Goto("mac")
    /\ last' = FirstRuns
    /\ age' = Unseen
    /\ barked' = FALSE
    /\ hasty' \in BOOLEAN /\ blind' \in BOOLEAN
    /\ trouble' = FALSE
    /\ UNCHANGED <<clockVars, tries, healthy, moved, quiet>>

\* main() and the first lines of setup(), after a reboot.
Boot ==
    /\ at = "down"
    /\ Goto("mac")
    /\ last' = FirstRuns
    /\ age' = Unseen
    /\ quiet' = 0 /\ barked' = FALSE
    /\ hasty' \in BOOLEAN /\ blind' \in BOOLEAN
    /\ trouble' = FALSE
    /\ UNCHANGED <<clockVars, tries, healthy, moved>>

-----------------------------------------------------------------------------
(***************************************************************************)
(* setup().  There is no heartBeat() before the wait for a position.        *)
(***************************************************************************)

\* getInterfaceMAC().  After MaxTries failures one more attempt is made, and
\* the board rebooted whatever it finds.
FindMAC ==
    /\ at = "mac"
    /\ tries < MaxTries
    /\ \/ /\ Goto("config")
          /\ UNCHANGED <<tries, trouble>>
       \/ /\ ~healthy
          /\ spent >= Pause
          /\ Goto("mac")
          /\ tries' = tries + 1
          /\ trouble' = TRUE
    /\ UNCHANGED <<clockVars, healthy, dogVars, taskVars>>

GiveUpMAC ==
    /\ at = "mac"
    /\ tries = MaxTries
    /\ GoDown
    /\ UNCHANGED dogVars

\* while (!Config::checkServerConfig()) delay(5 s).
SetupConfig ==
    /\ at = "config"
    /\ \/ Goto("sync") /\ UNCHANGED trouble
       \/ ~healthy /\ Goto("config") /\ trouble' = TRUE
    /\ UNCHANGED <<clockVars, tries, healthy, dogVars, taskVars>>

\* One NTP::sync(), whatever it returns; Config::hasPosition() decides the rest.
SetupSync ==
    /\ at = "sync"
    /\ Goto("top") \/ Goto("position")
    /\ UNCHANGED <<clockVars, tries, healthy, dogVars, trouble, taskVars>>

\* The wait for SENDGPS: a beat, checkCommandPacket(), a delay of 200 ms.
AwaitPosition ==
    /\ at = "position"
    /\ Guard!Beat
    /\ trouble' = FALSE
    /\ Goto("listen")
    /\ UNCHANGED <<clockVars, tries, healthy, taskVars>>

Delay ==
    /\ at = "delay"
    /\ spent >= Pause
    /\ Goto("top") \/ Goto("position")
    /\ UNCHANGED <<clockVars, tries, healthy, dogVars, trouble, taskVars>>

-----------------------------------------------------------------------------
(***************************************************************************)
(* loop().                                                                  *)
(***************************************************************************)

\* Mutant: loop() without heartBeat().
TopUnbeaten ==
    /\ at = "top"
    /\ spent >= Pause
    /\ trouble' = FALSE
    /\ Goto("command")
    /\ UNCHANGED <<clockVars, tries, healthy, dogVars, taskVars>>

Top ==
    /\ at = "top"
    /\ spent >= Pause
    /\ Guard!Beat
    /\ trouble' = FALSE
    /\ Goto("command")
    /\ UNCHANGED <<clockVars, tries, healthy, taskVars>>

\* checkCommandPacket(), here and in the wait for a position.  GETINFO has it measure
\* the latency, which takes time.
Obey ==
    /\ \/ at = "command" /\ Goto(Order[1])
       \/ at = "listen" /\ Goto("delay")
    /\ UNCHANGED <<clockVars, tries, healthy, dogVars, trouble, taskVars>>

\* It reads a REBOOT, in DEBUG builds a GETINFO or a RESET; or a configuration
\* names an upgrade.
Ordered ==
    /\ \/ at \in {"command", "listen", "config"}
       \/ at = "cfg" /\ called
    /\ GoDown
    /\ UNCHANGED dogVars

\* Mutant: the end of the interval computed, as NetworkManager::ping() does, and
\* not the time elapsed.
DueAtDeadline(t) == clock >= last[t] + Interval[t]

Due(t) == Elapsed(clock, last[t]) >= Interval[t]

\* Where the thread goes when it is done with a task.
After(t) ==
    IF t = Order[Len(Order)]
       THEN "top"
       ELSE Order[1 + CHOOSE i \in 1 .. Len(Order) - 1 : Order[i] = t]

NotDue(t) ==
    /\ at = t /\ ~called
    /\ ~Due(t)
    /\ Goto(After(t))
    /\ UNCHANGED <<clockVars, tries, healthy, dogVars, trouble, taskVars>>

Enter(t) ==
    /\ at = t /\ ~called
    /\ Due(t)
    /\ called' = TRUE
    /\ UNCHANGED <<clockVars, at, second, tries, healthy, dogVars, spent, trouble, taskVars>>

\* A tick() may post a trace whose time is over, and then an alert, too.
TraceSent ==
    /\ at = "seismo" /\ called
    /\ ~second
    /\ second' = TRUE
    /\ spent' = 0
    /\ UNCHANGED <<clockVars, at, called, tries, healthy, dogVars, trouble, taskVars>>

Ran(t) ==
    /\ age' = IF t = Watched THEN 0 ELSE age
    /\ moved' = (moved /\ t # Watched)
    /\ Goto(After(t))
    /\ UNCHANGED <<clockVars, tries, healthy, dogVars>>

\* Mutant: the time is not noted.
ReturnUnnoted(t) ==
    /\ at = t /\ called
    /\ t # "log"
    /\ Ran(t)
    /\ UNCHANGED <<last, trouble>>

\* The call returns, and the time is noted.  A sync that failed does not: it is
\* tried again at once, as often as it fails.
Return(t) ==
    /\ at = t /\ called
    /\ t # "log"
    /\ Ran(t)
    /\ last' = [last EXCEPT ![t] = clock]
    /\ UNCHANGED trouble

\* Log::rotate(): logRotationMs stays.
Rotate ==
    /\ at = "log" /\ called
    /\ Ran("log")
    /\ UNCHANGED <<last, trouble>>

SyncAgain ==
    /\ at = "ntp" /\ called
    /\ ~healthy
    /\ spent' = 0
    /\ trouble' = TRUE
    /\ UNCHANGED <<clockVars, at, called, second, tries, healthy, dogVars, taskVars>>

\* The net task finds no MAC address.
InterfaceLost ==
    /\ at = "net" /\ called
    /\ ~healthy
    /\ GoDown
    /\ UNCHANGED dogVars

-----------------------------------------------------------------------------
(***************************************************************************)
(* The world around the thread.                                             *)
(***************************************************************************)

Blocked == called \/ at \in {"top", "command"} \cup (Setup \ {"position"})

Limit ==
    IF at \in {"top", "mac", "delay"} THEN Pause
    ELSE IF at \in {"command", "listen"} THEN Command
    ELSE Answer

\* A call may take as long as it likes where the network is not healthy, a delay() not.
Bounded == healthy \/ at \in {"top", "delay"}

\* Mutant: millis() does not wrap.
TickUnwrapped ==
    /\ Blocked
    /\ at # "log"
    /\ Bounded => spent < Limit
    /\ Guard!Wait
    /\ clock < Wrap
    /\ clock' = clock + 1
    /\ spent' = IF spent < Answer THEN spent + 1 ELSE spent
    /\ UNCHANGED <<clockSteps, at, called, second, tries, healthy, trouble, taskVars>>

\* A second passes: not over the end of a delay(), nor over an answer.
Tick ==
    /\ Blocked
    /\ at # "log"
    /\ Bounded => spent < Limit
    /\ Guard!Wait
    /\ clock' = Millis(clock + 1)
    /\ age' = IF age \in {Never, Wrap} THEN age ELSE age + 1
    /\ moved' = (moved \/ age' = Wrap)
    /\ spent' = IF spent < Answer THEN spent + 1 ELSE spent
    /\ trouble' = (trouble \/ spent >= Limit)
    /\ UNCHANGED <<clockSteps, at, called, second, tries, last, healthy>>

\* NTP or anyone else sets the clock; that may excuse the dog.
ClockStep ==
    /\ clockSteps < MaxSteps
    /\ clockSteps' = clockSteps + 1
    /\ \E s \in Steps : clock' = Millis(clock + s)
    /\ at # "down"
    /\ Guard!Excuse
    /\ moved' = TRUE
    /\ UNCHANGED <<at, called, second, tries, last, healthy, spent, trouble, age>>

\* A network that comes back answers a pending call within Answer from then.
NetworkChanges ==
    /\ healthy' = ~healthy
    /\ IF healthy THEN UNCHANGED <<spent, trouble>>
                  ELSE spent' = 0 /\ trouble' = TRUE
    /\ UNCHANGED <<clockVars, at, called, second, tries, dogVars, taskVars>>

Bark ==
    /\ at # "down"
    /\ Guard!Bark
    /\ GoDown

\* The dog has a reason to reboot and no interface has an address: it dies of the
\* message that says so (see Watchdog).
DogDies ==
    /\ at # "down"
    /\ ~healthy
    /\ ~barked
    /\ quiet > Early \/ hasty
    /\ blind' = TRUE
    /\ Guard!Excuse
    /\ UNCHANGED <<clockVars, at, called, second, tries, healthy, quiet, hasty, barked,
                   spent, trouble, taskVars>>

Next ==
    \/ Boot
    \/ FindMAC
    \/ GiveUpMAC
    \/ SetupConfig
    \/ SetupSync
    \/ AwaitPosition
    \/ Delay
    \/ Top
    \/ Obey
    \/ Ordered
    \/ \E t \in Tasks : NotDue(t) \/ Enter(t) \/ Return(t)
    \/ TraceSent
    \/ Rotate
    \/ SyncAgain
    \/ InterfaceLost
    \/ Tick
    \/ ClockStep
    \/ NetworkChanges
    \/ Bark
    \/ DogDies

Spec == Init /\ [][Next]_vars

\* The processor goes on with the thread, time passes, local calls and those to
\* an answering network return, and a dog that sees barks at last.  A call to
\* the network as such may hang: HTTPClient and Tcp read without a timeout.
FairSpec ==
    /\ Spec
    /\ WF_vars(\/ Boot \/ FindMAC \/ GiveUpMAC \/ AwaitPosition \/ Delay \/ Top \/ Rotate
               \/ \E t \in Tasks : NotDue(t) \/ Enter(t))
    /\ WF_vars(healthy /\ (SetupConfig \/ SetupSync \/ Obey \/ \E t \in Tasks : Return(t)))
    /\ WF_vars(Tick)
    /\ WF_vars(quiet >= Late /\ ~blind /\ Bark)

-----------------------------------------------------------------------------
(***************************************************************************)
(* Properties.                                                              *)
(***************************************************************************)

\* The dog reboots a board only if, since the last beat of setup() or loop(), a call
\* failed, was slow or met a dead network - or the dog has an excuse.  A pass may hold a
\* GETINFO's two pings, the calls of the net, cfg and ntp tasks, the trace and the alert of
\* one tick(), and a delay(); the dog's patience covers them all, and setup():
\* Command + 5 * Answer + Pause <= Early.
RebootOnlyInTrouble == barked => trouble \/ hasty

\* galileo-core.cpp:30: a task runs when its interval has passed since its last
\* execution, never sooner, unless the clock was stepped in between.
NotTooSoon ==
    [][(at = Watched /\ ~called /\ called' /\ age # Never /\ ~moved)
           => age >= Interval[Watched]]_vars

\* galileo-core.cpp:30: no pass leaves a task behind: at the end of one, every task that has run
\* before was run, or had its interval end, no earlier than within this pass -
\* a wrap of millis() between the two runs makes no difference.
NotLate ==
    [][(at = Order[Len(Order)] /\ at' = "top" /\ age' # Never /\ ~moved' /\ quiet <= Late)
           => age' < Interval[Watched] + quiet]_vars

\* main(), setup() and loop(): whatever hangs or fails, and for how long, the board never stays silent: it
\* comes to its next heartBeat(), if need be after a reboot - unless the dog is
\* missing or blinded by a step of the clock.
AlwaysAlive == []<>(quiet = 0 \/ blind)

\* loop(): as long as the network answers and nobody reboots the board, the seismometer
\* ticks again and again.
ServesWhenHealthy ==
    <>[](healthy /\ at \notin {"down", "position"}) => []<>(at = "seismo" /\ called)
=============================================================================
