# galileo-terremoti in TLA+

A verification project for the SeismoCloud sensor (`src/`): one C++ program on a
small board that reads an accelerometer, compares each reading with a running
threshold, alerts a server, and is configured by that server and by a mobile app.
Modules, runs, mutants, the map from definitions to source lines, findings,
hazards and theorems are listed in `PROJECT.json`; this file explains them.

    tlc -workers 2 -config MCCore.cfg MCCore.tla      # a run
    tlapm CoreProofs.tla                              # the proofs of a module

## 1. The system

Almost everything runs in **one thread**: `main()` calls `setup()` once and then
`loop()` for ever, and every call in them may block. Around it are a second
process (the watchdog), a second thread that drives the LEDs, in DEBUG builds
a third one that sends crash reports, and the system clock, which the
program itself steps and from which it takes all its timers.

| component | state | operations | interacts with |
|---|---|---|---|
| main loop (`galileo-core.cpp`) | five "last run" times | boot, MAC address, first configuration, first sync, wait for a position, five periodic tasks | calls everything; beats for the watchdog |
| watchdog (`Watchdog.cpp`) | `lastBeat`, a file's modification time, two processes | `launch`, `heartBeat`, the dog's poll | the file and the clock are all it shares with the sketch |
| seismometer (`Seismometer.cpp`) | running mean and squares, threshold, current event | `tick`, new sigma, reset | red LED, blocking alert to the server, configuration |
| NTP (`net/NTP.cpp`) | time noted and `millis()` then, server name, UDP socket | `sync`, `getUNIXTime`, `setNTPServer` | steps the system clock under everyone's feet |
| configuration (`Config.cpp`) | identity, position; a text file | `init`, setters that save, `checkServerConfig` | seismometer, NTP, upgrade |
| command interface (`CommandInterface.cpp`) | UDP socket | DISCOVERY, PING, SENDGPS, SETSYSLOG, REBOOT, GETINFO, RESET, TRACE | setters of the configuration, log, reboot |
| time base (`Utils::millis`) | - | 32 bits of the wall clock in ms | every timer subtracts two of its values |
| HTTP and TCP (`net/HTTPClient.cpp`, `net/Tcp.cpp`) | a socket, an answer, the base URL; reports on the board | configuration, alert, trace upload; crash reports (DEBUG) | block their thread; the crash report thread beats for the watchdog |
| network manager (`net/NetworkManager.cpp`) | "connected" flag, a raw socket | `ping`, twice, for the net task and for GETINFO | blocks the thread; reboots when it cannot ping |
| UDP (`net/Udp.cpp`) | sockets for commands, NTP, syslog | listen, receive, connect | - |
| log, trace accumulator | files | open, rotate, close; start, record, upload | close before a reboot |
| descriptors of the process | a table of limited size | taken and given back, or lost, by all of the above | the limit meets all of them at once |
| LEDs | three LEDs, blink and animation flags | set, blink, animate | LED thread and main thread write the same LEDs |
| platform, accelerometers | devices | reboot, upgrade, readings | - |

What is hard here, and what makes each part correct:

* *The two processes.* The dog must not reboot a healthy board (accuracy) and must
  reboot a silent one in time (completeness), with unlucky phases of two timers,
  a file that may be somebody else's, and a clock that steps.
* *A clock that wraps and is stepped.* Timers must be neither early nor late; an
  event must end; alerts must keep their distance.
* *One thread of blocking calls.* The sum of the calls between two beats must fit
  the dog's patience; a call that hangs must end somehow; the seismometer must
  get its turn.
* *Datagrams.* `sync()` matches no answer to a question; commands arrive in any
  order and number.
* *Half an answer.* A server may end a connection at any point or say nothing; a report must not be lost, a thread
  hang only where the dog ends it.
* *Descriptors.* Several calls lose one each; at the limit every part fails in its own way, two threads may want the last one, and the board must come back.
* *Crashes.* The configuration file is truncated before it is written, and a
  position is saved in two steps.
* *Incremental statistics* with resets in between must be those of one window.

The list of hazards in `PROJECT.json` gives the line of each, the properties that
would catch it, and for those not covered yet the reason.

## 2. Modules

| module | models | composed of |
|---|---|---|
| `Millis` | `millis()` and the unsigned difference of two values of it, with the lemmas about it; widths `Wrap` and `LongWrap` | |
| `Dog` | abstract: what the watchdog promises the rest of the program | |
| `Watchdog` | sketch, dog, file, clock; implements `Dog` | `Millis`, `Dog` |
| `Core` | `main()`, `setup()`, `loop()` on top of `Dog` | `Millis`, `Dog` |
| `Seismometer` | `tick()`, statistics, events, alerts | `Millis` |
| `NTP` | `sync()`, network, clock step, `getUNIXTime()` | `Millis` |
| `Config` | memory, file, disk, `save()` step by step, crash, power loss | |
| `CommandInterface` | the commands, on top of `Config` | `Config` |
| `Tcp` | sockets, the descriptor table and the connections of the network | |
| `Http` | requests of two threads, call by call; `checkServerConfig()`; crash reports | `Tcp` |
| `NetworkManager` | `ping()` and its two callers | `Millis` |
| `Descriptors` | the whole life of a sketch as far as descriptors go: every part that opens one, the crash report thread of a DEBUG build among them, reboot and dog | `NetworkManager` |
| `Leds` | LED thread, main thread and crash report thread writing the same LEDs | |
| `MC*` | instances for TLC | the module of that name |
| `*Proofs` | theorems | the module of that name |
| `CommandsAndLedsProofs` | theorems of the command interface, the configuration and the LEDs | `Leds`, `CommandInterface` |

Names of variables and actions are those of the source where TLA+ allows it;
variables that no code keeps are marked as history variables, and no guard reads
them (in `Core` the guards of the environment - time, network, dog - do). An
action is one handler or one step between two points at which something else
may happen; the definitions called "Mutant" change one definition the way a
plausible bug would, and `PROJECT.json` says which property each must break.

**Watchdog.** `Beat` is the body of `heartBeat()`: nothing while the file is young, else
touch it, or remove it and reboot. `launch()` has three outcomes (child of init: no dog;
`fork()` failed: reboot; a parent that goes on, with or without a dog).
`PollFindsLife` and `PollFindsDeath` are one turn of the dog's loop after its
`sleep(15)`. `PollCrashes` is the third outcome: while no interface has an address, the message before the
reboot (`Watchdog.cpp:123`) makes `Log::log()` look for the MAC address, `getInterfaceMAC()` log that there is none, and so on,
because the daemon logs at `LEVEL_DEBUG` and its `Config` has no address: the dog dies of its stack. `Init` allows the file of an earlier sketch. The unit is a second, and
the order of events within one is free.

**Dog** is the abstraction `Core` needs: counters of silence, two excuses (`hasty`:
it may bark early, `blind`: late or never) and a bark, after more than `Early` and not later
than `Late`. `Watchdog!RefinesDog` is the refinement, with `Early = Timer - BeatGap` (40 s)
and `Late = Timer + Poll` (75 s). `Core` instantiates the same module as its dog: that is the
assume-guarantee step between the two processes.

**Core.** `at` and `called` are the program counter. `Due`, `Enter`, `Return` and `NotDue` are
the `if` around a task; `Return` notes the time, `Rotate` does not
(as in the code), `SyncAgain` is `while (!NTP::sync())`. A beat is followed by `checkCommandPacket()`
(`Obey`), which takes up to `Command`: a GETINFO pings twice, as the net task does. One `tick()` may post a trace and then an alert: `TraceSent` ends the first
request and begins the second (`second`). That `httpPostFile()` beats while it waits is left out here: it can only shorten a silence, and the other thread's beats are `Http`'s. A call to the network takes
up to `Answer` while the network is healthy, any time otherwise, and may then hang
for ever (`HTTPClient` and `Tcp` read without a timeout). The time a call has taken is
in `spent`; `trouble` says that since the last beat a call failed, was slow or met a dead
network. The clock is `millis()` itself and wraps, so behaviours have no end and need no bound.
A healthy network includes an NTP server with a usable name: with an empty one (`NTP.cpp:90`) the sync spins as if there were no network.

`DogDies` is what `PollCrashes` is here: only while the network is dead, and only when the dog had a reason to bark.

**Tcp, Http.** A thread's `place` is the call of `httpRequest()` (or `httpPostFile()`, which is the same text with a `heartBeat()` in
the wait) it is in. `file` is the kernel's table: lowest number first, so that a number one thread gives back is
the next the other one gets. What travels is a sequence of lines and items that arrive one by one; `Cut` ends a connection within a
line. `ReadAll` is one `read()`: what has arrived. `available()` is `Available \/ AtEnd` as a guard: it blocks until
one of them holds. `ApplyConfig` is all of `checkServerConfig()`. A report is `received` when the server
has its last byte, and only then may it say 200.

**NetworkManager, Descriptors.** `lost` counts descriptors that are open and that nobody will close; `Room` is what is left. `NetworkManager`
gets it as a parameter, `Descriptors` knows it. A task is due at any pass (the timers are `Core`'s), a request of HTTP is one step
that loses a descriptor or not. At the limit: `heartBeat()` removes the file and reboots, `getInterfaceMAC()` finds nothing and
the net task reboots, `getprotobyname()` fails and `ping()` reboots, `sync()` resolves no name and spins, `setTrace()` writes to a
file that is `NULL` and the process dies, a request fails at once. `Reboot` is `platformReboot()` up to its `system()`, which starts a shell
that inherits all open descriptors and needs one of its own (`RebootCommand`); `Log::close()`, just before, gives one back. Without one
the Galileo tries again every five seconds, the Raspberry Pi goes into an endless loop (`RebootFails`, `halted`). A rotation is two steps, `Rotate`
(close, rename) and `Reopen`, which forgets the path (`path`) when it fails.

`Init` chooses between a DEBUG build and another. In a DEBUG build GETINFO falls through to RESET and reboots once its pings are over
(`PingStep`), TRACE is a command, and the crash report thread (`reporter`) runs beside every step of the main thread: it opens the directory,
loses one descriptor for each report in `getInterfaceMAC()`, opens the report, then a socket, and beats while it waits, with
all that `heartBeat()` may do at the limit (`ReporterBeat`, `ReporterReboots`). Between a rotation's two steps the log it writes to is closed
(`WritesToClosedLog`: the process may die of it). `interfered` is the history of what it did to the main thread: took the last descriptor
while that one was about to use it, or closed the log for a reboot of its own.

**Seismometer.** `AddValue` is `addValueToAvgVar()`. The threshold is kept as what it is
computed from (mean, squares, count, sigma), so that comparing a value with it
needs no root. Readings are integers in so small a unit that the divisions leave no remainder:
exact arithmetic in place of doubles.

**NTP.** `net` holds exchanges under way: lost, doubled, late and out of order. `Receive` takes the
first datagram in the socket. Servers are right about the time when they answer, or wrong by
years (`BadEpochs`, below the limit the code tests); a server ahead of the true time is not modelled.

**Config, CommandInterface.** `file` is what processes see, `disk` what a loss of power leaves, and
`save()` is `OpenFile` (truncates), then `WriteFile`, with a possible crash or failure at each.
`ReadBack` is what `%f` and `atofn(.., 8)` make of a coordinate. Any command may
come at any time: that covers lost, doubled, late and reordered datagrams.

**Leds.** A thread is a list of statements still to do (`todo`) - a write of a variable, of a LED, of a flag, a test of a
flag, a delay - and takes a decision when the list is empty. `Set` is two of them, as in `LED::set()`. Time passes, 20 ms at once, only
when all threads wait: what a thread does between two delays takes it less than 20 ms. Without that
assumption a frame begun before `setLedAnimation(false)` could end after `startupBlink()`, 400 ms later, and
`ShowsWhatWasTold` fail; the code has nothing else to exclude it. The names of this module carry its own (`LedsSpec`, `LedsTypeOK`), so that
one module of proofs can extend both it and `CommandInterface`, whose `HandleReboot` is `ShowReboot` here.

## 3. Runs

Every property of a passing run has a mutant of the code that breaks it.

| run | checks | bounds, and why they are enough |
|---|---|---|
| `watchdog` | `TypeOK`, `Accuracy`, `Completeness`, `RefinesDog` | 10 s are one unit: gap 2, timer 6, poll 2. `Wrap` 12 and `MaxTime` 14 let `millis()` wrap within the run; starts just before and just after a wrap; two steps of the clock, -3 and +7 (more than the timer) |
| `seismometer` | `TypeOK`, `ThresholdIsTwoPass`, `AlertSpacing`, `EventEnds` | hold 2, `Wrap` 5 and `MaxTime` 7 (`millis()` wraps within a run, within an event and between two), readings below, above and far above the power-on threshold, three of them per configuration (a second configuration needs two at least to mix windows), one clock step |
| `ntp` | `TypeOK`, `ClockNeverAhead`, `ReportedSettles`, `FreshUnlessLeftover` | two requests (a late answer to the first meets the second), two datagrams in the socket, a wrap, clocks that are right and behind, a server wrong by years |
| `ntp_forced` | `RepliesAwaited` violated | same |
| `command` | `TypeOK`, `AckedSurvives`, `IdentityStable`, `FileMatchesMemory` | two positions, one that loses digits in the file and one whose latitude vanishes in it; no bound on commands, crashes, power losses |
| `core` | `TypeOK`, `RebootOnlyInTrouble`, `NotTooSoon`, `NotLate` | all five tasks, `Answer = Command = Pause = 1`, `Early = 7` (exactly a command, five answers and a pause; with 6 the run finds a healthy pass that the dog ends), `Wrap` 4, one retry for the MAC address; the clock is not stepped (both timer properties except such steps), but boards start with and without an excuse of the dog; 4.6 million states |
| `core_live` | `AlwaysAlive`, `ServesWhenHealthy` | three tasks (one that repeats, one that ticks, one that does not note its time), `Early = 5`, `Wrap` 5, one step of the clock, at any moment |
| `core_rotation` | `NotTooSoon` violated | `core` with the log as the watched task |
| `leds` | `LedsTypeOK`, `ShowsWhatWasTold`, `Rotates`, `Blinks` | two rounds of `startupBlink()`, frames of two units and blinks of three (neither divides the other); a DEBUG build, in which the crash report thread may also be missing, so both builds are checked |
| `http` | `TypeOK`, `OwnSocket`, `ReportKept`, `ConfigBegins`, `OnlySilenceHangs`, `BeatsEnd` | four descriptors: the directory, the one that the report's `getInterfaceMAC()` loses, and one for each thread, so that a single further one is missed by the next call; one crash report; configurations of two items (a read may cut them) and of an upgrade; any number of requests of the main thread |
| `http_whole` | `ConfigIsWhole` violated | same |
| `descriptors` | `TypeOK`, `PingInTime`, `PingWaits`, `StuckOnlyIfFailed`, `LogSurvives`, `BoardComesBack` | four descriptors: the directory and a report of the crash report thread, the log, and one more, for which a trace, a ping and what is lost compete; one lost at the start or none; builds with and without DEBUG; `ping()` waits 2 units and `millis()` wraps at 4, from any instant, so that waits end before, at and beyond the wrap; a 64-bit build (`LongWrap` 64), whose wait over the wrap is the longer one |

Deadlock is checked in `command`, `core*` and `leds`, whose behaviours have no end. The
others stop at a bound on real time (`MaxTime`), at a reboot, an upgrade or a crash (`http`), or hang where nobody is left to
reboot them (`descriptors`: `Stuck`, or no dog), and say so in their cfg.

**What the properties say.** `Accuracy`: the dog reboots only when the process is gone or
silent for 40 s; two exceptions the code really has are named (clock stepped forward; no file of this
sketch yet). `Completeness`: a silent sketch is rebooted within 75 s, unless the clock went back or the
sketch never wrote its file - then possibly never. `ThresholdIsTwoPass`: the incremental threshold is that of
the textbook formula over one window and one sigma. `AlertSpacing`, `EventEnds`: five seconds, neither less nor
(at the next reading) more, across a wrap; for a first reading a whole wrap later (49 days without one) the event is young again, and `EventEnds`
says nothing of it. `ClockNeverAhead`, `FreshUnlessLeftover`: what late answers can
do to the clock. `ReportedSettles`: `getUNIXTime()` is off by no more than the last step.
`AckedSurvives`: an acknowledged position is what a restart brings back, both halves of it, unless the file was
torn. `RebootOnlyInTrouble`: the calls of one pass, and `setup()`, which does not beat, fit the dog's
patience. `NotTooSoon`, `NotLate`: the periodic tasks, across wraps. `AlwaysAlive`: whatever hangs, the board beats
again. `ServesWhenHealthy`: the seismometer gets its turn for ever. `ShowsWhatWasTold`: no race of the start leaves a wrong LED in the loop.
`OwnSocket`: no thread reads, or closes, the other one's connection; the one exception is the `shutdown()` after `close()` in
`connectTo()`. `ReportKept`: a crash report is removed only when the server has all of it. `ConfigBegins`: what is applied as a configuration
begins one that a server sent, without a header, a gap or a line of another answer in it (that it is a whole one is false: `http_whole`). `OnlySilenceHangs`: the only thing that keeps a request from
ending is a server that holds the connection and sends nothing - what `Core` takes for a call that hangs. `BeatsEnd`: the crash
report thread does not keep the dog quiet for ever. `PingInTime`, `PingWaits`: `ping()` waits neither longer nor shorter than it is told, but for the wraps
named. `LogSurvives`: a rotation at the limit of descriptors does not end the log. `StuckOnlyIfFailed`: a board that hangs - a reboot without a descriptor for its
shell, a `sync()` without one for its name - has left the dog a file to judge by, and the Raspberry Pi's one try to reboot succeeds. Both have two exceptions, and name them: a file system that failed, and
the crash report thread of a DEBUG build (`interfered`). The latter the code does not prevent. Between `fclose()` and `fopen()`, or `Log::close()` and `system()`, the thread may take the
descriptor that was given back (`HTTPClient.cpp:389`, `:403`, `:215`, or `connectTo()`); and its own `heartBeat()` at the limit (`HTTPClient.cpp:261`) removes the heartbeat file and
closes the log while the main thread goes on: should the reboot find no descriptor and the main thread hang before its next beat, the dog takes the missing file
for a beat and nobody reboots the board. What the two properties show is that the loss of descriptors does nothing of the kind without it. `BoardComesBack`: a sketch without descriptors is rebooted,
by itself or by the dog, unless it is stuck for good in the way `StuckOnlyIfFailed` excuses; that part holds with the crash report thread, too.

What they do not say: the red LED is excepted from `ShowsWhatWasTold` where crash reports run; `Rotates` and `Blinks` are about the progress of one thread and no
race of two; the properties of `command` except torn files, so that the windows in `save()` and in SENDGPS are modelled and not excluded.

**Fairness.** `Http`: weak fairness of each thread's steps, and nothing of the other side. `Descriptors`: weak fairness of the thread's
steps and of the bark (`Core`'s `AlwaysAlive`: a silence ends); strong fairness of time in a wait, since a flood of packets
does not stop the clock, and of the net task, which is due every 30 s (`Core`'s `NotLate`) and not starved by passes at which it is not; strong fairness of the end of the directory of crash
reports, which has an end (`BeatsEnd` shows the same of `Http`); nothing else of that thread: a request of it may hang. `Leds`: weak fairness of each thread's statements, the LED thread's turns and time. `Core` (`FairSpec`): weak fairness of: the thread's local steps (the processor runs
it); the return of a network call *while the network is healthy*; the passing of time; and the bark of a
dog that has seen `Late` of silence. Each is what the platform gives: one runnable thread, a server that
answers, a clock, and `RefinesDog`, by which silence cannot grow past `Late`. No fairness is assumed of a
call to a network that is not healthy: it may hang for ever, and the dog is what makes `AlwaysAlive` true.

**Findings** (runs that expect a violation): `sync()` that after one incoherent answer reads no other (`ntp_forced`); the log rotated at
every pass after 24 hours (`core_rotation`); half a configuration applied as a whole one, because the body is taken by a
single `read()` (`http_whole`).

Disagreements that were met while modelling and need no run, since one line shows each: the first reading of every start is a
shake, because the threshold is then 1 and gravity is in the reading (`Seismometer.h:71`); `getUNIXTime()` is off by the
step of the `sync()` that set the clock (`NTP.cpp:119`; `ReportedSettles` is what does hold); GETINFO falls through to RESET in DEBUG
builds (`CommandInterface.cpp:211`); an upgrade blinks red (`vendor/raspi/generic.cpp:44`), and rotates with the others when the first configuration asks for it, where
`src/README.md:46` says "Red ONLY still: reboot/upgrade in progress". And one that takes the whole of `Descriptors`: "If no MAC Address detect we presume that ethernet
interface is down, so we'll reboot" (`galileo-core.cpp:245`) - with 1024 descriptors and one lost every 30 s, a board with the best
of interfaces is rebooted by that line every eight and a half hours.

## 4. Proofs

For every value of the constants (widths, intervals, number of datagrams, clocks), under the named
assumptions next to the constants:

| theorem | states | argument |
|---|---|---|
| `Millis!ElapsedCoversGap`, `ElapsedWithinGap` | the unsigned difference is at least (instants within a wrap) and, on a 32-bit build, at most the time between | quotients of the two instants; the difference of them is 0 or 1 wrap |
| `WatchdogProofs!CompletenessHolds` | `[]Completeness` | the file is at most `BeatGap` younger than the last beat's time and the dog wakes every `Poll`: while the dog sleeps, at its last poll the file was fresh |
| `WatchdogProofs!AccuracyHolds` | `[]Accuracy` | needs that a beat that leaves the file alone found it at most `BeatGap` old: `ElapsedCoversGap`, with the gap of file and `lastBeat` below a wrap by completeness |
| `WatchdogProofs!RefinesDogHolds` | `Spec => Guard!Spec` | every action maps to a `Dog` action or a stutter; `Wait` uses completeness, `Bark` accuracy |
| `SeismometerProofs!AlertSpacingHolds` | `AlertSpacing`, if `LongWrap = Wrap` | between alerts, undisturbed, the wall clock has run as far as real time, and `ElapsedWithinGap` |
| `SeismometerProofs!EventEndsHolds` | `EventEnds` | `AlertNoted`: what the code notes of an alert is `millis()` of that moment, wherever the wall clock is now; `ElapsedCoversGap` |
| `SeismometerProofs!ThresholdIsTwoPassHolds` | `[]ThresholdIsTwoPass`, if averages are exact in the unit of the readings (`ExactUnit`) | `StatsInv`: the running average and deviation describe the window (`Describes`), the threshold describes the window it was computed from; a step of the one-pass formula keeps that, which is algebra (`WelfordMean`, `WelfordDeviation`, `DistancesBySquares`) |
| `NTPProofs!ClockNeverAheadHolds` | `[]ClockNeverAhead` | every answer under way or in the socket carries a time not after now |
| `NTPProofs!ReportedSettlesHolds` | `[]ReportedSettles`, if `LongWrap = Wrap` | `unixTimeUpdate` is `millis()` of the wall clock at the note |
| `NTPProofs!FreshUnlessLeftoverHolds` | `FreshUnlessLeftover` | `OwnAnswers`: a sync with nothing left over has only answers to its own requests under way and in the socket, and those were sent after the call |
| `CoreProofs!RebootOnlyInTroubleHolds` | `[]RebootOnlyInTrouble`, if the tasks have the order of `loop()` and `Command + 5 Answer + Pause <= Early` | `SilenceCovered`: without trouble the silence is bounded by a budget of the place the thread is at, plus what the present call has taken |
| `CoreProofs!NotTooSoonHolds` | `NotTooSoon` for every task but the log rotation, if `LongWrap = Wrap` | `AgeShown`: `millis()` has run as far as the time since the last run, and wraps once at most |
| `CoreProofs!NotLateHolds` | `NotLate` for every task but the log rotation, if each task has one turn in a pass (`OncePerPass`) | `Fresh`: once the pass has been at the task, its interval has not ended, or only within the pass |
| `HttpProofs!SocketsAreOwn` | `[]OwnSocket` | `OwnInv`: a thread outside a request holds no number (`HoldsNone`), inside one it does (`HoldsOne`); every step of one thread spares the descriptors of the other (`Spares`) |
| `HttpProofs!ReportsAreKept` | `[]ReportKept` | `AnswerIsOwn`: a 200 under way to the reporter is in its present socket and means that the server has the report; what a step does to a connection never makes a 200 of nothing (`Fades`) |
| `HttpProofs!ConfigBeginsHolds` | `[]ConfigBegins` | `BeginsInv`: what has arrived for the main thread and what is still to come are together the rest of one answer, from the place on that the thread has come to (`IsRest`), or announce no body (`Bodiless`); below |
| `DescriptorsProofs!PingEndsInTime`, `PingGivesTime` | `[]PingInTime`, `PingWaits` | `WaitInv`: within a wait the clock is its start plus the time waited |
| `DescriptorsProofs!LoggingGoesOn` | `[]LogSurvives` | `OutInv`: a sketch at work has a log (`SketchLogs`), and a rotation has the descriptor that it gave back, and the name (`WayBack`), or an excuse; below |
| `DescriptorsProofs!AlwaysAWayOut` | `[]StuckOnlyIfFailed` | `OutInv`: a reboot has the descriptor that `Log::close()` gave back (`WayOut`), a dog has a file until the sketch is on its way to a reboot (`DogSees`), or there is an excuse; below |
| `CommandsAndLedsProofs!AckedSurvivesHolds`, `IdentityStableHolds`, `FileMatchesMemoryHolds` | `[]AckedSurvives`, `[]IdentityStable`, `[]FileMatchesMemory` | `CommandInv`: what holds while the program is down, in service, and within a save; below |
| `CommandsAndLedsProofs!ShowsWhatWasToldHolds` | `LedsSpec => []ShowsWhatWasTold` | `LedsInv`: below |
| `TypeCorrect` of `Watchdog`, `Seismometer`, `NTP`, `Core`, `Http`, `Descriptors`, `CommandInterface`; `LedsTypeCorrect` | `[]TypeOK`, `[]LedsTypeOK` | one step per action; those of `Leds` are a part of `LedsInv` |

`RebootOnlyInTrouble` alone is not inductive: it says nothing of the silence before a bark. `SilenceCovered` does, place by
place: nothing after a beat, a command before the network task, a command and three answers before a `tick()`, two more answers in it (a trace and an alert), a delay at the end of the pass,
and the waits of `setup()`, which are shorter than that. `PassFits` is the assumption of that theorem: the
order of `loop()` is fixed by the code, the command and the five answers are not; with the 2 s a GETINFO may take, the 10 s of a TCP connection, the 5 s of an NTP answer and
40 s of patience they are a real condition on the network.

`LogSurvives` and `StuckOnlyIfFailed` say what is so at the limit; `OutInv` says why it does not come to that. Every step of the main thread at work leaves the log alone (`AtWork`), closes it on
the way to a reboot, which leaves room for one descriptor (`OnTheWay`, `LogGivesRoom`), or rotates it (`RotationNoticed`). The crash report thread can take that room only in a step
that sets `interfered` (`ReporterNoticed`, by `RoomBeside`: one descriptor at most in a step), and an excuse stays till the end of the run (`ExcuseStays`). The conjunct that needs the
order of the code most is `DogSees`: only `heartBeat()` removes the file, and it goes on to the reboot.

`AckedSurvives` and its companions are not inductive either: each speaks of the file, or of memory, at rest. `CommandInv` has a part for every state
the program can be in. While it is down only the file counts (`WhileDown`: it says who the sensor is and, to the digits it keeps, what was acknowledged);
in service file and memory say the same (`InService`); within a save nothing is known of the file, but everything of what will be
written to it (`WithinSave`, with `OwnIdentity`). A position goes through the file again at every start: `ReadBackOnce` says that
a second time changes nothing, because what is cut off stays cut off.

`ConfigBegins` speaks of a configuration that is applied; `BeginsInv` of the answer on its way. The other side moves a piece of it, ends the
connection or cuts a header line (`MovesKeep`): what is lost is lost at the end, so that a rest stays a rest, and a header line that is cut was the one that
announces a body, after which none is read. The other thread can do no more than end the connection (`ReporterStepKeepsMain`, with `OwnInv`). Each line that is read
moves the rest on by one (`LineLeavesRest`); a second header that announces a body, or a body after fewer than three lines, is excluded by where the rest begins.

`ShowsWhatWasTold` speaks of a list that is done; `LedsInv` of lists that are not. What the main thread has told a LED is true already or the
last word on that LED in its list (`Told`). The LED thread may undo it, as long as a delay and another write of everything are still to come
(`Guarded`, then `Waiting`): that is `startupBlink()`, whose rounds are the one thing between a frame that was begun in time and the loop. Time
passes only when the LED thread has finished its turn, so once that delay is over with all flags off it writes nothing more (`Calm`), and with every flag
off it never begins again. That `startupBlink()` has the form needed, for every number of rounds, is an induction over the rounds.

Two proofs need an induction (over the rounds of `startupBlink()`, over the readings of a window). The library's principle takes an operator as
its parameter; here it is the well-founded order of the naturals, applied to the *set* of numbers for which the claim holds
(`NatSetInduction`): the least number missing from that set leads to a contradiction.

What the theorems assume beyond the constants' own assumptions, and who satisfies it: `LongWrap = Wrap` is the 32-bit build; `PassFits` is the order of
`loop()` and the patience of the dog, `OncePerPass` less than that order, and the instance of `core` satisfies both; `Watched # "log"` leaves out the rotation, of which `NotTooSoon` is false (`core_rotation`);
`ExactUnit` is the premise under which doubles are replaced by integers, satisfied in the run `seismometer` by a unit of 12 (readings 0, 24 and 60, up to three
of them).

Every safety invariant and every action property of a passing run is a theorem. Only model-checked are the liveness properties, which
are out of the prover's reach (fairness and `ENABLED`): `AlwaysAlive`, `ServesWhenHealthy`, `OnlySilenceHangs`, `BeatsEnd`, `BoardComesBack`, `Rotates`, `Blinks`. No module uses a
`RECURSIVE` operator.

## 5. What the models leave out

* Widths: runs take `LongWrap = Wrap`, the 32-bit build of the boards. The lemma `ElapsedCoversGap`, `Accuracy`,
  `Completeness`, `EventEnds` and `NotLate` are proved for a wider `unsigned long` too; `AlertSpacing`, `ReportedSettles` and `NotTooSoon` do not hold there, since a
  difference across a wrap is then almost 2^64.
* Time in seconds (in `Core` in units of an answer); rounding of `getUNIXTime()` to seconds.
* Doubles: rounding, overflow, and the NaN of a deviation of fewer than two readings, which no decision reads.
* A file reaches its reader and the disk in one piece; a file torn in the middle of a line is not modelled: it is less than a block, written by one
  `write()`. `getInterfaceMAC()` finds the same address each time, once `setup()` is past its loop.
* The data race of two threads on the string `HTTPClient::baseUrl`; a server on the board itself (a base URL without a host resolves to
  0.0.0.0, where nothing listens); a body cut within an item.
* In `Http` a beat takes no descriptor and reboots nothing, table full or not; `Descriptors` has that case, and the steps of a report's request as far as they open something.
* In `Descriptors`: steps of the clock within a `ping()`; a first beat of `launch()` that is not due (`Watchdog` has it); the 32-bit case of
  `ping()` over a wrap, which only the theorem covers; the two UDP sockets for commands and NTP, which are never closed and not counted.
* A SETSYSLOG to address 0 only disables the log, which is not modelled; contents of answers to GETINFO are not, either.
* The Linux branch of the dog's test is modelled (the BSD one is its mutant `FileIsFreshByPoll`).
* No MAC address is a value of its own (`NoMAC`), for the empty string of the code.
* An upgrade ends a run like a reboot. DEBUG's valgrind and raw modes are left out.
* Components with status `not_modelled` in `PROJECT.json`.

## 6. Plan

Done: the proofs of every safety property; time base, watchdog, main loop, the three components with the most state, LEDs, HTTP over TCP, network manager, and the
descriptors of the whole process. Next, in this order:

1. An abstract specification of a request, which `Http` implements: each request of each thread is served at most once, and what it returns is what
   the server said to that very request, a failure, or nothing (`Core`'s call that hangs; `OnlySilenceHangs` is the liveness half).
2. SETSYSLOG against `updateFromConfig()`, and the syslog's socket when the server is unset.
3. The platforms without an LED thread.
