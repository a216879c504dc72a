----------------------------- MODULE Descriptors -----------------------------
(***************************************************************************)
(* The descriptors of the sketch over its whole life: who opens one, who      *)
(* keeps it, who loses it, and what each part does when there is none left.  *)
(* It puts together the pass of loop() (galileo-core.cpp), heartBeat(),      *)
(* getInterfaceMAC() and NetworkManager, the log file and the syslog socket  *)
(* (Log.cpp), Udp, the trace file (TraceAccumulator.cpp), platformReboot(), and *)
(* in DEBUG builds the crash report thread (HTTPClient.cpp).                 *)
(*                                                                          *)
(* A task may be due or not at any pass: the timers are Core's.  A call to    *)
(* the network is one step; Tcp and Http have its parts.                     *)
(***************************************************************************)
EXTENDS NetworkManager

CONSTANTS
    Size,       \* descriptors besides the standard ones and the two UDP sockets
    StartLost   \* bound: how many setup() may lose

ASSUME DescriptorsAssumption ==
    /\ Size \in Nat /\ StartLost \in Nat
    /\ StartLost + 1 <= Size

VARIABLES
    at,         \* where the main thread is in loop(), or what became of it
    log,        \* Log::logFile is open
    path,       \* Log::logFilePath is the log's, not ""
    trace,      \* TraceAccumulator::traceFile is open
    watch,      \* WATCHDOG_FILE is there
    dog,        \* there is a watchdog process
    interface,  \* there is an interface with an address
    reporter,   \* where the crash report thread is; "absent" from builds without DEBUG
    \* History variables.
    failed,     \* the file system failed: fopen() with descriptors left
    interfered  \* the crash report thread took a descriptor that the main thread had
                \* just given back to use it, or closed the log to reboot

reporterVars == <<reporter, interfered>>
vars == <<netVars, at, log, path, trace, watch, dog, interface, failed, reporterVars>>

Count(open) == IF open THEN 1 ELSE 0

Debug == reporter # "absent"

\* What the crash report thread has open: the directory, and a report or a socket.
Held ==
    Count(reporter \in {"reading", "posting", "file", "connecting", "request", "rebooting", "halted"})
    + Count(reporter \in {"file", "request", "rebooting", "halted"})

Used == lost + Count(log) + Count(trace) + Count(waiting) + Held
Room == Size - Used

Loop == {"top", "command", "net", "cfg", "ntp", "seismo", "log"}

\* Types; no more descriptors than there are.
TypeOK ==
    /\ NetTypeOK
    /\ at \in Loop \cup {"reopening", "ping", "spinning", "rebooting", "halted", "dead", "off"}
    /\ log \in BOOLEAN /\ path \in BOOLEAN /\ trace \in BOOLEAN
    /\ watch \in BOOLEAN /\ dog \in BOOLEAN /\ interface \in BOOLEAN
    /\ reporter \in {"absent", "ended", "starting", "reading", "posting", "file",
                      "connecting", "request", "rebooting", "halted"}
    /\ failed \in BOOLEAN /\ interfered \in BOOLEAN
    /\ Used <= Size

Init ==
    /\ InitNet
    /\ at = "off"
    /\ log = FALSE /\ path = FALSE /\ trace = FALSE
    /\ watch \in BOOLEAN
    /\ dog \in BOOLEAN /\ interface \in BOOLEAN
    /\ reporter \in {"absent", "ended"}
    /\ failed = FALSE /\ interfered = FALSE

-----------------------------------------------------------------------------
\* Watchdog::launch(), whose beat is taken as due (see Watchdog for one that is not),
\* setup() and, in DEBUG builds, sendCrashReports().  Every message before setMacAddress() looks for the MAC address and
\* loses a socket, as every attempt to find it does.
Boot ==
    /\ at = "off"
    /\ at' = "top"
    /\ lost' \in 0 .. StartLost
    /\ log' \in BOOLEAN
    /\ path' = log'
    /\ failed' = ~log'
    /\ reporter' = IF Debug THEN "starting" ELSE reporter
    /\ dog' \in BOOLEAN
    /\ watch' \in IF dog' THEN {TRUE} ELSE {watch, TRUE}
    /\ UNCHANGED <<pingVars, trace, interface, interfered>>

\* The board goes down, and everything with it.
GoDown ==
    /\ at' = "off"
    /\ lost' = 0
    /\ leg' = "none" /\ purpose' = "none"
    /\ waiting' = FALSE
    /\ startms' = 0
    /\ packet' = "none"
    /\ online' = FALSE
    /\ waited' = 0
    /\ log' = FALSE /\ path' = FALSE /\ trace' = FALSE
    /\ failed' = FALSE /\ interfered' = FALSE
    /\ reporter' = IF Debug THEN "ended" ELSE reporter
    /\ UNCHANGED <<clock, watch, dog, interface>>

\* Mutant: without Log::close().
RebootUnclosed == at' = "rebooting" /\ UNCHANGED log

\* platformReboot() up to its system("reboot"); it does not return.
Reboot ==
    /\ at' = "rebooting"
    /\ log' = FALSE

\* A shell cannot start without a descriptor to load its libraries by: it
\* inherits all those of the sketch.
RebootCommand ==
    /\ at = "rebooting"
    /\ Room > 0
    /\ GoDown

\* The Galileo tries again every five seconds; the Raspberry Pi, only once, goes
\* into an endless loop.
RebootFails ==
    /\ at = "rebooting"
    /\ Room = 0
    /\ at' = "halted"
    /\ UNCHANGED <<netVars, log, path, trace, watch, dog, interface, failed, reporterVars>>

\* The process is gone, or silent for long and its file old.  A file that is not
\* there counts as a heart beat.
Silent ==
    \/ at = "dead"
    \/ at \in {"ping", "cfg", "ntp", "seismo", "spinning", "rebooting", "halted"} /\ watch

\* The dog (see Watchdog) reboots the board.
Bark ==
    /\ dog
    /\ Silent
    /\ GoDown

\* While no interface has an address it dies of it instead (see Watchdog).
DogDies ==
    /\ dog
    /\ ~interface
    /\ Silent
    /\ dog' = FALSE
    /\ UNCHANGED <<netVars, at, log, trace, watch, interface, failed, path, reporterVars>>

-----------------------------------------------------------------------------
(***************************************************************************)
(* A pass of loop().                                                        *)
(***************************************************************************)

\* Not due, or nothing that takes a descriptor.
Pass ==
    /\ \/ at = "top" /\ at' = "command"
       \/ at = "command" /\ at' = "net"
       \/ at = "net" /\ at' = "cfg"
       \/ at = "cfg" /\ at' = "ntp"
       \/ at = "ntp" /\ at' = "seismo"
       \/ at = "seismo" /\ at' = "log"
       \/ at = "log" /\ at' = "top"
    /\ UNCHANGED <<netVars, log, trace, watch, dog, interface, failed, path, reporterVars>>

\* heartBeat() with a beat due.
HeartBeat ==
    /\ at = "top"
    /\ \/ /\ Room > 0
          /\ watch' = TRUE
          /\ at' = "command"
          /\ UNCHANGED <<log, failed>>
       \/ /\ watch' = FALSE
          /\ failed' = (failed \/ Room > 0)
          /\ Reboot
    /\ UNCHANGED <<netVars, trace, dog, interface, path, reporterVars>>

\* setTrace(true); fwrite() of the head to a file that is NULL kills the process.
StartTrace(next) ==
    \/ /\ trace
       /\ at' = next
       /\ UNCHANGED <<trace, failed>>
    \/ /\ ~trace
       /\ Room > 0
       /\ trace' = TRUE
       /\ at' = next
       /\ UNCHANGED failed
    \/ /\ ~trace
       /\ at' = "dead"
       /\ failed' = (failed \/ Room > 0)
       /\ UNCHANGED trace

\* checkCommandPacket(): SETSYSLOG, whose connectTo() forgets the socket before;
\* GETINFO, which measures the latency; TRACE of a DEBUG build; REBOOT, and the
\* RESET of a DEBUG build.
SetSyslog ==
    /\ at = "command"
    /\ lost' = IF Room > 0 THEN lost + 1 ELSE lost
    /\ at' = "net"
    /\ UNCHANGED <<pingVars, log, trace, watch, dog, interface, failed, path, reporterVars>>

GetInfo ==
    /\ at = "command"
    /\ Check("latency")
    /\ at' = "ping"
    /\ UNCHANGED <<log, trace, watch, dog, interface, failed, path, reporterVars>>

CommandTrace ==
    /\ at = "command"
    /\ Debug
    /\ StartTrace("net")
    /\ UNCHANGED <<netVars, log, watch, dog, interface, path, reporterVars>>

CommandReboot ==
    /\ at = "command"
    /\ Reboot
    /\ UNCHANGED <<netVars, trace, watch, dog, interface, failed, path, reporterVars>>

\* Mutants: no look at what socket() returned; no reboot.
NetTaskUnchecked ==
    /\ at = "net"
    /\ lost' = lost + 1
    /\ IF interface
          THEN leg' = "first" /\ purpose' = "check" /\ clock' \in Instant /\ at' = "ping" /\ UNCHANGED log
          ELSE UNCHANGED <<leg, purpose, clock>> /\ Reboot
    /\ UNCHANGED <<waiting, startms, packet, online, waited, trace, watch, dog, interface, failed, path, reporterVars>>

NetTaskPatient ==
    /\ at = "net"
    /\ lost' = IF Room > 0 THEN lost + 1 ELSE lost
    /\ IF Room > 0 /\ interface
          THEN leg' = "first" /\ purpose' = "check" /\ clock' \in Instant /\ at' = "ping"
          ELSE UNCHANGED <<leg, purpose, clock>> /\ at' = "cfg"
    /\ UNCHANGED <<waiting, startms, packet, online, waited, log, trace, watch, dog, interface, failed, path, reporterVars>>

\* The net task: getInterfaceMAC(), which never closes its socket, and the check
\* of the connection.  No socket means no MAC address.
NetTask ==
    /\ at = "net"
    /\ lost' = IF Room > 0 THEN lost + 1 ELSE lost
    /\ IF Room > 0 /\ interface
          THEN leg' = "first" /\ purpose' = "check" /\ clock' \in Instant /\ at' = "ping" /\ UNCHANGED log
          ELSE UNCHANGED <<leg, purpose, clock>> /\ Reboot
    /\ UNCHANGED <<waiting, startms, packet, online, waited, trace, watch, dog, interface, failed, path, reporterVars>>

\* The steps of ping(), and where its caller goes on: in a DEBUG build GETINFO
\* falls through to RESET, which reboots.
PingStep ==
    /\ at = "ping"
    /\ PingNotSent(Room) \/ PingSent(Room) \/ PingReply \/ PingOther \/ PingEnds
    /\ IF leg' = "none" /\ purpose = "latency" /\ Debug
          THEN Reboot
          ELSE /\ at' = IF leg' # "none" THEN "ping" ELSE IF purpose = "check" THEN "cfg" ELSE "net"
               /\ UNCHANGED log
    /\ UNCHANGED <<trace, watch, dog, interface, failed, path, reporterVars>>

PingReboots ==
    /\ at = "ping"
    /\ NoProtocol(Room)
    /\ Reboot
    /\ UNCHANGED <<netVars, trace, watch, dog, interface, failed, path, reporterVars>>

PingWorld ==
    /\ at = "ping"
    /\ PacketArrives \/ PingTick
    /\ UNCHANGED <<at, log, trace, watch, dog, interface, failed, path, reporterVars>>

\* A request of HTTPClient: connectTo() loses its socket when connect() or select()
\* fails, and closes it otherwise; without a descriptor it fails at once.
Request(room) == lost' \in IF room > 0 THEN {lost, lost + 1} ELSE {lost}

\* checkServerConfig(), which may start a trace; an upgrade ends the run.
CfgTask ==
    /\ at = "cfg"
    /\ \/ Request(Room) /\ at' = "ntp" /\ UNCHANGED <<trace, failed>>
       \/ Room > 0 /\ UNCHANGED lost /\ StartTrace("ntp")
    /\ UNCHANGED <<pingVars, log, watch, dog, interface, path, reporterVars>>

Upgrade ==
    /\ at = "cfg"
    /\ Room > 0
    /\ GoDown

\* while (!NTP::sync()): without a descriptor no name is resolved, until the crash
\* report thread gives one back.
NtpTask ==
    /\ at \in {"ntp", "spinning"}
    /\ at' = IF Room > 0 THEN "seismo" ELSE "spinning"
    /\ UNCHANGED <<netVars, log, trace, watch, dog, interface, failed, path, reporterVars>>

\* tick(): a trace whose time is over, an alert, or one after the other.  The trace is
\* closed, posted and removed, whatever became of the post, which beats while it waits;
\* a file that somebody removed, or whose descriptor the crash report thread took,
\* makes httpPostFile() return NULL, which is read.
Alert ==
    /\ at = "seismo"
    /\ Request(Room)
    /\ at' = "log"
    /\ UNCHANGED <<pingVars, log, trace, watch, dog, interface, failed, path, reporterVars>>

EndTrace ==
    /\ at = "seismo"
    /\ trace
    /\ trace' = FALSE
    /\ \/ /\ Request(Room + 1)
          /\ watch' \in IF Room > 0 THEN {watch, TRUE} ELSE {watch}
          /\ UNCHANGED <<at, failed>>
       \/ at' = "dead" /\ failed' = TRUE /\ UNCHANGED <<lost, watch>>
    /\ UNCHANGED <<pingVars, log, dog, interface, path, reporterVars>>

\* The beat of that wait cannot open its file: heartBeat() reboots with the socket open.
UploadReboots ==
    /\ at = "seismo"
    /\ trace
    /\ trace' = FALSE
    /\ lost' = lost + 1
    /\ watch' = FALSE
    /\ failed' = (failed \/ Room > 0)
    /\ Reboot
    /\ UNCHANGED <<pingVars, dog, interface, path, reporterVars>>

\* Mutant: the new file is opened before the old one is closed.
RotateOpensFirst ==
    /\ at = "log"
    /\ log' = (log /\ Room > 0)
    /\ at' = "top"
    /\ UNCHANGED <<netVars, trace, watch, dog, interface, failed, path, reporterVars>>

\* Log::rotate(), that is setLogFile(): close and rename, then reopen.  A log that cannot be
\* reopened is forgotten, its path too.
Rotate ==
    /\ at = "log"
    /\ at' = "reopening"
    /\ log' = FALSE
    /\ UNCHANGED <<netVars, trace, watch, dog, interface, failed, path, reporterVars>>

Reopen ==
    /\ at = "reopening"
    /\ at' = "top"
    /\ \/ path /\ Room > 0 /\ log' = TRUE /\ path' = TRUE /\ UNCHANGED failed
       \/ log' = FALSE /\ path' = FALSE /\ failed' = (failed \/ (path /\ Room > 0))
    /\ UNCHANGED <<netVars, trace, watch, dog, interface, reporterVars>>

-----------------------------------------------------------------------------
(***************************************************************************)
(* The crash report thread of a DEBUG build, sendCrashReportDoWork().  It    *)
(* goes on whatever the main thread does, as long as there is a process.     *)
(***************************************************************************)

ReporterAt(here) == reporter = here /\ at \notin {"off", "dead"}

\* It opens something, perhaps by the descriptor that the main thread is about to use.
Opens ==
    /\ Room > 0
    /\ interfered' = (interfered \/ (Room = 1 /\ at \in {"rebooting", "reopening"}))

\* opendir(); without a directory, or a descriptor, the thread ends.
OpenDirectory ==
    /\ ReporterAt("starting")
    /\ \/ Opens /\ reporter' = "reading"
       \/ reporter' = "ended" /\ UNCHANGED interfered
    /\ UNCHANGED <<netVars, at, log, path, trace, watch, dog, interface, failed>>

\* readdir(), and getInterfaceMAC() for the URL.
NextReport ==
    /\ ReporterAt("reading")
    /\ reporter' = "posting"
    /\ \/ Opens /\ lost' = lost + 1
       \/ UNCHANGED <<interfered, lost>>
    /\ UNCHANGED <<pingVars, at, log, path, trace, watch, dog, interface, failed>>

\* httpPostFile(): the report is opened, read and closed; one that cannot be opened is passed
\* over.
OpenReport ==
    /\ ReporterAt("posting")
    /\ \/ Opens /\ reporter' = "file"
       \/ reporter' = "reading" /\ UNCHANGED interfered
    /\ UNCHANGED <<netVars, at, log, path, trace, watch, dog, interface, failed>>

CloseReport ==
    /\ ReporterAt("file")
    /\ reporter' = "connecting"
    /\ UNCHANGED <<netVars, at, log, path, trace, watch, dog, interface, failed, interfered>>

PostReport ==
    /\ ReporterAt("connecting")
    /\ \/ Opens /\ reporter' = "request"
       \/ reporter' = "reading" /\ UNCHANGED interfered
    /\ UNCHANGED <<netVars, at, log, path, trace, watch, dog, interface, failed>>

\* The request is over, its socket closed, or lost by connectTo().
ReportDone ==
    /\ ReporterAt("request")
    /\ reporter' = "reading"
    /\ lost' \in {lost, lost + 1}
    /\ UNCHANGED <<pingVars, at, log, path, trace, watch, dog, interface, failed, interfered>>

\* heartBeat() while it waits: like the main thread's, it reboots the board when there is no
\* descriptor.
ReporterBeat ==
    /\ ReporterAt("request")
    /\ \/ /\ Room > 0
          /\ watch' = TRUE
          /\ UNCHANGED <<log, failed, reporterVars>>
       \/ /\ watch' = FALSE
          /\ failed' = (failed \/ Room > 0)
          /\ reporter' = "rebooting"
          /\ log' = FALSE
          /\ interfered' = TRUE
    /\ UNCHANGED <<netVars, at, path, trace, dog, interface>>

ReporterReboots ==
    /\ ReporterAt("rebooting")
    /\ IF Room > 0
          THEN GoDown
          ELSE /\ reporter' = "halted"
               /\ UNCHANGED <<netVars, at, log, path, trace, watch, dog, interface, failed, interfered>>

\* It writes a line, or closes the log, between fclose() and fopen() of the main thread: a FILE
\* that is no more.
WritesToClosedLog ==
    /\ at = "reopening"
    /\ path
    /\ reporter \notin {"absent", "ended", "halted"}
    /\ at' = "dead"
    /\ UNCHANGED <<netVars, log, path, trace, watch, dog, interface, failed, reporterVars>>

CloseDirectory ==
    /\ ReporterAt("reading")
    /\ reporter' = "ended"
    /\ UNCHANGED <<netVars, at, log, path, trace, watch, dog, interface, failed, interfered>>

InterfaceChanges ==
    /\ interface' = ~interface
    /\ UNCHANGED <<netVars, at, log, trace, watch, dog, failed, path, reporterVars>>

-----------------------------------------------------------------------------
ThreadStep ==
    \/ Boot \/ RebootCommand \/ Pass \/ HeartBeat
    \/ SetSyslog \/ GetInfo \/ CommandTrace \/ CommandReboot
    \/ NetTask \/ PingStep \/ PingReboots
    \/ CfgTask \/ Upgrade \/ NtpTask \/ Alert \/ EndTrace \/ UploadReboots
    \/ Rotate \/ Reopen

ReporterStep ==
    \/ OpenDirectory \/ NextReport \/ OpenReport \/ CloseReport \/ PostReport
    \/ ReportDone \/ ReporterBeat \/ ReporterReboots \/ WritesToClosedLog \/ CloseDirectory

Next ==
    \/ ThreadStep
    \/ RebootFails
    \/ ReporterStep
    \/ PingWorld
    \/ Bark
    \/ DogDies
    \/ InterfaceChanges

Spec == Init /\ [][Next]_vars

\* The main thread goes on, the dog ends a silence that lasts (Core: AlwaysAlive); time passes
\* in a wait, however many packets arrive; the net task is due again and again (Core: NotLate); a
\* directory has an end.
FairSpec ==
    /\ Spec
    /\ WF_vars(ThreadStep)
    /\ WF_vars(Bark)
    /\ SF_vars(PingWorld /\ PingTick)
    /\ SF_vars(NetTask)
    /\ SF_vars(CloseDirectory)

-----------------------------------------------------------------------------
(***************************************************************************)
(* Properties.                                                              *)
(***************************************************************************)

\* NetworkManager.h:38: while the program runs, ping() fails only when no reply was there in
\* waitms - unless the wrap of millis() is nearer, where a 32-bit build gives up at once.
PingWaits ==
    [][(waiting /\ ~waiting' /\ at' # "off" /\ packet # "reply" /\ ~NearWrap)
        => waited = Timeout]_vars

\* A reboot without a descriptor for its shell, a sync() without one for the name of its server,
\* a ping() whose deadline is beyond the wrap of millis().
Hung ==
    \/ at = "halted"
    \/ at \in {"rebooting", "spinning"} /\ Room = 0
    \/ at = "ping" /\ waiting /\ NearWrap /\ LongWrap > Wrap

\* heartBeat() has removed the heartbeat file, which tells the dog that all is well: the board
\* hangs for good.
Stuck == Hung /\ dog /\ ~watch

\* The loss of descriptors alone never does that, nor makes it fail the one time that the
\* Raspberry Pi tries to reboot, since Log::close() gives one back just before: it takes a file
\* system that failed or, in a DEBUG build, a crash report thread that opened something at that
\* moment (HTTPClient.cpp:403), or wanted to reboot the board itself.
StuckOnlyIfFailed == Stuck \/ at = "halted" => failed \/ (Debug /\ interfered)

\* Log.cpp: a rotation does not end logging for want of a descriptor, whatever has been lost.
\* In a DEBUG build the crash report thread may take the one between fclose() and fopen(), or
\* close the log for a reboot of its own.
LogSurvives == (at \in Loop \cup {"ping"} /\ ~log) => failed \/ (Debug /\ interfered)

\* A sketch that has run out of descriptors, as every one does in time, is rebooted and
\* starts afresh - by itself or, where it spins or dies of it, by the dog - unless it is stuck
\* for good.
BoardComesBack == (Room = 0) ~> (at = "off" \/ ~dog \/ []Stuck)
=============================================================================
