-------------------------- MODULE DescriptorsProofs --------------------------
(***************************************************************************)
(* Theorems of Descriptors, for every number of descriptors, every width of  *)
(* millis() and of unsigned long and every time to wait for an answer.       *)
(***************************************************************************)
EXTENDS Descriptors, TLAPS

USE MillisAssumption, NetworkAssumption, DescriptorsAssumption

\* Everything of TypeOK but the count.
ProcessOK ==
    /\ at \in Loop \cup {"reopening", "ping", "spinning", "rebooting", "halted", "dead", "off"}
    /\ log \in BOOLEAN /\ path \in BOOLEAN /\ trace \in BOOLEAN
    /\ watch \in BOOLEAN /\ dog \in BOOLEAN /\ interface \in BOOLEAN
    /\ reporter \in {"absent", "ended", "starting", "reading", "posting", "file",
                      "connecting", "request", "rebooting", "halted"}
    /\ failed \in BOOLEAN /\ interfered \in BOOLEAN

LEMMA TypeParts == TypeOK <=> NetTypeOK /\ ProcessOK /\ Used <= Size
    BY DEF TypeOK, ProcessOK

LEMMA NextTypeParts == TypeOK' <=> NetTypeOK' /\ ProcessOK' /\ (Used <= Size)'
    BY DEF TypeOK, ProcessOK

\* ping() has its socket open only while it is under way.
SocketInPing == waiting => at = "ping" /\ leg # "none"

\* A sketch starts without a trace and before its crash report thread.
NothingWhenOff == at = "off" => ~trace /\ reporter \in {"absent", "ended"}

TypeInv == TypeOK /\ SocketInPing /\ NothingWhenOff

-----------------------------------------------------------------------------
\* The descriptors that the thread has left.
LEMMA CountTyped ==
    ASSUME TypeOK
    PROVE  /\ Count(log) \in 0 .. 1 /\ Count(trace) \in 0 .. 1 /\ Count(waiting) \in 0 .. 1
           /\ Held \in 0 .. 2
    BY DEF TypeOK, NetTypeOK, Held, Count

LEMMA HeldBy ==
    /\ reporter \in {"absent", "ended", "starting"} => Held = 0
    /\ reporter \in {"reading", "posting", "connecting"} => Held = 1
    /\ reporter \in {"file", "request", "rebooting", "halted"} => Held = 2
    BY DEF Held, Count

LEMMA HeldByNext ==
    /\ reporter' \in {"absent", "ended", "starting"} => Held' = 0
    /\ reporter' \in {"reading", "posting", "connecting"} => Held' = 1
    /\ reporter' \in {"file", "request", "rebooting", "halted"} => Held' = 2
    /\ UNCHANGED reporter => Held' = Held
    BY DEF Held, Count

LEMMA RoomLeft ==
    ASSUME TypeOK
    PROVE  /\ Used \in Nat /\ Room \in Nat
           /\ Room = Size - Used
    BY CountTyped DEF TypeOK, NetTypeOK, Used, Room

\* Nothing but a flag and the place changes, or a file is closed: the types stay.
LEMMA DownTyped ==
    ASSUME TypeOK, GoDown
    PROVE  TypeOK' /\ ~waiting'
<1>1. NetTypeOK'
    <2>1. 0 \in Instant /\ 0 \in 0 .. Timeout + 1 /\ 0 \in Nat
        BY DEF Instant
    <2> QED
        BY <2>1 DEF TypeOK, NetTypeOK, GoDown
<1>2. ProcessOK'
    BY DEF TypeOK, ProcessOK, reporterVars, GoDown
<1>3. (Used <= Size)'
    <2>1. reporter' \in {"absent", "ended"}
        BY DEF GoDown, Debug
    <2>2. Used' = 0
        BY <2>1, HeldByNext DEF GoDown, Used, Count
    <2> QED
        BY <2>2
<1> QED
    BY <1>1, <1>2, <1>3, NextTypeParts DEF GoDown

LEMMA RebootTyped ==
    ASSUME TypeOK, Reboot, watch' \in BOOLEAN, failed' \in BOOLEAN,
           UNCHANGED <<netVars, path, trace, dog, interface, reporterVars>>
    PROVE  TypeOK'
<1>1. NetTypeOK'
    BY DEF TypeOK, NetTypeOK, netVars, pingVars
<1>2. ProcessOK'
    BY DEF TypeOK, ProcessOK, reporterVars, Reboot
<1>3. (Used <= Size)'
    BY DEF TypeOK, NetTypeOK, Reboot, Used, Held, reporterVars, Count, netVars, pingVars
<1> QED
    BY <1>1, <1>2, <1>3, NextTypeParts

\* What a step may do to the count: lose one where there is room, or not open more.
LEMMA CountKept ==
    ASSUME TypeOK, lost' \in Nat,
           waiting' \in BOOLEAN, trace' \in BOOLEAN, log' \in BOOLEAN, Held' \in 0 .. 2,
           \/ lost' + Count(log') + Count(trace') + Count(waiting') + Held'
                <= lost + Count(log) + Count(trace) + Count(waiting) + Held
           \/ /\ Room > 0
              /\ lost' + Count(log') + Count(trace') + Count(waiting') + Held'
                   <= lost + Count(log) + Count(trace) + Count(waiting) + Held + 1
    PROVE  (Used <= Size)'
<1>1. Count(log) \in Nat /\ Count(trace) \in Nat /\ Count(waiting) \in Nat
    BY DEF Count
<1>2. Count(log') \in Nat /\ Count(trace') \in Nat /\ Count(waiting') \in Nat
    BY DEF Count
<1>3. lost \in Nat /\ Used <= Size
    BY DEF TypeOK, NetTypeOK
<1>4. Used' = lost' + Count(log') + Count(trace') + Count(waiting') + Held'
    BY DEF Used, Count
<1>5. Held \in 0 .. 2
    BY CountTyped
<1> QED
    BY <1>1, <1>2, <1>3, <1>4, <1>5 DEF Used, Room

\* The same of a step of the main thread.
LEMMA MainCountKept ==
    ASSUME TypeOK, lost' \in Nat, UNCHANGED reporter,
           waiting' \in BOOLEAN, trace' \in BOOLEAN, log' \in BOOLEAN,
           \/ lost' + Count(log') + Count(trace') + Count(waiting')
                <= lost + Count(log) + Count(trace) + Count(waiting)
           \/ /\ Room > 0
              /\ lost' + Count(log') + Count(trace') + Count(waiting')
                   <= lost + Count(log) + Count(trace) + Count(waiting) + 1
    PROVE  (Used <= Size)'
<1>1. Count(log) \in Nat /\ Count(trace) \in Nat /\ Count(waiting) \in Nat
    BY DEF Count
<1>2. Count(log') \in Nat /\ Count(trace') \in Nat /\ Count(waiting') \in Nat
    BY DEF Count
<1>3. lost \in Nat
    BY DEF TypeOK, NetTypeOK
<1>4. Held' = Held /\ Held \in 0 .. 2
    BY HeldByNext, CountTyped
<1> QED
    BY <1>1, <1>2, <1>3, <1>4, CountKept

\* And of one of the crash report thread, which touches nothing of the main thread's.
LEMMA ReporterCountKept ==
    ASSUME TypeOK, lost' \in Nat, UNCHANGED <<trace, waiting>>,
           log' \in BOOLEAN, log' = log \/ ~log', Held' \in 0 .. 2,
           \/ lost' + Held' <= lost + Held
           \/ Room > 0 /\ lost' + Held' <= lost + Held + 1
    PROVE  (Used <= Size)'
<1>1. /\ Count(trace') = Count(trace) /\ Count(waiting') = Count(waiting)
      /\ Count(log') \in Nat /\ Count(log') <= Count(log)
    BY DEF Count
<1>2. lost \in Nat /\ waiting' \in BOOLEAN /\ trace' \in BOOLEAN
    BY DEF TypeOK, NetTypeOK
<1> QED
    BY <1>1, <1>2, CountTyped, CountKept

\* A request, successful or not, loses one at most, and none where there is none.
LEMMA RequestTyped ==
    ASSUME TypeOK, Request(Room), UNCHANGED <<log, trace, waiting, reporter>>
    PROVE  lost' \in Nat /\ (Used <= Size)'
<1>1. lost' = lost \/ (Room > 0 /\ lost' = lost + 1)
    BY DEF Request
<1>2. /\ Count(log') = Count(log) /\ Count(trace') = Count(trace)
      /\ Count(waiting') = Count(waiting)
    BY DEF Count
<1>3. lost' \in Nat /\ waiting' \in BOOLEAN /\ trace' \in BOOLEAN /\ log' \in BOOLEAN
    BY <1>1 DEF TypeOK, NetTypeOK
<1> QED
    BY <1>1, <1>2, <1>3, MainCountKept, CountTyped DEF TypeOK, NetTypeOK

LEMMA StartTraceTyped ==
    ASSUME TypeOK, NEW next \in Loop, StartTrace(next),
           UNCHANGED <<netVars, log, path, watch, dog, interface, reporterVars>>
    PROVE  TypeOK'
<1>1. NetTypeOK'
    BY DEF TypeOK, NetTypeOK, netVars, pingVars
<1>2. ProcessOK'
    BY DEF TypeOK, ProcessOK, reporterVars, StartTrace
<1>3. (Used <= Size)'
    BY DEF TypeOK, NetTypeOK, StartTrace, Room, Used, Held, reporterVars, Count, netVars, pingVars
<1> QED
    BY <1>1, <1>2, <1>3, NextTypeParts

LEMMA FailsTyped ==
    ASSUME NetTypeOK, Fails
    PROVE  /\ leg' \in {"none", "first", "second"}
           /\ purpose' \in {"none", "check", "latency"}
           /\ online' \in BOOLEAN
    BY ZenonT(30) DEF NetTypeOK, Fails, Result

\* The steps of ping() keep its variables in their types, and open one socket at most.
LEMMA PingCounts ==
    ASSUME TypeOK,
           \/ PingNotSent(Room) \/ PingSent(Room) \/ PingReply \/ PingOther
           \/ PingEnds \/ PacketArrives \/ PingTick
    PROVE  /\ NetTypeOK'
           /\ \/ lost' + Count(waiting') <= lost + Count(waiting)
              \/ Room > 0 /\ lost' + Count(waiting') <= lost + Count(waiting) + 1
<1> USE DEF TypeOK, NetTypeOK
<1>1. CASE PingNotSent(Room)
    <2>1. NetTypeOK'
        <3>1. lost' \in Nat /\ UNCHANGED <<clock, waiting, startms, packet, waited>>
            BY <1>1 DEF PingNotSent
        <3>2. Fails
            BY <1>1 DEF PingNotSent
        <3> QED
            BY <3>1, <3>2, FailsTyped
    <2>2. lost' \in {lost, lost + 1} /\ Room > 0 /\ Count(waiting') = Count(waiting)
        BY <1>1 DEF PingNotSent, Count
    <2> QED
        BY <2>1, <2>2, CountTyped
<1>2. CASE PingSent(Room)
    <2>1. NetTypeOK'
        BY <1>2 DEF PingSent
    <2>2. Room > 0 /\ lost' = lost /\ Count(waiting) = 0 /\ Count(waiting') = 1
        BY <1>2 DEF PingSent, Count
    <2> QED
        BY <2>1, <2>2
<1>3. CASE PingReply
    <2>1. NetTypeOK'
        <3>1. 0 \in Instant /\ 0 \in 0 .. Timeout + 1
            BY DEF Instant
        <3> QED
            BY <1>3, <3>1 DEF PingReply, Result, Forgets
    <2>2. lost' = lost /\ Count(waiting') = 0
        BY <1>3 DEF PingReply, Count
    <2> QED
        BY <2>1, <2>2, CountTyped
<1>4. CASE PingOther
    BY <1>4 DEF PingOther, Count
<1>5. CASE PingEnds
    <2>1. NetTypeOK'
        <3>1. 0 \in Instant /\ 0 \in 0 .. Timeout + 1
            BY DEF Instant
        <3> QED
            BY <1>5, <3>1 DEF PingEnds, Fails, Result, Forgets
    <2>2. lost' = lost /\ Count(waiting') = 0
        BY <1>5 DEF PingEnds, Count
    <2> QED
        BY <2>1, <2>2, CountTyped
<1>6. CASE PacketArrives
    BY <1>6 DEF PacketArrives, Count
<1>7. CASE PingTick
    <2>1. clock + 1 \in Nat
        BY DEF Instant
    <2>2. clock' \in Instant
        BY <1>7, <2>1, MillisDivision DEF PingTick
    <2>3. waited' \in 0 .. Timeout + 1
        BY <1>7 DEF PingTick
    <2> QED
        BY <1>7, <2>2, <2>3 DEF PingTick, Count
<1> QED
    BY <1>1, <1>2, <1>3, <1>4, <1>5, <1>6, <1>7

LEMMA PingTyped ==
    ASSUME TypeOK,
           \/ PingNotSent(Room) \/ PingSent(Room) \/ PingReply \/ PingOther
           \/ PingEnds \/ PacketArrives \/ PingTick,
           UNCHANGED <<trace, reporter>>, log' = log \/ ~log', log' \in BOOLEAN
    PROVE  NetTypeOK' /\ (Used <= Size)'
<1>1. /\ NetTypeOK'
      /\ \/ lost' + Count(waiting') <= lost + Count(waiting)
         \/ Room > 0 /\ lost' + Count(waiting') <= lost + Count(waiting) + 1
    BY PingCounts
<1>2. Count(trace') = Count(trace) /\ Count(log') \in Nat /\ Count(log') <= Count(log)
    BY DEF Count
<1>3. Count(waiting') \in Nat /\ lost \in Nat
    BY DEF Count, TypeOK, NetTypeOK
<1>4. lost' \in Nat /\ waiting' \in BOOLEAN /\ trace' \in BOOLEAN
    BY <1>1 DEF TypeOK, NetTypeOK
<1> QED
    BY <1>1, <1>2, <1>3, <1>4, MainCountKept, CountTyped

LEMMA StepNothingWhenOff ==
    ASSUME TypeOK, NothingWhenOff, [Next]_vars
    PROVE  NothingWhenOff'
<1> USE DEF NothingWhenOff
<1>1. CASE Boot \/ RebootCommand \/ Bark \/ Upgrade
    BY <1>1 DEF Boot, RebootCommand, Bark, Upgrade, GoDown, Debug
<1>2. CASE Pass \/ HeartBeat \/ SetSyslog \/ GetInfo \/ CommandTrace \/ CommandReboot
           \/ RebootFails
    BY <1>2 DEF Pass, HeartBeat, SetSyslog, GetInfo, CommandTrace, StartTrace, CommandReboot,
                Reboot, RebootFails
<1>3. CASE NetTask \/ PingStep \/ PingReboots \/ PingWorld
    BY <1>3 DEF NetTask, PingStep, PingReboots, PingWorld, Reboot
<1>4. CASE CfgTask \/ NtpTask \/ Alert \/ EndTrace \/ UploadReboots \/ Rotate \/ Reopen
    BY <1>4 DEF CfgTask, NtpTask, Alert, EndTrace, UploadReboots, Rotate, Reopen, StartTrace, Reboot
<1>5. CASE InterfaceChanges \/ DogDies \/ UNCHANGED vars
    BY <1>5 DEF InterfaceChanges, DogDies, vars, reporterVars
<1>6. CASE ReporterStep
    <2>1. CASE WritesToClosedLog
        BY <2>1 DEF WritesToClosedLog
    <2>2. CASE ReporterReboots
        BY <2>2 DEF ReporterReboots, ReporterAt, GoDown, Debug
    <2>3. CASE ~(WritesToClosedLog \/ ReporterReboots)
        BY <1>6, <2>3
        DEF ReporterStep, OpenDirectory, NextReport, OpenReport, CloseReport, PostReport,
            ReportDone, ReporterBeat, CloseDirectory, ReporterAt
    <2> QED
        BY <2>1, <2>2, <2>3
<1> QED
    BY <1>1, <1>2, <1>3, <1>4, <1>5, <1>6 DEF Next, ThreadStep

LEMMA OneForOne ==
    ASSUME NEW m \in Nat, NEW n \in Nat, n <= m + 1,
           NEW h \in Nat, NEW k \in Nat, k + 1 = h
    PROVE  n + k <= m + h
    OBVIOUS

LEMMA ReportDoneCount ==
    ASSUME TypeOK, ReportDone
    PROVE  /\ reporter' = "reading"
           /\ lost' \in Nat /\ Held' \in 0 .. 2 /\ lost' + Held' <= lost + Held
<1>1. reporter = "request" /\ reporter' = "reading" /\ lost' \in {lost, lost + 1}
    BY DEF ReportDone, ReporterAt
<1>2. Held = 2 /\ Held' = 1
    BY <1>1, HeldBy, HeldByNext
<1>3. lost \in Nat
    BY DEF TypeOK, NetTypeOK
<1>4. lost' \in Nat /\ lost' <= lost + 1
    BY <1>1, <1>3
<1>5. Held' \in 0 .. 2
    BY <1>2
<1>6. Held \in Nat /\ Held' \in Nat /\ Held' + 1 = Held
    BY <1>2
<1>7. lost' + Held' <= lost + Held
    BY <1>3, <1>4, <1>6, OneForOne
<1> QED
    BY <1>1, <1>4, <1>5, <1>7

\* What a step of the crash report thread that is no reboot of the board opens.
LEMMA ReporterCounts ==
    ASSUME TypeOK,
           \/ OpenDirectory \/ NextReport \/ OpenReport \/ CloseReport \/ PostReport
           \/ ReportDone \/ ReporterBeat \/ CloseDirectory
    PROVE  /\ reporter' \in {"ended", "reading", "posting", "file", "connecting", "request", "rebooting"}
           /\ reporter # "absent"
           /\ lost' \in Nat /\ Held' \in 0 .. 2
           /\ \/ lost' + Held' <= lost + Held
              \/ Opens /\ lost' + Held' <= lost + Held + 1
<1> USE HeldBy, HeldByNext DEF TypeOK, NetTypeOK, netVars, ReporterAt
<1>1. CASE OpenDirectory
    BY <1>1 DEF OpenDirectory
<1>2. CASE NextReport
    BY <1>2 DEF NextReport
<1>3. CASE OpenReport
    BY <1>3 DEF OpenReport
<1>4. CASE CloseReport
    BY <1>4 DEF CloseReport
<1>5. CASE PostReport
    BY <1>5 DEF PostReport
<1>6. CASE ReportDone
    BY <1>6, ReportDoneCount DEF ReportDone
<1>7. CASE ReporterBeat
    BY <1>7 DEF ReporterBeat, reporterVars
<1>8. CASE CloseDirectory
    BY <1>8 DEF CloseDirectory
<1> QED
    BY <1>1, <1>2, <1>3, <1>4, <1>5, <1>6, <1>7, <1>8

LEMMA ReporterTyped ==
    ASSUME TypeOK,
           \/ OpenDirectory \/ NextReport \/ OpenReport \/ CloseReport \/ PostReport
           \/ ReportDone \/ ReporterBeat \/ CloseDirectory
    PROVE  TypeOK' /\ UNCHANGED waiting /\ (at' = at)
<1>1. /\ UNCHANGED <<pingVars, at, path, trace, dog, interface>>
      /\ watch' \in BOOLEAN /\ failed' \in BOOLEAN /\ interfered' \in BOOLEAN
      /\ log' \in BOOLEAN /\ (log' = log \/ ~log')
    BY DEF TypeOK, NetTypeOK, netVars, OpenDirectory, NextReport, OpenReport, CloseReport, PostReport, ReportDone,
           ReporterBeat, CloseDirectory, Opens, reporterVars
<1>2. /\ reporter' \in {"absent", "ended", "starting", "reading", "posting", "file",
                        "connecting", "request", "rebooting", "halted"}
      /\ lost' \in Nat /\ Held' \in 0 .. 2
      /\ \/ lost' + Held' <= lost + Held
         \/ Room > 0 /\ lost' + Held' <= lost + Held + 1
    BY ReporterCounts DEF Opens
<1>3. NetTypeOK'
    BY <1>1, <1>2 DEF TypeOK, NetTypeOK, pingVars
<1>4. ProcessOK'
    BY <1>1, <1>2 DEF TypeOK, ProcessOK
<1>5. (Used <= Size)'
    BY <1>1, <1>2, ReporterCountKept DEF pingVars
<1> QED
    BY <1>1, <1>3, <1>4, <1>5, NextTypeParts DEF pingVars

LEMMA StepTyped ==
    ASSUME TypeInv, [Next]_vars
    PROVE  TypeOK' /\ SocketInPing'
<1> USE DEF TypeInv
<1>1. CASE Boot
    <2>1. NetTypeOK' /\ ~waiting
        BY <1>1 DEF TypeOK, NetTypeOK, Boot, pingVars, SocketInPing
    <2>2. ProcessOK'
        BY <1>1 DEF TypeOK, ProcessOK, Boot, Loop
    <2>3. lost' \in 0 .. StartLost /\ ~trace' /\ ~waiting' /\ log' \in BOOLEAN
        BY <1>1, <2>1 DEF Boot, pingVars, NothingWhenOff
    <2>5. Held' = 0
        BY <1>1, HeldByNext DEF Boot, NothingWhenOff
    <2>4. (Used <= Size)'
        <3>1. Count(log') \in 0 .. 1 /\ Count(trace') = 0 /\ Count(waiting') = 0
            BY <2>3 DEF Count
        <3>2. Used' = lost' + Count(log') + Count(trace') + Count(waiting') + Held'
            BY DEF Used, Count
        <3> QED
            BY <2>3, <2>5, <3>1, <3>2
    <2> QED
        BY <2>1, <2>2, <2>3, <2>4, NextTypeParts DEF SocketInPing
<1>2. CASE RebootCommand
    BY <1>2, DownTyped DEF RebootCommand, SocketInPing
<1>3. CASE Bark
    BY <1>3, DownTyped DEF Bark, SocketInPing
<1>4. CASE Upgrade
    BY <1>4, DownTyped DEF Upgrade, SocketInPing
<1>5. CASE Pass
    <2>1. NetTypeOK' /\ Used' = Used
        BY <1>5 DEF TypeOK, NetTypeOK, Pass, netVars, pingVars, Used, Held, reporterVars, Count
    <2>2. ProcessOK'
        BY <1>5 DEF TypeOK, ProcessOK, reporterVars, Pass, Loop
    <2>3. ~waiting'
        BY <1>5 DEF Pass, netVars, pingVars, SocketInPing
    <2> QED
        BY <2>1, <2>2, <2>3, NextTypeParts, TypeParts DEF SocketInPing
<1>6. CASE HeartBeat
    <2>1. ~waiting' /\ UNCHANGED <<netVars, path, trace, dog, interface, reporterVars>>
        BY <1>6 DEF HeartBeat, netVars, pingVars, SocketInPing
    <2>2. CASE Room > 0 /\ watch' = TRUE /\ at' = "command" /\ UNCHANGED <<log, failed>>
        <3>1. NetTypeOK' /\ Used' = Used
            BY <2>1, <2>2 DEF TypeOK, NetTypeOK, netVars, pingVars, Used, Held, reporterVars, Count
        <3>2. ProcessOK'
            BY <2>1, <2>2 DEF TypeOK, ProcessOK, reporterVars, Loop
        <3> QED
            BY <2>1, <3>1, <3>2, NextTypeParts, TypeParts DEF SocketInPing
    <2>3. CASE watch' = FALSE /\ failed' = (failed \/ Room > 0) /\ Reboot
        <3>1. watch' \in BOOLEAN /\ failed' \in BOOLEAN
            BY <2>3
        <3> QED
            BY <2>1, <2>3, <3>1, RebootTyped DEF SocketInPing
    <2> QED
        BY <1>6, <2>2, <2>3 DEF HeartBeat
<1>7. CASE SetSyslog
    <2>1. /\ ~waiting' /\ at' = "net"
          /\ UNCHANGED <<pingVars, log, path, trace, watch, dog, interface, failed, reporterVars>>
          /\ lost' = IF Room > 0 THEN lost + 1 ELSE lost
        BY <1>7 DEF SetSyslog, pingVars, SocketInPing
    <2>2. NetTypeOK'
        BY <2>1 DEF TypeOK, NetTypeOK, pingVars
    <2>3. ProcessOK'
        BY <2>1 DEF TypeOK, ProcessOK, reporterVars, Loop
    <2>4. (Used <= Size)'
        BY <2>1, RoomLeft DEF TypeOK, NetTypeOK, pingVars, Used, Held, reporterVars, Count
    <2> QED
        BY <2>1, <2>2, <2>3, <2>4, NextTypeParts DEF SocketInPing
<1>8. CASE GetInfo
    <2>1. NetTypeOK'
        BY <1>8 DEF TypeOK, NetTypeOK, GetInfo, Check
    <2>2. ProcessOK'
        BY <1>8 DEF TypeOK, ProcessOK, reporterVars, GetInfo
    <2>3. Used' = Used
        BY <1>8 DEF GetInfo, Check, Used, Held, reporterVars, Count
    <2>4. ~waiting'
        BY <1>8 DEF GetInfo, Check, SocketInPing
    <2> QED
        BY <2>1, <2>2, <2>3, <2>4, NextTypeParts, TypeParts DEF SocketInPing
<1>9. CASE CommandTrace
    <2>1. ~waiting'
        BY <1>9 DEF CommandTrace, netVars, pingVars, SocketInPing
    <2> QED
        BY <1>9, <2>1, StartTraceTyped DEF CommandTrace, Loop, SocketInPing
<1>10. CASE CommandReboot
    <2>1. ~waiting' /\ watch' \in BOOLEAN /\ failed' \in BOOLEAN
        BY <1>10 DEF TypeOK, CommandReboot, netVars, pingVars, SocketInPing
    <2> QED
        BY <1>10, <2>1, RebootTyped DEF CommandReboot, SocketInPing
<1>11. CASE NetTask
    <2>1. /\ ~waiting'
          /\ UNCHANGED <<waiting, startms, packet, online, waited>>
          /\ UNCHANGED <<path, trace, watch, dog, interface, failed, reporterVars>>
          /\ lost' = IF Room > 0 THEN lost + 1 ELSE lost
        BY <1>11 DEF NetTask, SocketInPing
    <2>2. lost' \in Nat
        BY <2>1 DEF TypeOK, NetTypeOK
    <2>3. NetTypeOK'
        BY <1>11, <2>1, <2>2 DEF TypeOK, NetTypeOK, NetTask
    <2>4. ProcessOK'
        BY <1>11, <2>1 DEF TypeOK, ProcessOK, reporterVars, NetTask, Reboot
    <2>5. log' = log \/ ~log'
        BY <1>11 DEF NetTask, Reboot
    <2>6. (Used <= Size)'
        BY <2>1, <2>5, RoomLeft, CountTyped DEF TypeOK, NetTypeOK, Used, Held, reporterVars, Count
    <2> QED
        BY <2>1, <2>3, <2>4, <2>6, NextTypeParts DEF SocketInPing
<1>12. CASE PingStep
    <2>1. /\ log' \in BOOLEAN /\ (log' = log \/ ~log')
          /\ UNCHANGED <<path, trace, watch, dog, interface, failed, reporterVars>>
          /\ at' \in {"ping", "cfg", "net", "rebooting"}
        BY <1>12 DEF TypeOK, PingStep, Reboot
    <2>2. NetTypeOK' /\ (Used <= Size)'
        BY <1>12, <2>1, PingTyped DEF PingStep, reporterVars
    <2>3. ProcessOK'
        BY <2>1 DEF TypeOK, ProcessOK, reporterVars, Loop
    <2>4. SocketInPing'
        <3>1. CASE leg' = "none"
            BY <1>12, <3>1 DEF PingStep, PingNotSent, PingSent, PingReply, PingOther, PingEnds,
                               SocketInPing
        <3>2. CASE leg' # "none"
            BY <1>12, <3>2 DEF PingStep, SocketInPing
        <3> QED
            BY <3>1, <3>2
    <2> QED
        BY <2>2, <2>3, <2>4, NextTypeParts
<1>13. CASE PingReboots
    <2>1. ~waiting' /\ watch' \in BOOLEAN /\ failed' \in BOOLEAN
        BY <1>13 DEF TypeOK, PingReboots, NoProtocol, netVars, pingVars
    <2> QED
        BY <1>13, <2>1, RebootTyped DEF PingReboots, SocketInPing
<1>14. CASE PingWorld
    <2>1. NetTypeOK' /\ (Used <= Size)'
        BY <1>14, PingTyped DEF PingWorld, TypeOK, reporterVars
    <2>2. ProcessOK'
        BY <1>14 DEF TypeOK, ProcessOK, reporterVars, PingWorld
    <2>3. SocketInPing'
        BY <1>14 DEF PingWorld, PacketArrives, PingTick, SocketInPing
    <2> QED
        BY <2>1, <2>2, <2>3, NextTypeParts
<1>15. CASE CfgTask
    <2>1. ~waiting' /\ UNCHANGED <<pingVars, log, path, watch, dog, interface, reporterVars>>
        BY <1>15 DEF CfgTask, pingVars, SocketInPing
    <2>2. CASE Request(Room) /\ at' = "ntp" /\ UNCHANGED <<trace, failed>>
        <3>1. NetTypeOK' /\ (Used <= Size)'
            BY <2>1, <2>2, RequestTyped, RoomLeft DEF TypeOK, NetTypeOK, pingVars, reporterVars
        <3>2. ProcessOK'
            BY <2>1, <2>2 DEF TypeOK, ProcessOK, reporterVars, Loop
        <3> QED
            BY <2>1, <3>1, <3>2, NextTypeParts DEF SocketInPing
    <2>3. CASE Room > 0 /\ UNCHANGED lost /\ StartTrace("ntp")
        <3>1. UNCHANGED <<netVars, log, path, watch, dog, interface, reporterVars>>
            BY <2>1, <2>3 DEF netVars
        <3> QED
            BY <2>1, <2>3, <3>1, StartTraceTyped DEF Loop, SocketInPing
    <2> QED
        BY <1>15, <2>2, <2>3 DEF CfgTask
<1>16. CASE NtpTask
    <2>1. NetTypeOK' /\ Used' = Used
        BY <1>16 DEF TypeOK, NetTypeOK, NtpTask, netVars, pingVars, Used, Held, reporterVars, Count
    <2>2. ProcessOK'
        BY <1>16 DEF TypeOK, ProcessOK, reporterVars, NtpTask, Loop
    <2>3. ~waiting'
        BY <1>16 DEF NtpTask, netVars, pingVars, SocketInPing
    <2> QED
        BY <2>1, <2>2, <2>3, NextTypeParts, TypeParts DEF SocketInPing
<1>17. CASE Alert
    <2>1. NetTypeOK' /\ (Used <= Size)'
        BY <1>17, RequestTyped, RoomLeft DEF Alert, TypeOK, NetTypeOK, pingVars, reporterVars
    <2>2. ProcessOK'
        BY <1>17 DEF TypeOK, ProcessOK, reporterVars, Alert, Loop
    <2>3. ~waiting'
        BY <1>17 DEF Alert, pingVars, SocketInPing
    <2> QED
        BY <2>1, <2>2, <2>3, NextTypeParts DEF SocketInPing
<1>18. CASE EndTrace \/ UploadReboots
    <2>1. /\ lost' \in {lost, lost + 1} /\ trace /\ trace' = FALSE /\ log' \in BOOLEAN
          /\ (log' = log \/ ~log') /\ UNCHANGED <<pingVars, path, dog, interface, reporterVars>>
          /\ watch' \in BOOLEAN /\ failed' \in BOOLEAN
          /\ at' \in {"seismo", "dead", "rebooting"}
        BY <1>18, RoomLeft DEF EndTrace, UploadReboots, Reboot, Request, TypeOK
    <2>2. NetTypeOK'
        BY <2>1 DEF TypeOK, NetTypeOK, pingVars
    <2>3. (Used <= Size)'
        <3>1. /\ Count(log') \in Nat /\ Count(log') <= Count(log)
              /\ Count(waiting') = Count(waiting)
              /\ Count(trace) = 1 /\ Count(trace') = 0
            BY <2>1 DEF Count, pingVars
        <3>2. lost' \in Nat /\ lost' <= lost + 1 /\ lost \in Nat
            BY <2>1 DEF TypeOK, NetTypeOK
        <3>3. waiting' \in BOOLEAN /\ trace' \in BOOLEAN /\ log' \in BOOLEAN /\ UNCHANGED reporter
            <4>1. waiting' \in BOOLEAN
                BY <2>1 DEF TypeOK, NetTypeOK, pingVars
            <4>2. trace' \in BOOLEAN
                BY <2>1
            <4> QED
                BY <2>1, <4>1, <4>2 DEF reporterVars
        <3>4. lost' + Count(log') + Count(trace') + Count(waiting')
                <= lost + Count(log) + Count(trace) + Count(waiting)
            BY <3>1, <3>2, CountTyped
        <3> QED
            BY <3>2, <3>3, <3>4, MainCountKept
    <2>4. ProcessOK'
        BY <2>1 DEF TypeOK, ProcessOK, reporterVars, Loop
    <2>5. ~waiting'
        BY <1>18, <2>1 DEF EndTrace, UploadReboots, pingVars, SocketInPing
    <2> QED
        BY <2>2, <2>3, <2>4, <2>5, NextTypeParts DEF SocketInPing
<1>19. CASE Rotate \/ Reopen
    <2>1. /\ log' \in BOOLEAN /\ path' \in BOOLEAN /\ failed' \in BOOLEAN
          /\ UNCHANGED <<netVars, trace, watch, dog, interface, reporterVars>>
          /\ at' \in {"reopening", "top"}
          /\ ~log' \/ Room > 0
        BY <1>19 DEF Rotate, Reopen, TypeOK
    <2>2. NetTypeOK' /\ ProcessOK'
        BY <2>1 DEF TypeOK, NetTypeOK, ProcessOK, netVars, pingVars, reporterVars, Loop
    <2>3. (Used <= Size)'
        <3>1. /\ Count(waiting') = Count(waiting) /\ Count(trace') = Count(trace)
              /\ Count(log') = IF log' THEN 1 ELSE 0
            BY <2>1 DEF Count, netVars, pingVars
        <3>2. /\ lost' = lost /\ lost' \in Nat /\ UNCHANGED reporter
              /\ waiting' \in BOOLEAN /\ trace' \in BOOLEAN /\ log' \in BOOLEAN
            BY <2>1 DEF TypeOK, NetTypeOK, netVars, pingVars, reporterVars
        <3> QED
            BY <2>1, <3>1, <3>2, MainCountKept, CountTyped
    <2>4. ~waiting'
        BY <1>19, <2>1 DEF Rotate, Reopen, netVars, pingVars, SocketInPing
    <2> QED
        BY <2>2, <2>3, <2>4, NextTypeParts DEF SocketInPing
<1>20. CASE InterfaceChanges \/ DogDies \/ UNCHANGED vars
    <2>1. NetTypeOK' /\ Used' = Used
        <3>1. UNCHANGED <<netVars, log, trace, reporter>>
            BY <1>20 DEF InterfaceChanges, DogDies, vars, reporterVars
        <3>2. NetTypeOK' /\ UNCHANGED waiting
            BY <3>1 DEF TypeOK, NetTypeOK, netVars, pingVars
        <3>3. Held' = Held
            BY <3>1, HeldByNext
        <3> QED
            BY <3>1, <3>2, <3>3 DEF netVars, Used, Count
    <2>2. ProcessOK'
        <3>1. CASE InterfaceChanges
            BY <3>1 DEF TypeOK, ProcessOK, reporterVars, InterfaceChanges
        <3>2. CASE DogDies
            BY <3>2 DEF TypeOK, ProcessOK, reporterVars, DogDies
        <3>3. CASE UNCHANGED vars
            BY <3>3 DEF TypeOK, ProcessOK, reporterVars, vars
        <3> QED
            BY <1>20, <3>1, <3>2, <3>3
    <2>3. SocketInPing'
        BY <1>20 DEF InterfaceChanges, DogDies, vars, netVars, pingVars, SocketInPing
    <2> QED
        BY <2>1, <2>2, <2>3, NextTypeParts, TypeParts
<1>21. CASE ReporterStep
    <2>1. CASE ReporterReboots
        <3>1. CASE Room > 0
            BY <2>1, <3>1, DownTyped DEF ReporterReboots, SocketInPing
        <3>2. CASE ~(Room > 0)
            <4>1. /\ reporter = "rebooting" /\ reporter' = "halted"
                  /\ UNCHANGED <<netVars, at, log, path, trace, watch, dog, interface, failed, interfered>>
                BY <2>1, <3>2 DEF ReporterReboots, ReporterAt
            <4>2. Held' = Held
                BY <4>1, HeldBy, HeldByNext
            <4>3. Used' = Used
                BY <4>1, <4>2 DEF Used, Count, netVars, pingVars
            <4>4. NetTypeOK' /\ ProcessOK'
                BY <4>1 DEF TypeOK, NetTypeOK, ProcessOK, netVars, pingVars
            <4> QED
                BY <4>1, <4>3, <4>4, NextTypeParts, TypeParts DEF SocketInPing, netVars, pingVars
        <3> QED
            BY <3>1, <3>2
    <2>2. CASE WritesToClosedLog
        <3>1. NetTypeOK' /\ Used' = Used
            BY <2>2 DEF TypeOK, NetTypeOK, WritesToClosedLog, netVars, pingVars,
                        Used, Held, reporterVars, Count
        <3>2. ProcessOK'
            BY <2>2 DEF TypeOK, ProcessOK, reporterVars, WritesToClosedLog
        <3>3. ~waiting'
            BY <2>2 DEF WritesToClosedLog, netVars, pingVars, SocketInPing
        <3> QED
            BY <3>1, <3>2, <3>3, NextTypeParts, TypeParts DEF SocketInPing
    <2>3. CASE ~(ReporterReboots \/ WritesToClosedLog)
        <3>1. /\ TypeOK' /\ UNCHANGED waiting /\ (at' = at)
              /\ UNCHANGED leg
            BY <1>21, <2>3, ReporterTyped
            DEF ReporterStep, OpenDirectory, NextReport, OpenReport, CloseReport, PostReport,
                ReportDone, ReporterBeat, CloseDirectory, netVars, pingVars
        <3> QED
            BY <3>1 DEF SocketInPing
    <2> QED
        BY <2>1, <2>2, <2>3
<1>22. CASE RebootFails
    <2>1. NetTypeOK' /\ Used' = Used
        BY <1>22 DEF TypeOK, NetTypeOK, RebootFails, netVars, pingVars, Used, Held, reporterVars, Count
    <2>2. ProcessOK'
        BY <1>22 DEF TypeOK, ProcessOK, reporterVars, RebootFails
    <2>3. ~waiting'
        BY <1>22 DEF RebootFails, netVars, pingVars, SocketInPing
    <2> QED
        BY <2>1, <2>2, <2>3, NextTypeParts, TypeParts DEF SocketInPing
<1> QED
    BY <1>1, <1>2, <1>3, <1>4, <1>5, <1>6, <1>7, <1>8, <1>9, <1>10, <1>11, <1>12,
       <1>13, <1>14, <1>15, <1>16, <1>17, <1>18, <1>19, <1>20, <1>21, <1>22
    DEF Next, ThreadStep

LEMMA InitTyped == Init => TypeInv
<1> SUFFICES ASSUME Init
             PROVE  TypeInv
    OBVIOUS
<1>1. NetTypeOK
    <2>1. 0 \in Instant /\ 0 \in 0 .. Timeout + 1
        BY DEF Instant
    <2> QED
        BY <2>1 DEF Init, InitNet, NetTypeOK
<1>2. ProcessOK
    BY DEF Init, ProcessOK
<1>3. Used = 0
    BY DEF Init, InitNet, Used, Held, reporterVars, Count
<1> QED
    BY <1>1, <1>2, <1>3, TypeParts
    DEF Init, InitNet, TypeInv, SocketInPing, NothingWhenOff

LEMMA TypeInductive == TypeInv /\ [Next]_vars => TypeInv'
    BY StepTyped, StepNothingWhenOff DEF TypeInv

\* Every sketch, whatever its descriptors and whoever loses them, stays within the
\* table the system gives it: each open() of the code looks at what it got.
THEOREM TypeCorrect == Spec => []TypeOK
    BY InitTyped, TypeInductive, PTL DEF Spec, TypeInv

-----------------------------------------------------------------------------
(***************************************************************************)
(* The wait of ping().                                                      *)
(***************************************************************************)

\* What a wait knows of its time, when the deadline is not beyond the wrap of
\* millis(); when it is, a build of 32 bits does not wait at all.
WaitInv ==
    waiting => \/ NearWrap /\ LongWrap > Wrap
               \/ /\ clock = startms + waited
                  /\ waited <= Timeout
                  /\ NearWrap => waited = 0

LEMMA DivisionOnce ==
    ASSUME NEW n \in Nat, NEW m \in Nat \ {0}
    PROVE  /\ n < m => n % m = n
           /\ m <= n /\ n < m + m => n % m = n - m
    OBVIOUS

\* The step that starts a wait, and the one that lets time pass in it.
LEMMA WaitStarts ==
    ASSUME TypeOK, clock \in Instant,
           waiting', startms' = clock, waited' = 0, UNCHANGED clock
    PROVE  WaitInv'
    BY DEF WaitInv, NearWrap, Instant

LEMMA WaitGoesOn ==
    ASSUME TypeOK, WaitInv, PingTick
    PROVE  WaitInv'
<1>1. /\ waiting /\ InTime /\ waiting' /\ UNCHANGED startms
      /\ clock' = Millis(clock + 1)
      /\ waited' = IF waited > Timeout THEN waited ELSE waited + 1
    BY DEF PingTick, TypeOK, NetTypeOK
<1>2. clock \in 0 .. Wrap - 1 /\ startms \in 0 .. Wrap - 1 /\ waited \in Nat
    BY DEF TypeOK, NetTypeOK, Instant
<1>3. CASE NearWrap /\ LongWrap > Wrap
    BY <1>1, <1>3 DEF WaitInv, NearWrap
<1>4. CASE NearWrap /\ LongWrap = Wrap
    <2>1. Deadline = startms + Timeout - Wrap
        <3>1. /\ startms + Timeout \in Nat /\ LongWrap \in Nat \ {0}
              /\ LongWrap <= startms + Timeout /\ startms + Timeout < LongWrap + LongWrap
            BY <1>2, <1>4 DEF NearWrap
        <3>2. (startms + Timeout) % LongWrap = (startms + Timeout) - LongWrap
            BY <3>1, DivisionOnce
        <3> QED
            BY <1>2, <1>4, <3>2 DEF Deadline
    <2>2. clock = startms
        BY <1>1, <1>2, <1>4 DEF WaitInv
    <2> QED
        BY <1>1, <1>2, <2>1, <2>2 DEF InTime
<1>5. CASE ~NearWrap
    <2>1. startms + Timeout < Wrap
        BY <1>2, <1>5 DEF NearWrap
    <2>2. Deadline = startms + Timeout
        <3>1. /\ startms + Timeout \in Nat /\ LongWrap \in Nat \ {0}
              /\ startms + Timeout < LongWrap
            BY <1>2, <2>1
        <3> QED
            BY <3>1, DivisionOnce DEF Deadline
    <2>3. clock = startms + waited /\ waited <= Timeout
        BY <1>1, <1>5 DEF WaitInv
    <2>4. clock < startms + Timeout
        BY <1>1, <2>2 DEF InTime
    <2>5. clock' = clock + 1
        <3>1. clock + 1 \in Nat /\ clock + 1 < Wrap
            BY <1>2, <2>1, <2>4
        <3> QED
            BY <1>1, <3>1, DivisionOnce DEF Millis
    <2>6. waited < Timeout /\ waited' = waited + 1
        BY <1>1, <1>2, <2>3, <2>4
    <2> QED
        BY <1>1, <1>2, <1>5, <2>3, <2>5, <2>6 DEF WaitInv, NearWrap
<1> QED
    BY <1>3, <1>4, <1>5

LEMMA WaitKept ==
    ASSUME TypeInv, WaitInv, [Next]_vars
    PROVE  WaitInv'
<1> DEFINE Same == UNCHANGED <<clock, waiting, startms, waited>>
<1>1. ASSUME ~waiting' PROVE WaitInv'
    BY <1>1 DEF WaitInv
<1>2. ASSUME Same PROVE WaitInv'
    BY <1>2 DEF WaitInv, NearWrap
<1> HIDE DEF Same
<1>3. CASE Boot \/ Pass \/ HeartBeat \/ SetSyslog \/ CommandTrace \/ CommandReboot
           \/ RebootFails
    <2>1. Same
        BY <1>3 DEF Boot, Pass, HeartBeat, SetSyslog, CommandTrace, CommandReboot, RebootFails,
                    netVars, pingVars, Same
    <2> QED
        BY <1>2, <2>1
<1>4. CASE PingReboots \/ CfgTask \/ NtpTask \/ Alert \/ EndTrace \/ UploadReboots \/ Rotate
           \/ Reopen \/ InterfaceChanges \/ DogDies \/ UNCHANGED vars
    <2>1. Same
        BY <1>4 DEF PingReboots, CfgTask, NtpTask, Alert, EndTrace, UploadReboots, Rotate, Reopen,
                    InterfaceChanges, DogDies, vars, netVars, pingVars, Same
    <2> QED
        BY <1>2, <2>1
<1>5. CASE RebootCommand \/ Bark \/ Upgrade
    BY <1>1, <1>5 DEF RebootCommand, Bark, Upgrade, GoDown
<1>6. CASE GetInfo \/ NetTask
    <2>1. ~waiting'
        BY <1>6 DEF GetInfo, Check, NetTask, TypeInv, SocketInPing
    <2> QED
        BY <1>1, <2>1
<1>7. CASE PingStep
    <2>1. CASE PingNotSent(Room) \/ PingOther
        <3>1. Same
            BY <2>1 DEF PingNotSent, PingOther, Same
        <3> QED
            BY <1>2, <3>1
    <2>2. CASE PingSent(Room)
        <3>1. /\ waiting' /\ startms' = clock /\ waited' = 0 /\ UNCHANGED clock
              /\ clock \in Instant /\ TypeOK
            BY <2>2 DEF PingSent, TypeInv, TypeOK, NetTypeOK
        <3> QED
            BY <3>1, WaitStarts
    <2>3. CASE PingReply \/ PingEnds
        BY <1>1, <2>3 DEF PingReply, PingEnds
    <2> QED
        BY <1>7, <2>1, <2>2, <2>3 DEF PingStep
<1>8. CASE PingWorld
    <2>1. CASE PacketArrives
        <3>1. Same
            BY <2>1 DEF PacketArrives, Same
        <3> QED
            BY <1>2, <3>1
    <2>2. CASE PingTick
        BY <2>2, WaitGoesOn DEF TypeInv
    <2> QED
        BY <1>8, <2>1, <2>2 DEF PingWorld
<1>9. CASE ReporterStep
    <2>1. CASE ReporterReboots
        BY <1>1, <1>2, <2>1 DEF ReporterReboots, GoDown, netVars, pingVars, Same
    <2>2. CASE ~ReporterReboots
        <3>1. Same
            BY <1>9, <2>2
            DEF ReporterStep, OpenDirectory, NextReport, OpenReport, CloseReport, PostReport,
                ReportDone, ReporterBeat, WritesToClosedLog, CloseDirectory, netVars, pingVars, Same
        <3> QED
            BY <1>2, <3>1
    <2> QED
        BY <2>1, <2>2
<1> QED
    BY <1>3, <1>4, <1>5, <1>6, <1>7, <1>8, <1>9 DEF Next, ThreadStep

\* No ping() waits longer than waitms, whatever packets arrive - or, on a 64-bit build
\* near the wrap of millis(), no such bound is known.
THEOREM PingEndsInTime == Spec => []PingInTime
<1>1. Init => TypeInv /\ WaitInv
    BY InitTyped DEF Init, InitNet, WaitInv
<1>2. TypeInv /\ WaitInv /\ [Next]_vars => TypeInv' /\ WaitInv'
    BY TypeInductive, WaitKept
<1>3. TypeInv /\ WaitInv => PingInTime
    BY DEF WaitInv, PingInTime
<1> QED
    BY <1>1, <1>2, <1>3, PTL DEF Spec

\* A ping() that finds nobody has waited all the time it was given: a deadline that
\* millis() can show ends no wait before it is reached.
THEOREM PingGivesTime == Spec => PingWaits
<1> DEFINE Given == (waiting /\ ~waiting' /\ at' # "off" /\ packet # "reply" /\ ~NearWrap)
                        => waited = Timeout
<1>1. Init => TypeInv /\ WaitInv
    BY InitTyped DEF Init, InitNet, WaitInv
<1>2. TypeInv /\ WaitInv /\ [Next]_vars => TypeInv' /\ WaitInv'
    BY TypeInductive, WaitKept
<1>3. TypeInv /\ WaitInv /\ [Next]_vars => [Given]_vars
    <2> SUFFICES ASSUME TypeInv, WaitInv, [Next]_vars,
                        waiting, ~waiting', at' # "off", packet # "reply", ~NearWrap
                 PROVE  waited = Timeout
        OBVIOUS
    <2>1. at = "ping"
        BY DEF TypeInv, SocketInPing
    <2>2. PingEnds
        <3>1. CASE PingStep
            BY <3>1 DEF PingStep, PingNotSent, PingSent, PingReply, PingOther
        <3>2. CASE PingWorld
            BY <3>2 DEF PingWorld, PacketArrives, PingTick
        <3>3. CASE RebootCommand \/ Bark \/ Upgrade
            BY <3>3 DEF RebootCommand, Bark, Upgrade, GoDown
        <3>4. CASE PingReboots \/ RebootFails \/ InterfaceChanges \/ DogDies \/ UNCHANGED vars
            BY <3>4 DEF PingReboots, RebootFails, InterfaceChanges, DogDies, vars, netVars, pingVars
        <3>5. CASE Boot \/ Pass \/ HeartBeat \/ SetSyslog \/ GetInfo \/ CommandTrace
                   \/ CommandReboot \/ NetTask
            BY <2>1, <3>5 DEF Boot, Pass, HeartBeat, SetSyslog, GetInfo, CommandTrace,
                              CommandReboot, NetTask
        <3>6. CASE CfgTask \/ NtpTask \/ Alert \/ EndTrace \/ UploadReboots \/ Rotate \/ Reopen
            BY <2>1, <3>6 DEF CfgTask, NtpTask, Alert, EndTrace, UploadReboots, Rotate, Reopen
        <3>7. CASE ReporterStep
            BY <3>7 DEF ReporterStep, OpenDirectory, NextReport, OpenReport, CloseReport, PostReport,
                        ReportDone, ReporterBeat, ReporterReboots, WritesToClosedLog, CloseDirectory,
                        GoDown, netVars, pingVars
        <3> QED
            BY <3>1, <3>2, <3>3, <3>4, <3>5, <3>6, <3>7 DEF Next, ThreadStep
    <2>3. clock \in 0 .. Wrap - 1 /\ startms \in 0 .. Wrap - 1 /\ waited \in Nat
        BY DEF TypeInv, TypeOK, NetTypeOK, Instant
    <2>4. startms + Timeout < Wrap
        BY <2>3 DEF NearWrap
    <2>5. Deadline = startms + Timeout
        <3>1. /\ startms + Timeout \in Nat /\ LongWrap \in Nat \ {0}
              /\ startms + Timeout < LongWrap
            BY <2>3, <2>4
        <3> QED
            BY <3>1, DivisionOnce DEF Deadline
    <2>6. ~(clock < startms + Timeout)
        BY <2>2, <2>5 DEF PingEnds, InTime
    <2>7. clock = startms + waited /\ waited <= Timeout
        BY DEF WaitInv
    <2> QED
        BY <2>3, <2>6, <2>7
<1> QED
    BY <1>1, <1>2, <1>3, PTL DEF Spec, PingWaits

-----------------------------------------------------------------------------
(***************************************************************************)
(* The log, and the way out of a sketch without descriptors.                *)
(***************************************************************************)

Excused == failed \/ (Debug /\ interfered)

\* A sketch at work has a log.
SketchLogs == at \in Loop \cup {"ping", "spinning"} /\ ~log => Excused

\* One on its way to a reboot has the descriptor that the log gave back; nothing of the main
\* thread opens one there.
WayOut == at = "rebooting" => Room > 0 \/ Excused

\* So has a rotation, and the name of the file.
WayBack == at = "reopening" => (Room > 0 /\ path) \/ Excused

\* A dog has a file to judge by, until the sketch reboots.
DogSees == dog /\ ~watch => at \in {"off", "rebooting", "halted"} \/ Excused

WayInv ==
    /\ SketchLogs /\ WayOut /\ WayBack /\ DogSees
    /\ at = "halted" => Excused

OutInv == WayInv /\ (log => path)

\* Nothing but the end of the run takes an excuse away.
LEMMA ExcuseStays ==
    ASSUME Excused, at # "off", [Next]_vars
    PROVE  Excused' \/ at' = "off"
<1> USE DEF Excused, Debug
<1>1. CASE RebootCommand \/ Bark \/ Upgrade
    BY <1>1 DEF RebootCommand, Bark, Upgrade, GoDown
<1>2. CASE Pass \/ HeartBeat \/ SetSyslog \/ GetInfo \/ CommandTrace \/ CommandReboot
           \/ RebootFails
    BY <1>2 DEF Pass, HeartBeat, SetSyslog, GetInfo, CommandTrace, StartTrace, CommandReboot,
                RebootFails, reporterVars
<1>3. CASE NetTask \/ PingStep \/ PingReboots \/ PingWorld
    BY <1>3 DEF NetTask, PingStep, PingReboots, PingWorld, reporterVars
<1>4. CASE CfgTask \/ NtpTask \/ Alert \/ EndTrace \/ UploadReboots \/ Rotate \/ Reopen
    BY <1>4 DEF CfgTask, NtpTask, Alert, EndTrace, UploadReboots, Rotate, Reopen, StartTrace,
                reporterVars
<1>5. CASE InterfaceChanges \/ DogDies \/ UNCHANGED vars
    BY <1>5 DEF InterfaceChanges, DogDies, vars, reporterVars
<1>6. CASE ReporterStep
    BY <1>6 DEF ReporterStep, OpenDirectory, NextReport, OpenReport, CloseReport, PostReport,
                ReportDone, ReporterBeat, ReporterReboots, WritesToClosedLog, CloseDirectory,
                Opens, GoDown, reporterVars
<1>7. CASE Boot
    BY <1>7 DEF Boot
<1> QED
    BY <1>1, <1>2, <1>3, <1>4, <1>5, <1>6, <1>7 DEF Next, ThreadStep

\* The name of the log is kept as long as the log is open.
LEMMA PathKept ==
    ASSUME TypeOK, log => path, [Next]_vars
    PROVE  log' => path'
<1>1. CASE RebootCommand \/ Bark \/ Upgrade \/ Boot
    BY <1>1 DEF RebootCommand, Bark, Upgrade, GoDown, Boot
<1>2. CASE Pass \/ HeartBeat \/ SetSyslog \/ GetInfo \/ CommandTrace \/ CommandReboot
           \/ RebootFails
    BY <1>2 DEF Pass, HeartBeat, SetSyslog, GetInfo, CommandTrace, StartTrace, CommandReboot,
                RebootFails, Reboot
<1>3. CASE NetTask \/ PingStep \/ PingReboots \/ PingWorld
    BY <1>3 DEF NetTask, PingStep, PingReboots, PingWorld, Reboot
<1>4. CASE CfgTask \/ NtpTask \/ Alert \/ EndTrace \/ UploadReboots \/ Rotate \/ Reopen
    BY <1>4 DEF CfgTask, NtpTask, Alert, EndTrace, UploadReboots, Rotate, Reopen, StartTrace,
                Reboot
<1>5. CASE InterfaceChanges \/ DogDies \/ UNCHANGED vars
    BY <1>5 DEF InterfaceChanges, DogDies, vars
<1>6. CASE ReporterStep
    BY <1>6 DEF ReporterStep, OpenDirectory, NextReport, OpenReport, CloseReport, PostReport,
                ReportDone, ReporterBeat, ReporterReboots, WritesToClosedLog, CloseDirectory, GoDown
<1> QED
    BY <1>1, <1>2, <1>3, <1>4, <1>5, <1>6 DEF Next, ThreadStep

\* A log that is closed leaves room for a descriptor.
LEMMA LogGivesRoom ==
    ASSUME TypeOK, lost' \in Nat, log, ~log', UNCHANGED reporter,
           \/ lost' + Count(trace') + Count(waiting') <= lost + Count(trace) + Count(waiting)
           \/ /\ Room > 0
              /\ lost' + Count(trace') + Count(waiting')
                   <= lost + Count(trace) + Count(waiting) + 1
    PROVE  Room' > 0
<1>1. Count(log) = 1 /\ Count(log') = 0
    BY DEF Count
<1>2. Count(trace') \in Nat /\ Count(waiting') \in Nat
    BY DEF Count
<1>3. Held' = Held /\ Held \in 0 .. 2 /\ Count(trace) \in 0 .. 1 /\ Count(waiting) \in 0 .. 1
    BY HeldByNext, CountTyped
<1>4. Used = lost + 1 + Count(trace) + Count(waiting) + Held
    BY <1>1 DEF Used
<1>5. Used' = lost' + Count(trace') + Count(waiting') + Held
    <2>1. Used' = lost' + Count(log') + Count(trace') + Count(waiting') + Held'
        BY DEF Used, Count
    <2> QED
        BY <1>1, <1>2, <1>3, <2>1
<1>6. lost \in Nat /\ Used <= Size /\ Room = Size - Used /\ Room' = Size - Used'
    BY DEF TypeOK, NetTypeOK, Room
<1> DEFINE before == lost + Count(trace) + Count(waiting)
           after == lost' + Count(trace') + Count(waiting')
<1>7. before \in Nat /\ after \in Nat
    BY <1>2, <1>3, <1>6
<1>8. Used = before + 1 + Held /\ Used' = after + Held
    BY <1>2, <1>3, <1>4, <1>5, <1>6
<1>9. after <= before \/ (Room > 0 /\ after <= before + 1)
    OBVIOUS
<1> HIDE DEF before, after
<1> QED
    BY <1>3, <1>6, <1>7, <1>8, <1>9

\* What the main thread does in its loop, short of a reboot and a rotation.
LEMMA AtWork ==
    ASSUME TypeInv, OutInv, ~Excused, at \in Loop \cup {"ping", "spinning"},
           at' \in Loop \cup {"ping", "spinning", "dead"}, UNCHANGED <<log, dog>>,
           watch' \in {watch, TRUE}
    PROVE  WayInv'
<1>1. log /\ (~dog \/ watch)
    BY DEF OutInv, WayInv, SketchLogs, DogSees, Loop
<1>2. at' \notin {"rebooting", "reopening", "halted"}
    BY DEF Loop
<1> QED
    BY <1>1, <1>2 DEF WayInv, SketchLogs, WayOut, WayBack, DogSees

\* Its way to a reboot: platformReboot() closes a log that is open.
LEMMA OnTheWay ==
    ASSUME TypeInv, OutInv, ~Excused, at \in Loop \cup {"ping", "spinning"}, Reboot,
           lost' \in Nat, UNCHANGED reporter,
           \/ lost' + Count(trace') + Count(waiting') <= lost + Count(trace) + Count(waiting)
           \/ /\ Room > 0
              /\ lost' + Count(trace') + Count(waiting')
                   <= lost + Count(trace) + Count(waiting) + 1
    PROVE  WayInv'
<1>1. log /\ at' = "rebooting" /\ ~log'
    BY DEF OutInv, WayInv, SketchLogs, Reboot
<1>2. Room' > 0
    BY <1>1, LogGivesRoom DEF TypeInv
<1> QED
    BY <1>1, <1>2 DEF WayInv, SketchLogs, WayOut, WayBack, DogSees, Loop

LEMMA OneLostOneClosed ==
    ASSUME NEW m \in Nat, NEW n \in Nat
    PROVE  (m + 1) + 0 + n <= m + 1 + n
    OBVIOUS

LEMMA SumTyped ==
    ASSUME NEW m \in Nat, NEW n \in Nat
    PROVE  m + n \in Nat
    OBVIOUS

LEMMA RoomArithmetic ==
    ASSUME NEW m \in Nat, NEW n \in Nat, NEW o \in Nat
    PROVE  /\ n <= m => Size - (n + o) >= Size - (m + o)
           /\ n <= m + 1 => Size - (n + o) >= Size - (m + o) - 1
    OBVIOUS

\* The room that a step leaves which changes nothing of the main thread's.
LEMMA RoomBeside ==
    ASSUME TypeOK, lost' \in Nat, Held' \in 0 .. 2, UNCHANGED <<log, trace, waiting>>
    PROVE  /\ Room \in Nat /\ Room' \in Int
           /\ lost' + Held' <= lost + Held => Room' >= Room
           /\ lost' + Held' <= lost + Held + 1 => Room' >= Room - 1
<1>1. /\ Count(log') = Count(log) /\ Count(trace') = Count(trace)
      /\ Count(waiting') = Count(waiting)
    BY DEF Count
<1> DEFINE others == Count(log) + Count(trace) + Count(waiting)
<1>2. others \in Nat /\ lost \in Nat /\ lost' \in Nat /\ Held \in Nat /\ Held' \in Nat
    BY CountTyped DEF TypeOK, NetTypeOK
<1>3. Used = (lost + Held) + others
    BY <1>2, CountTyped DEF Used
<1>4. Used' = (lost' + Held') + others
    <2>1. Used' = lost' + Count(log) + Count(trace) + Count(waiting) + Held'
        BY <1>1 DEF Used, Count
    <2> QED
        BY <1>2, <2>1, CountTyped
<1>5. Room = Size - Used /\ Room' = Size - Used' /\ Room \in Nat
    BY RoomLeft DEF Room
<1> HIDE DEF others
<1>6. lost + Held \in Nat /\ lost' + Held' \in Nat
    BY <1>2, SumTyped
<1>7. Room = Size - ((lost + Held) + others) /\ Room' = Size - ((lost' + Held') + others)
    BY <1>3, <1>4, <1>5
<1>8. Room' \in Int
    BY <1>2, <1>6, <1>7
<1>9. /\ lost' + Held' <= lost + Held => Room' >= Room
      /\ lost' + Held' <= lost + Held + 1 => Room' >= Room - 1
    BY <1>2, <1>6, <1>7, RoomArithmetic
<1> QED
    BY <1>5, <1>8, <1>9

\* The crash report thread may take the last descriptor, but not unnoticed.
LEMMA ReporterNoticed ==
    ASSUME TypeInv, OutInv, ~Excused, ReporterStep
    PROVE  WayInv'
<1>0. /\ at # "halted"
      /\ at \in Loop \cup {"ping", "spinning"} => log
      /\ dog /\ ~watch => at \in {"off", "rebooting"}
      /\ at = "reopening" => path
      /\ at \in {"rebooting", "reopening"} => Room > 0
    BY DEF OutInv, WayInv, SketchLogs, WayOut, WayBack, DogSees
<1>1. ASSUME Excused'
      PROVE  WayInv'
    BY <1>1 DEF WayInv, SketchLogs, WayOut, WayBack, DogSees
<1>2. ASSUME UNCHANGED <<at, log, path, dog>>, watch' \in {watch, TRUE},
             at \in {"rebooting", "reopening"} => Room' > 0
      PROVE  WayInv'
    <2>1. SketchLogs' /\ (at' = "halted" => Excused')
        BY <1>0, <1>2 DEF SketchLogs
    <2>2. WayOut'
        BY <1>0, <1>2 DEF WayOut
    <2>3. WayBack'
        BY <1>0, <1>2 DEF WayBack
    <2>4. DogSees'
        <3>1. dog' /\ ~watch' => dog /\ ~watch
            BY <1>2
        <3> QED
            BY <1>0, <1>2, <3>1 DEF DogSees
    <2> QED
        BY <2>1, <2>2, <2>3, <2>4 DEF WayInv
<1>3. CASE ReporterReboots
    <2>1. CASE Room > 0
        BY <1>3, <2>1 DEF ReporterReboots, GoDown, WayInv, SketchLogs, WayOut, WayBack, DogSees, Loop
    <2>2. CASE ~(Room > 0)
        <3>1. /\ reporter = "rebooting" /\ reporter' = "halted"
              /\ UNCHANGED <<netVars, at, log, path, trace, watch, dog>>
            BY <1>3, <2>2 DEF ReporterReboots, ReporterAt
        <3> QED
            BY <1>0, <1>2, <2>2, <3>1
    <2> QED
        BY <2>1, <2>2
<1>4. CASE WritesToClosedLog
    BY <1>0, <1>4 DEF WritesToClosedLog, WayInv, SketchLogs, WayOut, WayBack, DogSees, Loop
<1>5. CASE ReporterBeat
    <2>1. CASE watch' = FALSE /\ interfered' = TRUE /\ reporter' = "rebooting"
        BY <1>1, <2>1 DEF Excused, Debug
    <2>2. CASE Room > 0 /\ watch' = TRUE /\ UNCHANGED <<log, failed, reporterVars>>
        <3>1. UNCHANGED <<netVars, at, path, trace, dog, reporter>>
            BY <1>5, <2>2 DEF ReporterBeat, reporterVars
        <3>2. Held' = Held
            BY <3>1, HeldByNext
        <3>3. Used' = Used
            BY <2>2, <3>1, <3>2 DEF Used, Count, netVars, pingVars
        <3>4. Room' = Room
            BY <3>3 DEF Room
        <3> QED
            BY <1>2, <2>2, <3>1, <3>4
    <2> QED
        BY <1>5, <2>1, <2>2 DEF ReporterBeat
<1>6. CASE OpenDirectory \/ NextReport \/ OpenReport \/ CloseReport \/ PostReport
           \/ ReportDone \/ CloseDirectory
    <2>1. UNCHANGED <<pingVars, at, log, path, trace, watch, dog, failed>>
        BY <1>6 DEF OpenDirectory, NextReport, OpenReport, CloseReport, PostReport, ReportDone,
                    CloseDirectory, netVars
    <2>2. /\ reporter' # "absent" /\ lost' \in Nat /\ Held' \in 0 .. 2
          /\ \/ lost' + Held' <= lost + Held
             \/ Opens /\ lost' + Held' <= lost + Held + 1
        BY <1>6, ReporterCounts DEF TypeInv
    <2>3. /\ Room \in Nat /\ Room' \in Int
          /\ lost' + Held' <= lost + Held => Room' >= Room
          /\ lost' + Held' <= lost + Held + 1 => Room' >= Room - 1
        BY <2>1, <2>2, RoomBeside DEF TypeInv, pingVars
    <2>4. CASE interfered'
        BY <1>1, <2>2, <2>4 DEF Excused, Debug
    <2>5. CASE ~interfered'
        <3>1. at \in {"rebooting", "reopening"} => Room' > 0
            <4>1. CASE lost' + Held' <= lost + Held
                BY <1>0, <2>3, <4>1
            <4>2. CASE Opens /\ lost' + Held' <= lost + Held + 1
                <5>1. at \in {"rebooting", "reopening"} => Room > 1
                    <6>1. ~(Room = 1 /\ at \in {"rebooting", "reopening"})
                        BY <2>5, <4>2 DEF Opens
                    <6> QED
                        BY <1>0, <2>3, <6>1
                <5> QED
                    BY <2>3, <4>2, <5>1
            <4> QED
                BY <2>2, <4>1, <4>2
        <3> QED
            BY <1>2, <2>1, <3>1
    <2> QED
        BY <2>4, <2>5
<1> QED
    BY <1>3, <1>4, <1>5, <1>6 DEF ReporterStep

\* An excuse covers everything, and off there is nothing to cover.
LEMMA WayIfExcused ==
    ASSUME Excused' \/ at' = "off"
    PROVE  WayInv'
    BY DEF WayInv, SketchLogs, WayOut, WayBack, DogSees, Loop

LEMMA OffStays ==
    ASSUME at = "off", [Next]_vars, ~Boot
    PROVE  at' = "off"
<1>1. ~ThreadStep /\ ~PingWorld /\ ~RebootFails
    BY DEF ThreadStep, RebootCommand, Pass, HeartBeat, SetSyslog, GetInfo, CommandTrace,
           CommandReboot, NetTask, PingStep, PingReboots, CfgTask, Upgrade, NtpTask, Alert,
           EndTrace, UploadReboots, Rotate, Reopen, PingWorld, RebootFails
<1>2. CASE ReporterStep
    BY <1>2 DEF ReporterStep, ReporterAt, OpenDirectory, NextReport, OpenReport, CloseReport,
                PostReport, ReportDone, ReporterBeat, ReporterReboots, WritesToClosedLog,
                CloseDirectory
<1>3. CASE Bark \/ DogDies \/ InterfaceChanges \/ UNCHANGED vars
    BY <1>3 DEF Bark, GoDown, DogDies, InterfaceChanges, vars
<1> QED
    BY <1>1, <1>2, <1>3 DEF Next

LEMMA OutStarts ==
    ASSUME TypeInv, Boot
    PROVE  WayInv'
<1>1. at' = "top" /\ (log' \/ failed') /\ (dog' => watch')
    <2>1. CASE dog'
        BY <2>1 DEF Boot
    <2>2. CASE ~dog'
        BY <2>2 DEF Boot
    <2> QED
        BY <2>1, <2>2 DEF Boot
<1> QED
    BY <1>1 DEF WayInv, SketchLogs, WayOut, WayBack, DogSees, Excused, Loop

\* No ping() has a socket outside of ping().
LEMMA Unchecked ==
    ASSUME TypeInv, at # "ping", UNCHANGED waiting
    PROVE  Count(waiting') = 0 /\ Count(waiting) = 0
    BY DEF TypeInv, SocketInPing, Count

\* The steps of the main thread at work.
LEMMA MainNoticed ==
    ASSUME TypeInv, OutInv, ~Excused,
           \/ Pass \/ HeartBeat \/ SetSyslog \/ GetInfo \/ CommandTrace \/ CommandReboot
           \/ NetTask \/ CfgTask \/ NtpTask \/ Alert \/ EndTrace \/ UploadReboots
    PROVE  WayInv'
<1>0. lost \in Nat /\ Count(trace) \in 0 .. 1 /\ Count(waiting) \in 0 .. 1
    BY CountTyped DEF TypeInv, TypeOK, NetTypeOK
<1>1. CASE Pass \/ SetSyslog \/ GetInfo \/ CommandTrace \/ CfgTask \/ NtpTask \/ Alert
    <2>1. /\ at \in Loop \cup {"ping", "spinning"}
          /\ at' \in Loop \cup {"ping", "spinning", "dead"}
          /\ UNCHANGED <<log, dog, watch>>
        BY <1>1 DEF Pass, SetSyslog, GetInfo, CommandTrace, CfgTask, NtpTask, Alert, StartTrace, Loop
    <2> QED
        BY <2>1, AtWork
<1>2. CASE HeartBeat
    <2>1. at = "top" /\ UNCHANGED <<netVars, trace, dog, reporter>>
        BY <1>2 DEF HeartBeat, reporterVars
    <2>2. CASE watch' = TRUE /\ at' = "command" /\ UNCHANGED <<log, failed>>
        BY <2>1, <2>2, AtWork DEF Loop
    <2>3. CASE Reboot
        <3>1. lost' = lost /\ Count(trace') = Count(trace) /\ Count(waiting') = Count(waiting)
            BY <2>1 DEF netVars, pingVars, Count
        <3> QED
            BY <1>0, <2>1, <2>3, <3>1, OnTheWay DEF Loop
    <2> QED
        BY <1>2, <2>2, <2>3 DEF HeartBeat
<1>3. CASE CommandReboot
    <2>1. at = "command" /\ UNCHANGED <<netVars, trace, reporter>> /\ Reboot
        BY <1>3 DEF CommandReboot, reporterVars
    <2>2. lost' = lost /\ Count(trace') = Count(trace) /\ Count(waiting') = Count(waiting)
        BY <2>1 DEF netVars, pingVars, Count
    <2> QED
        BY <1>0, <2>1, <2>2, OnTheWay DEF Loop
<1>4. CASE NetTask
    <2>1. at = "net" /\ UNCHANGED <<waiting, trace, watch, dog, reporter>>
        BY <1>4 DEF NetTask, reporterVars
    <2>2. lost' = lost \/ (Room > 0 /\ lost' = lost + 1)
        BY <1>4 DEF NetTask
    <2>3. CASE at' = "ping" /\ UNCHANGED log
        BY <2>1, <2>3, AtWork DEF Loop
    <2>4. CASE Reboot
        <3>1. Count(trace') = Count(trace) /\ Count(waiting') = Count(waiting)
            BY <2>1 DEF Count
        <3> QED
            BY <1>0, <2>1, <2>2, <2>4, <3>1, OnTheWay DEF Loop
    <2> QED
        BY <1>4, <2>3, <2>4 DEF NetTask
<1>5. CASE EndTrace
    <2>1. /\ at = "seismo" /\ at' \in {"seismo", "dead"} /\ UNCHANGED <<log, dog>>
          /\ watch' \in {watch, TRUE}
        BY <1>5 DEF EndTrace
    <2> QED
        BY <2>1, AtWork DEF Loop
<1>6. CASE UploadReboots
    <2>1. /\ at = "seismo" /\ trace /\ ~trace' /\ lost' = lost + 1 /\ Reboot
          /\ UNCHANGED <<waiting, reporter>>
        BY <1>6 DEF UploadReboots, pingVars, reporterVars
    <2>2. Count(trace) = 1 /\ Count(trace') = 0 /\ Count(waiting') = Count(waiting)
        BY <2>1 DEF Count
    <2>3. lost' \in Nat
        BY <1>0, <2>1
    <2>4. lost' + Count(trace') + Count(waiting') <= lost + Count(trace) + Count(waiting)
        <3>1. (lost + 1) + 0 + Count(waiting) <= lost + 1 + Count(waiting)
            BY <1>0, OneLostOneClosed
        <3> QED
            BY <2>1, <2>2, <3>1
    <2> QED
        BY <2>1, <2>3, <2>4, OnTheWay DEF Loop
<1> QED
    BY <1>1, <1>2, <1>3, <1>4, <1>5, <1>6

\* Those of ping().
LEMMA PingNoticed ==
    ASSUME TypeInv, OutInv, ~Excused, PingStep \/ PingReboots \/ PingWorld
    PROVE  WayInv'
<1>1. at = "ping" /\ UNCHANGED <<trace, watch, dog, reporter>>
    BY DEF PingStep, PingReboots, PingWorld, reporterVars
<1>2. CASE PingStep
    <2>1. /\ NetTypeOK'
          /\ \/ lost' + Count(waiting') <= lost + Count(waiting)
             \/ Room > 0 /\ lost' + Count(waiting') <= lost + Count(waiting) + 1
        BY <1>2, PingCounts DEF PingStep, TypeInv
    <2>2. CASE Reboot
        <3>1. /\ lost' \in Nat /\ lost \in Nat /\ Count(trace') = Count(trace)
              /\ Count(trace) \in 0 .. 1 /\ Count(waiting) \in 0 .. 1 /\ Count(waiting') \in 0 .. 1
            BY <1>1, <2>1, CountTyped DEF TypeInv, TypeOK, NetTypeOK, Count
        <3> QED
            BY <1>1, <2>1, <2>2, <3>1, OnTheWay DEF Loop
    <2>3. CASE at' \in {"ping", "cfg", "net"} /\ UNCHANGED log
        BY <1>1, <2>3, AtWork DEF Loop
    <2> QED
        BY <1>2, <2>2, <2>3 DEF PingStep
<1>3. CASE PingReboots
    <2>1. UNCHANGED netVars /\ Reboot
        BY <1>3 DEF PingReboots
    <2>2. /\ lost' = lost /\ Count(trace') = Count(trace) /\ Count(waiting') = Count(waiting)
          /\ lost \in Nat /\ Count(trace) \in 0 .. 1 /\ Count(waiting) \in 0 .. 1
        BY <1>1, <2>1, CountTyped DEF netVars, pingVars, Count, TypeInv, TypeOK, NetTypeOK
    <2> QED
        BY <1>1, <2>1, <2>2, OnTheWay DEF Loop
<1>4. CASE PingWorld
    BY <1>1, <1>4, AtWork DEF PingWorld, Loop
<1> QED
    BY <1>2, <1>3, <1>4

\* A rotation gives back the log's descriptor and takes it again.
LEMMA RotationNoticed ==
    ASSUME TypeInv, OutInv, ~Excused, Rotate \/ Reopen
    PROVE  WayInv'
<1>1. UNCHANGED <<netVars, trace, watch, dog, reporter, interfered>>
    BY DEF Rotate, Reopen, reporterVars
<1>2. ~dog \/ watch \/ at \in {"off", "rebooting", "halted"}
    BY DEF OutInv, WayInv, DogSees
<1>3. CASE Rotate
    <2>1. at = "log" /\ at' = "reopening" /\ ~log' /\ UNCHANGED path
        BY <1>3 DEF Rotate
    <2>2. log /\ path
        BY <2>1 DEF OutInv, WayInv, SketchLogs, Loop
    <2>3. /\ lost' = lost /\ lost' \in Nat /\ Count(trace') = Count(trace)
          /\ Count(waiting') = Count(waiting)
        BY <1>1 DEF netVars, pingVars, Count, TypeInv, TypeOK, NetTypeOK
    <2>4. Count(trace) \in 0 .. 1 /\ Count(waiting) \in 0 .. 1
        BY CountTyped DEF TypeInv
    <2>5. Room' > 0
        BY <1>1, <2>1, <2>2, <2>3, <2>4, LogGivesRoom DEF TypeInv
    <2> QED
        BY <1>1, <1>2, <2>1, <2>2, <2>5 DEF WayInv, SketchLogs, WayOut, WayBack, DogSees, Loop
<1>4. CASE Reopen
    <2>1. at = "reopening" /\ at' = "top"
        BY <1>4 DEF Reopen
    <2>2. Room > 0 /\ path
        BY <2>1 DEF OutInv, WayInv, WayBack
    <2>3. log' \/ failed'
        BY <1>4, <2>2 DEF Reopen
    <2> QED
        BY <1>1, <1>2, <2>1, <2>3 DEF WayInv, SketchLogs, WayOut, WayBack, DogSees, Excused, Loop
<1> QED
    BY <1>3, <1>4

\* The interface comes and goes, the dog dies of it.
LEMMA WorldNoticed ==
    ASSUME TypeInv, OutInv, ~Excused, InterfaceChanges \/ DogDies \/ UNCHANGED vars
    PROVE  WayInv'
<1>1. /\ UNCHANGED <<netVars, at, log, path, trace, watch, failed, reporterVars>>
      /\ dog' => dog
    BY DEF InterfaceChanges, DogDies, vars
<1>2. UNCHANGED <<reporter, interfered, lost, waiting>>
    BY <1>1 DEF netVars, pingVars, reporterVars
<1>3. Held' = Held
    BY <1>2, HeldByNext
<1>4. Used' = Used
    BY <1>1, <1>2, <1>3 DEF Used, Count
<1>5. Room' = Room
    BY <1>4 DEF Room
<1>6. Excused' <=> Excused
    BY <1>1, <1>2 DEF Excused, Debug
<1>7. SketchLogs' /\ (at' = "halted" => Excused')
    BY <1>1, <1>6 DEF OutInv, WayInv, SketchLogs
<1>8. WayOut' /\ WayBack'
    BY <1>1, <1>5, <1>6 DEF OutInv, WayInv, WayOut, WayBack
<1>9. DogSees'
    BY <1>1, <1>6 DEF OutInv, WayInv, DogSees
<1> QED
    BY <1>7, <1>8, <1>9 DEF WayInv

LEMMA OutKept ==
    ASSUME TypeInv, OutInv, [Next]_vars
    PROVE  OutInv'
<1>1. log' => path'
    BY PathKept DEF TypeInv, OutInv
<1>2. WayInv'
    <2>1. CASE Boot
        BY <2>1, OutStarts
    <2>2. CASE RebootCommand \/ Bark \/ Upgrade
        BY <2>2, WayIfExcused DEF RebootCommand, Bark, Upgrade, GoDown
    <2>3. CASE at = "off" /\ ~Boot
        BY <2>3, OffStays, WayIfExcused
    <2>4. CASE Excused /\ at # "off"
        BY <2>4, ExcuseStays, WayIfExcused
    <2>5. CASE ~Excused /\ ReporterStep
        BY <2>5, ReporterNoticed
    <2>6. CASE ~Excused /\ (InterfaceChanges \/ DogDies \/ UNCHANGED vars)
        BY <2>6, WorldNoticed
    <2>7. CASE ~Excused /\ RebootFails
        BY <2>7 DEF RebootFails, OutInv, WayInv, WayOut
    <2> QED
        BY <2>1, <2>2, <2>3, <2>4, <2>5, <2>6, <2>7, MainNoticed, PingNoticed, RotationNoticed
        DEF Next, ThreadStep
<1> QED
    BY <1>1, <1>2 DEF OutInv

LEMMA OutHolds == Spec => [](TypeInv /\ OutInv)
<1>1. Init => TypeInv /\ OutInv
    BY InitTyped DEF Init, OutInv, WayInv, SketchLogs, WayOut, WayBack, DogSees, Loop
<1>2. TypeInv /\ OutInv /\ [Next]_vars => TypeInv' /\ OutInv'
    BY TypeInductive, OutKept
<1> QED
    BY <1>1, <1>2, PTL DEF Spec

\* The sketch keeps its log whatever it has lost: a rotation gives a descriptor back before it
\* takes one.  Only a failing file system ends the log, or in a DEBUG build a crash report
\* thread that comes between.
THEOREM LoggingGoesOn == Spec => []LogSurvives
<1>1. OutInv => LogSurvives
    BY DEF OutInv, WayInv, SketchLogs, LogSurvives, Excused
<1> QED
    BY <1>1, OutHolds, PTL

\* No number of lost descriptors makes the board hang where its dog does not see it, nor takes
\* the Raspberry Pi its one try to reboot: the log has just given one back, and the heartbeat
\* file is removed on the way to a reboot alone.  The same two excuses.
THEOREM AlwaysAWayOut == Spec => []StuckOnlyIfFailed
<1>1. ASSUME TypeInv, OutInv
      PROVE  StuckOnlyIfFailed
    <2>1. CASE at = "halted"
        BY <1>1, <2>1 DEF OutInv, WayInv, Excused, StuckOnlyIfFailed
    <2>2. CASE at = "rebooting" /\ Room = 0
        BY <1>1, <2>2 DEF OutInv, WayInv, WayOut, Excused, StuckOnlyIfFailed
    <2>3. CASE at \in {"ping", "spinning"} /\ dog /\ ~watch
        BY <1>1, <2>3 DEF OutInv, WayInv, DogSees, Excused, StuckOnlyIfFailed
    <2> QED
        BY <2>1, <2>2, <2>3 DEF StuckOnlyIfFailed, Stuck, Hung
<1> QED
    BY <1>1, OutHolds, PTL

=============================================================================
