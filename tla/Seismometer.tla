---------------------------- MODULE Seismometer ----------------------------
(***************************************************************************)
(* Seismometer.cpp: every tick reads the accelerometer, judges the reading  *)
(* by a threshold (mean + sigma * standard deviation of the readings since   *)
(* the last configuration), adds it to the running statistics and, unless an *)
(* event was raised less than EventHold ago, raises one: red LED on and a    *)
(* POST to the server that blocks the only thread of the program.            *)
(*                                                                          *)
(* Arithmetic is exact: a reading is an integer in a unit so small that the *)
(* divisions of the algorithm leave no remainder for MaxElements readings.   *)
(* The rounding of doubles is not modelled, nor the probe speed counter and  *)
(* the trace file, which tick() writes and no decision here reads.           *)
(***************************************************************************)
EXTENDS Millis, Sequences

CONSTANTS
    EventHold,      \* 5000 ms
    Readings,       \* what getTotalVector() may return
    PowerOn,        \* quakeThreshold before two readings were averaged: 1
    Sigmas,         \* values of "sigma" the server sends
    Dawn,           \* what the system clock may show at start
    Steps,          \* by how much a clock step moves the clock
    MaxElements,    \* bound: readings between two configurations
    MaxTime,        \* bound: real time stops here
    MaxSteps        \* bound: how often the clock is stepped

ASSUME SeismometerAssumption ==
    /\ EventHold \in Nat
    /\ Readings \subseteq Nat
    /\ PowerOn \in Nat
    /\ Sigmas \subseteq Nat
    /\ Dawn \subseteq Nat
    /\ Steps \subseteq Int
    /\ MaxElements \in Nat
    /\ MaxTime \in Nat
    /\ MaxSteps \in Nat

DefaultSigma == 3
Never == -1

VARIABLES
    now, wall, clockSteps,  \* real time, the system clock, steps so far
    elements, partialAvg, partialStdDev,    \* running statistics (Welford)
    quakeThreshold, \* what the threshold in force was computed from
    sigmaIter,
    inEvent, lastEventWas,
    red,            \* the red LED, as tick() sets it
    posting,        \* the thread is in httpSendAlert()
    \* History variables.
    window,         \* the readings since resetLastPeriod()
    judged,         \* the readings and the sigma the threshold stands for
    alertAt,        \* real time of the last alert, or Never
    disturbed       \* the clock was stepped since then

statVars == <<elements, partialAvg, partialStdDev, quakeThreshold, window, judged>>
eventVars == <<inEvent, lastEventWas, red, posting, alertAt, disturbed>>
clockVars == <<now, wall, clockSteps>>
vars == <<clockVars, statVars, sigmaIter, eventVars>>

\* Types; the running statistics count the readings of the window.
TypeOK ==
    /\ now \in Nat /\ wall \in Nat /\ clockSteps \in Nat
    /\ elements \in 0 .. MaxElements
    /\ partialAvg \in Int
    /\ partialStdDev \in Int
    /\ quakeThreshold \in [avg : Int, dev : Int, n : 0 .. MaxElements, sigma : Nat]
    /\ sigmaIter \in Nat
    /\ inEvent \in BOOLEAN /\ red \in BOOLEAN /\ posting \in BOOLEAN
    /\ lastEventWas \in Instant
    /\ window \in Seq(Readings) /\ Len(window) = elements
    /\ judged \in [samples : Seq(Readings), sigma : Nat]
    /\ alertAt \in Nat \cup {Never}
    /\ disturbed \in BOOLEAN

-----------------------------------------------------------------------------
\* partialAvg + getCurrentSTDDEV() * sigma, kept unevaluated: dev / (n - 1) is
\* the square of the deviation.  With no deviation it is the bare average.
Threshold(avg, dev, n, sigma) == [avg |-> avg, dev |-> dev, n |-> n, sigma |-> sigma]

PowerOnThreshold == Threshold(PowerOn, 0, 0, 0)

\* value > threshold, squared so that the root is not taken.
Exceeds(value, thr) ==
    LET above == value - thr.avg
    IN  /\ above > 0
        /\ thr.n > 1 => above * above * (thr.n - 1) > thr.sigma * thr.sigma * thr.dev

Init ==
    /\ now = 0
    /\ wall \in Dawn
    /\ clockSteps = 0
    /\ elements = 0
    /\ partialAvg = 0
    /\ partialStdDev = 0
    /\ quakeThreshold = PowerOnThreshold
    /\ sigmaIter = DefaultSigma
    /\ inEvent = FALSE
    /\ lastEventWas = 0
    /\ red = FALSE
    /\ posting = FALSE
    /\ window = <<>>
    /\ judged = [samples |-> <<>>, sigma |-> 0]
    /\ alertAt = Never
    /\ disturbed = FALSE

-----------------------------------------------------------------------------
\* addValueToAvgVar(): the threshold follows from the second reading on.
AddValue(value) ==
    LET delta == value - partialAvg
    IN  /\ elements < MaxElements
        /\ elements' = elements + 1
        /\ partialAvg' = partialAvg + (delta \div elements')
        /\ partialStdDev' = partialStdDev + delta * (value - partialAvg')
        /\ window' = Append(window, value)
        /\ IF elements' > 1
              THEN /\ quakeThreshold' =
                          Threshold(partialAvg', partialStdDev', elements', sigmaIter)
                   /\ judged' = [samples |-> window', sigma |-> sigmaIter]
              ELSE UNCHANGED <<quakeThreshold, judged>>

\* Mutants: an off-by-one; the operands of the difference swapped.
EventIsOverLate == Elapsed(Millis(wall), lastEventWas) > EventHold
EventIsOverSwapped == Elapsed(lastEventWas, Millis(wall)) >= EventHold

EventIsOver == Elapsed(Millis(wall), lastEventWas) >= EventHold

\* A reading while the last event is younger than EventHold.
TickInEvent ==
    /\ ~posting
    /\ inEvent
    /\ ~EventIsOver
    /\ \E value \in Readings : AddValue(value)
    /\ UNCHANGED <<clockVars, sigmaIter, eventVars>>

\* A reading below the threshold; it ends an event that is over.
TickQuiet ==
    /\ ~posting
    /\ inEvent => EventIsOver
    /\ \E value \in Readings : ~Exceeds(value, quakeThreshold) /\ AddValue(value)
    /\ inEvent' = FALSE
    /\ red' = (red /\ ~inEvent)
    /\ UNCHANGED <<clockVars, sigmaIter, lastEventWas, posting, alertAt, disturbed>>

\* Mutant: the alert noted by the clock instead of millis().
TickAlertUnfolded ==
    /\ ~posting
    /\ inEvent => EventIsOver
    /\ \E value \in Readings : Exceeds(value, quakeThreshold) /\ AddValue(value)
    /\ inEvent' = TRUE
    /\ red' = TRUE
    /\ lastEventWas' = wall
    /\ posting' = TRUE
    /\ alertAt' = now
    /\ disturbed' = FALSE
    /\ UNCHANGED <<clockVars, sigmaIter>>

\* A reading above the threshold of the readings before it.  An event that is
\* over is closed and the next one raised in the same tick.
TickAlert ==
    /\ ~posting
    /\ inEvent => EventIsOver
    /\ \E value \in Readings : Exceeds(value, quakeThreshold) /\ AddValue(value)
    /\ inEvent' = TRUE
    /\ red' = TRUE
    /\ lastEventWas' = Millis(wall)
    /\ posting' = TRUE
    /\ alertAt' = now
    /\ disturbed' = FALSE
    /\ UNCHANGED <<clockVars, sigmaIter>>

\* httpSendAlert() returns, answered or not.
PostReturns ==
    /\ posting
    /\ posting' = FALSE
    /\ UNCHANGED <<clockVars, statVars, sigmaIter, inEvent, lastEventWas, red,
                   alertAt, disturbed>>

\* Mutant: resetLastPeriod() forgets the sum of squares.
NewServerConfigKeepsDeviation ==
    /\ ~posting
    /\ sigmaIter' \in Sigmas \cup {sigmaIter}
    /\ partialAvg' = 0
    /\ elements' = 0
    /\ window' = <<>>
    /\ UNCHANGED <<clockVars, partialStdDev, quakeThreshold, judged, eventVars>>

\* What Config::checkServerConfig() does to the seismometer on an answer, with
\* a sigma in it or without: the statistics restart, the threshold stays.
NewServerConfig ==
    /\ ~posting
    /\ sigmaIter' \in Sigmas \cup {sigmaIter}
    /\ partialAvg' = 0
    /\ partialStdDev' = 0
    /\ elements' = 0
    /\ window' = <<>>
    /\ UNCHANGED <<clockVars, quakeThreshold, judged, eventVars>>

TimePasses ==
    /\ now < MaxTime
    /\ now' = now + 1
    /\ wall' = wall + 1
    /\ UNCHANGED <<clockSteps, statVars, sigmaIter, eventVars>>

ClockStep ==
    /\ clockSteps < MaxSteps
    /\ clockSteps' = clockSteps + 1
    /\ \E s \in Steps : wall + s >= 0 /\ wall' = wall + s
    /\ disturbed' = TRUE
    /\ UNCHANGED <<now, statVars, sigmaIter, inEvent, lastEventWas, red, posting,
                   alertAt>>

Next ==
    \/ TickInEvent
    \/ TickQuiet
    \/ TickAlert
    \/ PostReturns
    \/ NewServerConfig
    \/ TimePasses
    \/ ClockStep

Spec == Init /\ [][Next]_vars

-----------------------------------------------------------------------------
(***************************************************************************)
(* Properties.                                                              *)
(***************************************************************************)

Alerting == ~posting /\ posting'
Sampling == Len(window') = Len(window) + 1

\* Two alerts are at least EventHold of real time apart, unless the clock was
\* stepped between them: the hold is measured with the clock NTP sets.
AlertSpacing ==
    [][Alerting => \/ alertAt = Never
                   \/ disturbed
                   \/ now - alertAt >= EventHold]_vars

\* Seismometer::tick(): the first reading taken EventHold after an alert, or
\* later, ends that event: afterwards the red LED is on and the seismometer deaf
\* only because the same reading raised a new one.  For less than one wrap of
\* millis(): one that comes just after a whole wrap finds the event young.
EventEnds ==
    [][(Sampling /\ inEvent /\ ~disturbed /\ now - alertAt \in EventHold .. Wrap - 1)
           => (inEvent' => alertAt' = now) /\ (red' <=> inEvent')]_vars

Total(s) == LET sum[i \in 0 .. Len(s)] == IF i = 0 THEN 0 ELSE sum[i - 1] + s[i]
            IN  sum[Len(s)]

\* n * n * the sum of the squared distances from the mean.
SquaredDistances(s) ==
    LET dist == [i \in 1 .. Len(s) |-> Len(s) * s[i] - Total(s)]
    IN  Total([i \in 1 .. Len(s) |-> dist[i] * dist[i]])

ReferenceExceeds(value, s, sigma) ==
    LET above == Len(s) * value - Total(s)
    IN  /\ above > 0
        /\ above * above * (Len(s) - 1) > sigma * sigma * SquaredDistances(s)

\* The threshold in force is that of the two-pass formula of Utils::stddev over
\* the last window that had two readings, not of a mixture of two windows or of
\* an earlier sigma than the one in force when the last of them was taken.
ThresholdIsTwoPass ==
    IF judged.samples = <<>>
       THEN quakeThreshold = PowerOnThreshold
       ELSE \A value \in Readings :
                Exceeds(value, quakeThreshold)
                    <=> ReferenceExceeds(value, judged.samples, judged.sigma)
=============================================================================
