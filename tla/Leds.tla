-------------------------------- MODULE Leds --------------------------------
(***************************************************************************)
(* LED.cpp of the Raspberry Pi: three LEDs that two threads write without a   *)
(* lock.  The LED thread tests two sets of flags, then writes; the main       *)
(* thread changes flags and LEDs in setup() and loop().  In DEBUG builds a    *)
(* third thread, which sends crash reports, makes the red one blink.         *)
(*                                                                          *)
(* A thread's statements that share something are its "todo", done one by     *)
(* one.  Time passes, 20 ms at once, when every thread waits: what a thread   *)
(* has to do takes it less than that.                                        *)
(***************************************************************************)
EXTENDS Naturals, Sequences

CONSTANTS
    Rounds,         \* 10: of startupBlink()
    FrameDelay,     \* 100 ms: between two frames of the animation, or two looks
    BlinkDelay,     \* 500 ms
    Debug           \* a DEBUG build

ASSUME LedsAssumption ==
    /\ Rounds \in Nat \ {0}
    /\ FrameDelay \in Nat \ {0}
    /\ BlinkDelay \in Nat \ {0}
    /\ Debug \in BOOLEAN

Led == {"green", "red", "yellow"}
Thread == {"main", "leds", "reporter"}

VARIABLES
    pin,            \* what the LEDs show
    status,         \* greenLedStatus, redLedStatus, yellowLedStatus
    animation,      \* ledAnimation
    blinking,       \* greenBlinkStatus, redBlinkStatus, yellowBlinkStatus
    todo,           \* for each thread, the statements before its next decision
    wake,           \* for each thread, what is left of its delay
    frame, lastBlinkStatus,     \* of the LED thread
    place,          \* of the main thread: "setup" | "position" | "ready" |
                    \* "loop" | "reboot" (ordered in the loop) | "gone"
    reporter,       \* "absent" | "started" | "posting" | "done"
    wanted          \* history: what the main thread last told each LED

flagVars == <<animation, blinking>>
pinVars == <<pin, status>>
threadVars == <<frame, lastBlinkStatus, place, reporter, wanted>>
ledsVars == <<flagVars, pinVars, todo, wake, threadVars>>

Statement ==
         [op : {"status", "pin", "blinking", "ifblinking"}, led : Led, on : BOOLEAN]
    \cup [op : {"animation"}, on : BOOLEAN]
    \cup [op : {"delay"}, units : Nat]

LedsTypeOK ==
    /\ pin \in [Led -> BOOLEAN] /\ status \in [Led -> BOOLEAN]
    /\ animation \in BOOLEAN /\ blinking \subseteq Led
    /\ todo \in [Thread -> Seq(Statement)]
    /\ wake \in [Thread -> Nat]
    /\ frame \in 0 .. 2 /\ lastBlinkStatus \in BOOLEAN
    /\ place \in {"setup", "position", "ready", "loop", "reboot", "gone"}
    /\ reporter \in {"absent", "started", "posting", "done"}
    /\ wanted \in [Led -> BOOLEAN]

-----------------------------------------------------------------------------
(***************************************************************************)
(* What the operations of LED do, as statements.                            *)
(***************************************************************************)

\* set(): the variable, then the LED.
Set(led, on) == << [op |-> "status", led |-> led, on |-> on],
                   [op |-> "pin", led |-> led, on |-> on] >>

SetAll(green, red, yellow) ==
    Set("green", green) \o Set("red", red) \o Set("yellow", yellow)

Delay(units) == << [op |-> "delay", units |-> units] >>

SetLedAnimation(on) ==
    << [op |-> "animation", on |-> on] >>
        \o (IF on THEN <<>> ELSE SetAll(FALSE, FALSE, FALSE))

SetLedBlinking(led) == << [op |-> "blinking", led |-> led, on |-> TRUE] >>

ClearLedBlinking(led) == << [op |-> "blinking", led |-> led, on |-> FALSE] >> \o Set(led, FALSE)

StartupBlink ==
    LET round == SetAll(TRUE, TRUE, TRUE) \o Delay(1)
                     \o SetAll(FALSE, FALSE, FALSE) \o Delay(1)
        upTo[n \in 0 .. Rounds] == IF n = 0 THEN <<>> ELSE upTo[n - 1] \o round
    IN  upTo[Rounds]

\* if (greenBlinkStatus) green(on), and so on.
IfBlinking(led, on) == << [op |-> "ifblinking", led |-> led, on |-> on] >>

-----------------------------------------------------------------------------
Dark == [led \in Led |-> FALSE]

\* LED::init() has started its thread; setup() turns the animation on.  The
\* LEDs show what an earlier process left.
LedsInit ==
    /\ pin \in [Led -> BOOLEAN]
    /\ status = Dark
    /\ animation = FALSE /\ blinking = {}
    /\ todo = [t \in Thread |-> IF t = "main" THEN SetLedAnimation(TRUE) ELSE <<>>]
    /\ wake = [t \in Thread |-> 0]
    /\ frame = 0 /\ lastBlinkStatus = FALSE
    /\ place = "setup"
    /\ reporter = "absent"
    /\ wanted = Dark

\* Thread t comes to its next statement.
Comes(t, op) == wake[t] = 0 /\ todo[t] # <<>> /\ Head(todo[t]).op = op
Done(t) == todo' = [todo EXCEPT ![t] = Tail(@)]

SetStatus(t) ==
    /\ Comes(t, "status")
    /\ status' = [status EXCEPT ![Head(todo[t]).led] = Head(todo[t]).on]
    /\ Done(t)
    /\ UNCHANGED <<pin, flagVars, wake, threadVars>>

DigitalWrite(t) ==
    /\ Comes(t, "pin")
    /\ pin' = [pin EXCEPT ![Head(todo[t]).led] = Head(todo[t]).on]
    /\ Done(t)
    /\ UNCHANGED <<status, flagVars, wake, threadVars>>

SetAnimationFlag(t) ==
    /\ Comes(t, "animation")
    /\ animation' = Head(todo[t]).on
    /\ Done(t)
    /\ UNCHANGED <<blinking, pinVars, wake, threadVars>>

SetBlinkFlag(t) ==
    /\ Comes(t, "blinking")
    /\ blinking' = IF Head(todo[t]).on THEN blinking \cup {Head(todo[t]).led}
                                       ELSE blinking \ {Head(todo[t]).led}
    /\ Done(t)
    /\ UNCHANGED <<animation, pinVars, wake, threadVars>>

TestBlinkFlag(t) ==
    /\ Comes(t, "ifblinking")
    /\ LET led == Head(todo[t]).led
           write == IF led \in blinking THEN Set(led, Head(todo[t]).on) ELSE <<>>
       IN  todo' = [todo EXCEPT ![t] = write \o Tail(@)]
    /\ UNCHANGED <<flagVars, pinVars, wake, threadVars>>

StartDelay(t) ==
    /\ Comes(t, "delay")
    /\ wake' = [wake EXCEPT ![t] = Head(todo[t]).units]
    /\ Done(t)
    /\ UNCHANGED <<flagVars, pinVars, threadVars>>

\* Thread t takes its next decision, and has these statements to do.
Decides(t, statements) ==
    /\ wake[t] = 0 /\ todo[t] = <<>>
    /\ todo' = [todo EXCEPT ![t] = statements]
    /\ UNCHANGED <<flagVars, pinVars, wake>>

-----------------------------------------------------------------------------
\* Mutants: the frame is counted within the loop, and begins anew each time;
\* it is counted without end; so is the status of the blinking.
LedThreadAs(next, last) ==
    /\ \/ /\ animation
          /\ frame' = next
          /\ Decides("leds", SetAll(next = 0, next = 1, next \notin {0, 1}) \o Delay(FrameDelay))
          /\ UNCHANGED lastBlinkStatus
       \/ /\ ~animation /\ blinking # {}
          /\ lastBlinkStatus' = last
          /\ Decides("leds", IfBlinking("green", last) \o IfBlinking("red", last)
                                 \o IfBlinking("yellow", last) \o Delay(BlinkDelay))
          /\ UNCHANGED frame
       \/ /\ ~animation /\ blinking = {}
          /\ Decides("leds", Delay(FrameDelay))
          /\ UNCHANGED <<frame, lastBlinkStatus>>
    /\ UNCHANGED <<place, reporter, wanted>>

LedThreadRestarts == LedThreadAs(1, ~lastBlinkStatus)
LedThreadEndless == LedThreadAs(frame + 1, ~lastBlinkStatus)
LedThreadForgets == LedThreadAs((frame + 1) % 3, TRUE)

\* led_doWork(): one turn of its loop.
LedThread ==
    /\ \/ /\ animation
          /\ frame' = (frame + 1) % 3
          /\ Decides("leds", SetAll(frame' = 0, frame' = 1, frame' = 2) \o Delay(FrameDelay))
          /\ UNCHANGED lastBlinkStatus
       \/ /\ ~animation /\ blinking # {}
          /\ lastBlinkStatus' = ~lastBlinkStatus
          /\ Decides("leds", IfBlinking("green", lastBlinkStatus')
                                 \o IfBlinking("red", lastBlinkStatus')
                                 \o IfBlinking("yellow", lastBlinkStatus') \o Delay(BlinkDelay))
          /\ UNCHANGED frame
       \/ /\ ~animation /\ blinking = {}
          /\ Decides("leds", Delay(FrameDelay))
          /\ UNCHANGED <<frame, lastBlinkStatus>>
    /\ UNCHANGED <<place, reporter, wanted>>

-----------------------------------------------------------------------------
(***************************************************************************)
(* The main thread.  Its calls and delays take any time.                    *)
(***************************************************************************)

Main(from, statements, to) ==
    /\ place \in from
    /\ place' = to
    /\ Decides("main", statements)
    /\ UNCHANGED <<frame, lastBlinkStatus>>

\* No position: blink until a SENDGPS brings one.
AwaitPosition ==
    /\ Main({"setup"}, SetLedAnimation(FALSE) \o SetLedBlinking("yellow"), "position")
    /\ UNCHANGED <<reporter, wanted>>

Ready == [Dark EXCEPT !["green"] = TRUE]

\* Mutant: the animation is turned off last.
CompleteSetupLate ==
    /\ \/ Main({"setup"}, StartupBlink \o SetLedAnimation(FALSE) \o Set("green", TRUE), "ready")
       \/ Main({"position"}, ClearLedBlinking("yellow") \o SetLedAnimation(TRUE)
                   \o StartupBlink \o SetLedAnimation(FALSE) \o Set("green", TRUE), "ready")
    /\ wanted' = Ready
    /\ UNCHANGED reporter

CompleteSetup ==
    /\ LET ending == SetLedAnimation(FALSE) \o StartupBlink \o Set("green", TRUE)
       IN  \/ Main({"setup"}, ending, "ready")
           \/ Main({"position"}, ClearLedBlinking("yellow") \o SetLedAnimation(TRUE) \o ending,
                   "ready")
    /\ wanted' = Ready
    /\ UNCHANGED reporter

\* main() after setup(): sendCrashReports(), which may fail, in DEBUG builds.
EnterLoop ==
    /\ Main({"ready"}, <<>>, "loop")
    /\ reporter' \in (IF Debug THEN {"absent", "started"} ELSE {"absent"})
    /\ UNCHANGED wanted

\* The net task shows the result of its ping in yellow, tick() an event in red.
ShowNetworkOrEvent ==
    \E led \in {"yellow", "red"}, on \in BOOLEAN :
        /\ Main({"loop"}, Set(led, on) \o Delay(1), "loop")
        /\ wanted' = [wanted EXCEPT ![led] = on]
        /\ UNCHANGED reporter

\* PKTTYPE_REBOOT, in the loop or in the wait for a position.
ShowReboot ==
    /\ LET redOnly == Set("green", FALSE) \o Set("yellow", FALSE) \o Set("red", TRUE)
       IN  Main({"loop"}, redOnly, "reboot") \/ Main({"position"}, redOnly, "gone")
    /\ wanted' = [Dark EXCEPT !["red"] = TRUE]
    /\ UNCHANGED reporter

\* platformUpgrade(): with the animation on when a first configuration asks.
PlatformUpgrade ==
    /\ Main({"setup", "loop"},
            Set("green", FALSE) \o Set("yellow", FALSE) \o Set("red", FALSE)
                \o SetLedBlinking("red"), "gone")
    /\ wanted' = Dark
    /\ UNCHANGED reporter

\* No MAC address, or the dog: nobody tells the LEDs.
RebootUnseen ==
    /\ Main({"setup", "loop"}, <<>>, "gone")
    /\ UNCHANGED <<reporter, wanted>>

\* The process ends; another starts, after a reboot or not.
Restart ==
    /\ place \in {"reboot", "gone"}
    /\ todo["main"] = <<>>
    /\ pin' \in {pin, Dark}
    /\ status' = Dark
    /\ animation' = FALSE /\ blinking' = {}
    /\ todo' = [t \in Thread |-> IF t = "main" THEN SetLedAnimation(TRUE) ELSE <<>>]
    /\ wake' = [t \in Thread |-> 0]
    /\ frame' = 0 /\ lastBlinkStatus' = FALSE
    /\ place' = "setup"
    /\ reporter' = "absent"
    /\ wanted' = Dark

\* A call or a delay that goes on.
MainWaits ==
    /\ place \in {"setup", "position", "loop"}
    /\ Decides("main", Delay(1))
    /\ UNCHANGED threadVars

-----------------------------------------------------------------------------
(***************************************************************************)
(* sendCrashReportDoWork().                                                 *)
(***************************************************************************)

Reports(from, statements, to) ==
    /\ reporter = from
    /\ reporter' = to
    /\ Decides("reporter", statements)
    /\ UNCHANGED <<frame, lastBlinkStatus, place, wanted>>

\* opendir() fails, or the LED blinks while the reports are posted.
Reporter ==
    \/ Reports("started", <<>>, "done")
    \/ Reports("started", SetLedBlinking("red"), "posting")
    \/ Reports("posting", Delay(1), "posting")
    \/ Reports("posting", ClearLedBlinking("red"), "done")

Idle(t) ==
    \/ wake[t] > 0
    \/ /\ todo[t] = <<>>
       /\ \/ t = "main" /\ place \in {"reboot", "gone"}
          \/ t = "reporter" /\ reporter \in {"absent", "done"}

\* 20 ms pass.
Tick ==
    /\ \A t \in Thread : Idle(t)
    /\ wake' = [t \in Thread |-> IF wake[t] = 0 THEN 0 ELSE wake[t] - 1]
    /\ UNCHANGED <<flagVars, pinVars, todo, threadVars>>

Does(t) ==
    \/ SetStatus(t)
    \/ DigitalWrite(t)
    \/ SetAnimationFlag(t)
    \/ SetBlinkFlag(t)
    \/ TestBlinkFlag(t)
    \/ StartDelay(t)

LedsNext ==
    \/ \E t \in Thread : Does(t)
    \/ LedThread
    \/ AwaitPosition
    \/ CompleteSetup
    \/ EnterLoop
    \/ ShowNetworkOrEvent
    \/ ShowReboot
    \/ PlatformUpgrade
    \/ RebootUnseen
    \/ Restart
    \/ MainWaits
    \/ Reporter
    \/ Tick

\* Three runnable threads and a clock; nothing makes the main thread leave a
\* place, and a process that was told to end may take its time.
LedsSpec ==
    /\ LedsInit /\ [][LedsNext]_ledsVars
    /\ \A t \in Thread : WF_ledsVars(Does(t))
    /\ WF_ledsVars(LedThread)
    /\ WF_ledsVars(MainWaits) /\ WF_ledsVars(EnterLoop) /\ WF_ledsVars(Reporter)
    /\ WF_ledsVars(Tick)

-----------------------------------------------------------------------------
(***************************************************************************)
(* Properties.                                                              *)
(***************************************************************************)

\* setup() and loop(): although the LED thread may be in the middle of a frame when the animation or
\* the blinking is turned off, in the loop, and when it is told to reboot
\* there, each LED and its variable are as the main thread told them - the red
\* one unless crash reports are sent.
ShowsWhatWasTold ==
    (place \in {"loop", "reboot"} /\ todo["main"] = <<>>)
        => \A led \in Led :
              (led = "red" => reporter = "absent")
                  => pin[led] = wanted[led] /\ status[led] = wanted[led]

\* README, "LEDs", ALL rotating: as long as the animation is on, each LED is lit alone again and again.
Rotates ==
    <>[]animation => \A led \in Led : []<>(pin = [Dark EXCEPT ![led] = TRUE])

\* setLedBlinking(): a LED told to blink does, unless an animation runs, whatever else is written.
Blinks ==
    \A led \in Led :
        <>[](~animation /\ led \in blinking) => []<>pin[led] /\ []<>~pin[led]
=============================================================================
