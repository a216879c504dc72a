-------------------------------- MODULE Dog --------------------------------
(***************************************************************************)
(* What the watchdog of Watchdog.cpp promises the rest of the program, and   *)
(* nothing of how: it barks (reboots the board) after a silence of more than *)
(* Early seconds, and not later than Late.  A step of the system clock, a    *)
(* dead process or a missing file excuse it from one or the other.          *)
(***************************************************************************)
EXTENDS Integers

CONSTANTS
    Early,  \* no bark before that much silence
    Late    \* no silence longer than that

VARIABLES
    quiet,  \* seconds since the last heartBeat(); Late + 1 stands for all above
    hasty,  \* it may bark early
    blind,  \* it may bark late, or never
    barked

vars == <<quiet, hasty, blind, barked>>

Init ==
    /\ quiet = 0
    /\ hasty \in BOOLEAN
    /\ blind \in BOOLEAN
    /\ barked = FALSE

\* A sign of life; it may end an excuse.
Beat ==
    /\ ~barked
    /\ quiet' = 0
    /\ hasty' \in {FALSE, hasty}
    /\ blind' \in {FALSE, blind}
    /\ UNCHANGED barked

\* A second of silence.
Wait ==
    /\ ~barked
    /\ quiet < Late \/ blind
    /\ quiet' = IF quiet > Late THEN quiet ELSE quiet + 1
    /\ UNCHANGED <<hasty, blind, barked>>

Excuse ==
    /\ quiet' = quiet
    /\ hasty' \in {hasty, TRUE}
    /\ blind' \in {blind, TRUE}
    /\ UNCHANGED barked

Bark ==
    /\ ~barked
    /\ quiet > Early \/ hasty
    /\ barked' = TRUE
    /\ UNCHANGED <<quiet, hasty, blind>>

Next == Beat \/ Wait \/ Excuse \/ Bark

Spec == Init /\ [][Next]_vars
=============================================================================
