----------------------------- MODULE MCWatchdog -----------------------------
(***************************************************************************)
(* A small instance of Watchdog.  Ten seconds of the code are one here:     *)
(* BeatGap and Timer keep the ratio of 20 and 60 seconds, Poll rounds 15 up. *)
(***************************************************************************)
EXTENDS Watchdog

\* A correction backwards, and a jump forward larger than Timer, that of a
\* board whose clock did not run while it was off.
MCSteps == {-3, 7}

\* Just after a wrap of millis(), and just before one.
MCDawn == {1, 11}
=============================================================================
