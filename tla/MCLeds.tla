------------------------------- MODULE MCLeds -------------------------------
(***************************************************************************)
(* A small instance of Leds: startupBlink() blinks twice, a frame lasts two   *)
(* units of time and a blink three, so that neither is a multiple of a round.*)
(***************************************************************************)
EXTENDS Leds
=============================================================================
