--------------------------- MODULE MCSeismometer ---------------------------
(***************************************************************************)
(* A small instance of Seismometer: an event lasts 2, and millis() wraps      *)
(* within a run of it.                                                      *)
(***************************************************************************)
EXTENDS Seismometer

\* Multiples of 12, so that averages of up to four readings are integers: a
\* reading below the power-on threshold (a board that subtracts gravity), one
\* above it (gravity) and a strong one.
MCReadings == {0, 24, 60}
MCPowerOn == 12
MCSigmas == {1}
MCDawn == {0, 7}
MCSteps == {-1, 3}
=============================================================================
