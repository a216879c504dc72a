------------------------------- MODULE MCCore -------------------------------
(***************************************************************************)
(* Small instances of Core.  A call is answered within one unit of time, a    *)
(* pass of five tasks within Early.  For the liveness properties the tasks    *)
(* are three, one of each kind, the clock is stepped once, and millis()      *)
(* wraps later than a pass ends: in the code after 49 days, and the dog ends  *)
(* a pass within 75 seconds.                                                *)
(***************************************************************************)
EXTENDS Core

MCOrder == <<"net", "cfg", "ntp", "seismo", "log">>
MCThree == <<"ntp", "seismo", "log">>
MCInterval == [net |-> 1, cfg |-> 1, ntp |-> 2, seismo |-> 1, log |-> 2]

\* One back.
MCSteps == {3}
=============================================================================
