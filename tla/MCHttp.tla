------------------------------- MODULE MCHttp -------------------------------
(***************************************************************************)
(* A small instance of Http: four descriptors, for the directory, the one    *)
(* that a report loses and two connections, so that one more lost is missed.  *)
(***************************************************************************)
EXTENDS Http

CONSTANTS main, reporter

MCThreads == {main, reporter}

\* One that a single read may cut in two, and an upgrade.
MCConfigs == {<<"server", "ntpserver">>, <<"path">>}
=============================================================================
