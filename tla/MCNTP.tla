------------------------------- MODULE MCNTP -------------------------------
(***************************************************************************)
(* A small instance of NTP: two requests, room for two datagrams in the      *)
(* socket, a clock that is right, behind or far behind, one server that is   *)
(* wrong by years.                                                          *)
(***************************************************************************)
EXTENDS NTP

MCDawn == {2, 9}
MCBadEpochs == {3}
=============================================================================
