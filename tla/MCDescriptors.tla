----------------------------- MODULE MCDescriptors -----------------------------
(***************************************************************************)
(* A small instance of Descriptors: four descriptors, and a 64-bit build     *)
(* whose millis() wraps every four units.                                   *)
(***************************************************************************)
EXTENDS Descriptors
=============================================================================
