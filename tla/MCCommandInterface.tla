------------------------- MODULE MCCommandInterface -------------------------
(***************************************************************************)
(* A small instance of CommandInterface: two positions, one with a longitude *)
(* that loses two digits in the file, one with a latitude that is lost.      *)
(***************************************************************************)
EXTENDS CommandInterface

MCPositions == {<<41890251, -12492373>>, <<-3, 5100000>>}
MCStoredMACs == {"installed"}
=============================================================================
