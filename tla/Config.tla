------------------------------- MODULE Config -------------------------------
(***************************************************************************)
(* Config.cpp: identity (MAC address) and position of the sensor, in static  *)
(* variables and in a text file.  save() truncates the file and rewrites it; *)
(* nothing is written before fclose(), and nothing forces it to the disk.    *)
(* Each setter saves at once, so a position, two setters, is saved twice.    *)
(*                                                                          *)
(* A coordinate is an integer, in millionths of a degree, the precision %f   *)
(* prints.  The contents of a file reach it, and the disk, in one piece.     *)
(***************************************************************************)
EXTENDS Integers

CONSTANTS
    InterfaceMAC,   \* what Utils::getInterfaceMAC() finds
    StoredMACs      \* identities an installed file may hold

\* The empty string, which stands for no address.
NoMAC == "none"

ASSUME ConfigAssumption ==
    /\ InterfaceMAC # NoMAC
    /\ NoMAC \notin StoredMACs

Absent == [kind |-> "absent"]
Empty == [kind |-> "empty"]
Saved(m, la, lo) == [kind |-> "saved", mac |-> m, lat |-> la, lon |-> lo]

VARIABLES
    macAddress, lat, lon,   \* Config's static variables
    file,       \* the configuration file as processes see it
    disk,       \* what of it a loss of power leaves
    pc,         \* "down" | "ready" | "open" | "write": where in save()
    saving,     \* "none" | "mac" | "lon" | "lat": the setter that saves
    \* History variables.
    torn,       \* the file is not what the last handled setters put there
    identity    \* the MAC address this installation should have

configVars == <<macAddress, lat, lon, file, disk, pc, saving, torn, identity>>

FileOK(f, Coordinates) ==
    f \in {Absent, Empty} \cup [kind : {"saved"}, mac : StoredMACs \cup {InterfaceMAC},
                               lat : Coordinates, lon : Coordinates]

-----------------------------------------------------------------------------
(***************************************************************************)
(* A coordinate through the file: %f prints it with six decimals, atofn()    *)
(* reads the first eight characters, sign and point among them.             *)
(***************************************************************************)

Magnitude(c) == IF c < 0 THEN -c ELSE c

TenDegrees == 10000000
HundredDegrees == 100000000

\* The least difference that eight characters show: a digit before the point but
\* the first takes the place of a decimal, and so does the sign.
FileUnit(c) ==
    (IF Magnitude(c) >= HundredDegrees THEN 100 ELSE IF Magnitude(c) >= TenDegrees THEN 10 ELSE 1)
    * (IF c < 0 THEN 10 ELSE 1)

ReadBack(c) ==
    LET kept == (Magnitude(c) \div FileUnit(c)) * FileUnit(c)
    IN  IF c < 0 THEN -kept ELSE kept

HasPosition == lat # 0 /\ lon # 0

-----------------------------------------------------------------------------
InitConfig(Coordinates) ==
    /\ macAddress = NoMAC
    /\ lat = 0 /\ lon = 0
    /\ file \in {Absent} \cup {Saved(m, 0, 0) : m \in StoredMACs}
    /\ disk = file
    /\ pc = "down"
    /\ saving = "none"
    /\ torn = FALSE
    /\ identity = IF file = Absent THEN InterfaceMAC ELSE file.mac

\* Mutants: the MAC address of the file not used; the coordinates exchanged.
BootWithInterface ==
    /\ pc = "down"
    /\ macAddress' = InterfaceMAC
    /\ IF file.kind = "saved"
          THEN lat' = ReadBack(file.lat) /\ lon' = ReadBack(file.lon)
          ELSE lat' = 0 /\ lon' = 0
    /\ pc' = "ready" /\ saving' = "none"
    /\ UNCHANGED <<file, disk, torn, identity>>

BootExchanges ==
    /\ pc = "down"
    /\ file.kind = "saved"
    /\ macAddress' = file.mac
    /\ lat' = ReadBack(file.lon) /\ lon' = ReadBack(file.lat)
    /\ pc' = "ready" /\ saving' = "none"
    /\ UNCHANGED <<file, disk, torn, identity>>

\* Config::init() and, when the file gave no MAC address, setMacAddress() of
\* setup().  A file that is there but empty is read "OK": nothing is set.
Boot ==
    /\ pc = "down"
    /\ \/ /\ file = Absent
          /\ macAddress' = InterfaceMAC /\ lat' = 0 /\ lon' = 0
          /\ pc' = "ready" /\ saving' = "none"
       \/ /\ file = Empty
          /\ macAddress' = InterfaceMAC /\ lat' = 0 /\ lon' = 0
          /\ pc' = "open" /\ saving' = "mac"
       \/ /\ file.kind = "saved"
          /\ macAddress' = file.mac
          /\ lat' = ReadBack(file.lat) /\ lon' = ReadBack(file.lon)
          /\ pc' = "ready" /\ saving' = "none"
    /\ identity' = IF torn THEN macAddress' ELSE identity
    /\ UNCHANGED <<file, disk, torn>>

-----------------------------------------------------------------------------
(***************************************************************************)
(* save().  What follows its return is the caller's: Resume.                *)
(***************************************************************************)

\* fopen("w") truncates.
OpenFile ==
    /\ pc = "open"
    /\ file' = Empty
    /\ pc' = "write"
    /\ UNCHANGED <<macAddress, lat, lon, disk, saving, torn, identity>>

\* The fwrite()s fill a buffer, fclose() writes it.
WriteFile(Resume) ==
    /\ pc = "write"
    /\ file' = Saved(macAddress, lat, lon)
    /\ Resume
    /\ UNCHANGED <<macAddress, disk, torn, identity>>

\* A read-only or full file system: save() returns without a word.
SaveFails(Resume) ==
    /\ pc \in {"open", "write"}
    /\ Resume
    /\ torn' = TRUE
    /\ UNCHANGED <<macAddress, file, disk, identity>>

-----------------------------------------------------------------------------
(***************************************************************************)
(* The end of the process, and of the power.                                *)
(***************************************************************************)

Forget ==
    /\ macAddress' = NoMAC
    /\ lat' = 0 /\ lon' = 0
    /\ pc' = "down"
    /\ saving' = "none"

\* The process dies, or is killed by a reboot or by an upgrade; the system
\* writes its files back.
Crash ==
    /\ pc # "down"
    /\ Forget
    /\ torn' = (torn \/ pc # "ready")
    /\ UNCHANGED <<file, disk, identity>>

PowerLoss ==
    /\ Forget
    /\ file' = disk
    /\ torn' = (torn \/ pc \in {"open", "write"} \/ disk # file)
    /\ UNCHANGED <<disk, identity>>

WriteBack ==
    /\ disk # file
    /\ disk' = file
    /\ UNCHANGED <<macAddress, lat, lon, file, pc, saving, torn, identity>>
=============================================================================
