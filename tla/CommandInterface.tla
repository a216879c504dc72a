-------------------------- MODULE CommandInterface --------------------------
(***************************************************************************)
(* CommandInterface.cpp: the mobile app commands the sensor by UDP, and the  *)
(* sensor polls for one packet at a time.  Datagrams are lost, duplicated,   *)
(* delayed and reordered, and anyone may send one: any packet may be the     *)
(* next.  Composed with Config, whose setters SENDGPS calls one after the    *)
(* other, and with the crashes and losses of power Config has to survive.    *)
(***************************************************************************)
EXTENDS Config

CONSTANTS
    Positions,  \* <<latitude, longitude>> the app sends
    Servers     \* syslog servers the app sends

ASSUME CommandAssumption ==
    /\ Positions \subseteq Int \X Int
    /\ 0 \notin Servers

NoPosition == <<>>

VARIABLES
    debug,      \* a DEBUG build, with RESET and without a break before it
    packet,     \* position in the SENDGPS packet being handled
    syslogServer,   \* Log::syslogServer: never saved, cleared by setup()
    \* History variable.
    acked       \* position in the last SENDGPS answered with OK

vars == <<configVars, debug, packet, syslogServer, acked>>

Coordinates ==
    LET sent == {0} \cup {p[1] : p \in Positions} \cup {p[2] : p \in Positions}
    IN  sent \cup {ReadBack(c) : c \in sent}

\* Types; the setter that saves is known exactly while save() runs.
TypeOK ==
    /\ macAddress \in StoredMACs \cup {InterfaceMAC, NoMAC}
    /\ lat \in Coordinates /\ lon \in Coordinates
    /\ FileOK(file, Coordinates) /\ FileOK(disk, Coordinates)
    /\ pc \in {"down", "ready", "open", "write"}
    /\ saving \in {"none", "mac", "lon", "lat"}
    /\ (pc \in {"open", "write"}) <=> (saving # "none")
    /\ torn \in BOOLEAN
    /\ identity \in StoredMACs \cup {InterfaceMAC}
    /\ debug \in BOOLEAN
    /\ packet \in Positions \cup {NoPosition}
    /\ syslogServer \in Servers \cup {0}
    /\ acked \in Positions \cup {NoPosition}

Init ==
    /\ InitConfig(Coordinates)
    /\ debug \in BOOLEAN
    /\ packet = NoPosition
    /\ syslogServer = 0
    /\ acked = NoPosition

-----------------------------------------------------------------------------
(***************************************************************************)
(* checkCommandPacket().                                                    *)
(***************************************************************************)

\* DISCOVERY and PING: an answer, and nothing else.
HandleQuery ==
    /\ pc = "ready"
    /\ UNCHANGED <<configVars, debug, packet, syslogServer, acked>>

\* SENDGPS: the longitude is set and saved, then the latitude.  A packet for
\* another MAC address is a HandleQuery without an answer.
HandleSendGPS ==
    /\ pc = "ready"
    /\ \E p \in Positions : packet' = p /\ lon' = p[2]
    /\ pc' = "open"
    /\ saving' = "lon"
    /\ torn' = FALSE
    /\ UNCHANGED <<macAddress, lat, file, disk, identity, debug, syslogServer, acked>>

\* Mutants: OK before the latitude is saved; the setter not done after the last.
AfterSaveAcksEarly ==
    \/ /\ saving = "lon"
       /\ lat' = packet[1]
       /\ acked' = packet
       /\ packet' = NoPosition
       /\ pc' = "ready" /\ saving' = "none"
       /\ UNCHANGED lon
    \/ /\ saving \in {"lat", "mac"}
       /\ pc' = "ready" /\ saving' = "none"
       /\ UNCHANGED <<lat, lon, packet, acked>>

AfterSaveNotDone ==
    /\ saving \in {"lon", "lat", "mac"}
    /\ pc' = "ready"
    /\ UNCHANGED <<lat, lon, packet, acked, saving>>

\* What the caller of save() does next: setLatitude() after setLongitude(), OK
\* after both, the rest of setup() after setMacAddress().
AfterSave ==
    \/ /\ saving = "lon"
       /\ lat' = packet[1]
       /\ pc' = "open" /\ saving' = "lat"
       /\ UNCHANGED <<lon, packet, acked>>
    \/ /\ saving = "lat"
       /\ acked' = packet
       /\ packet' = NoPosition
       /\ pc' = "ready" /\ saving' = "none"
       /\ UNCHANGED <<lat, lon>>
    \/ /\ saving = "mac"
       /\ pc' = "ready" /\ saving' = "none"
       /\ UNCHANGED <<lat, lon, packet, acked>>

Save ==
    /\ \/ OpenFile /\ UNCHANGED <<packet, acked>>
       \/ WriteFile(AfterSave)
       \/ SaveFails(AfterSave)
    /\ UNCHANGED <<debug, syslogServer>>

HandleSetSyslog ==
    /\ pc = "ready"
    /\ syslogServer' \in Servers
    /\ UNCHANGED <<configVars, debug, packet, acked>>

\* Everything a reboot takes with it.
Down ==
    /\ Forget
    /\ packet' = NoPosition
    /\ syslogServer' = 0

\* OK, LEDs, platformReboot().  The shutdown writes the files back.
HandleReboot ==
    /\ pc = "ready"
    /\ Down
    /\ disk' = file
    /\ UNCHANGED <<file, torn, identity, debug, acked>>

\* RESET removes the configuration, and the position with it, and reboots.
RemoveAndReboot ==
    /\ Down
    /\ file' = Absent
    /\ disk' = Absent
    /\ identity' = InterfaceMAC
    /\ acked' = NoPosition
    /\ UNCHANGED <<torn, debug>>

HandleReset ==
    /\ debug
    /\ pc = "ready"
    /\ RemoveAndReboot

\* GETINFO answers; in a DEBUG build there is no break before the next case,
\* which is RESET.
HandleGetInfo ==
    /\ pc = "ready"
    /\ IF debug THEN RemoveAndReboot
                ELSE UNCHANGED <<configVars, debug, packet, syslogServer, acked>>

CrashAnywhere ==
    /\ Crash \/ PowerLoss
    /\ packet' = NoPosition
    /\ syslogServer' = 0
    /\ UNCHANGED <<debug, acked>>

Background ==
    /\ Boot \/ WriteBack
    /\ UNCHANGED <<debug, packet, syslogServer, acked>>

Next ==
    \/ HandleQuery
    \/ HandleSendGPS
    \/ Save
    \/ HandleSetSyslog
    \/ HandleReboot
    \/ HandleReset
    \/ HandleGetInfo
    \/ CrashAnywhere
    \/ Background

Spec == Init /\ [][Next]_vars

-----------------------------------------------------------------------------
(***************************************************************************)
(* Properties.                                                              *)
(***************************************************************************)

\* A position the app got an OK for is the sensor's, through any number of
\* restarts, to the digits the file keeps - both coordinates of it, not one of
\* each of two - until a reset takes it away.  Except when the file was torn: a
\* crash or a loss of power within SENDGPS, a save that failed, power lost before
\* the write-back.
AckedSurvives ==
    (pc = "ready" /\ acked # NoPosition /\ ~torn)
        => \/ <<lat, lon>> = acked
           \/ <<lat, lon>> = <<ReadBack(acked[1]), ReadBack(acked[2])>>

\* The sensor keeps the identity of its installation, the one the server knows
\* it by, unless a torn file was what it booted from.
IdentityStable == (pc = "ready" /\ ~torn) => macAddress = identity

\* An untorn file holds what the sensor in service works with: a restart would
\* bring back the same position and identity.
FileMatchesMemory ==
    (pc = "ready" /\ ~torn)
        => \/ file = Absent /\ macAddress = InterfaceMAC /\ ~HasPosition
           \/ /\ file.kind = "saved"
              /\ file.mac = macAddress
              /\ ReadBack(file.lat) = ReadBack(lat)
              /\ ReadBack(file.lon) = ReadBack(lon)
=============================================================================
