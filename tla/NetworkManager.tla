---------------------------- MODULE NetworkManager ----------------------------
(***************************************************************************)
(* net/NetworkManager.cpp: ping(), twice when the first fails, for           *)
(* isConnectedToInternet() and for latency(), with the descriptors that ping() *)
(* and Utils::getInterfaceMAC() do not give back.                           *)
(*                                                                          *)
(* room is the number of descriptors the process may still open, which the   *)
(* module of the whole process knows.  Time is in the units of millis(), and  *)
(* passes in ping()'s wait only; at the start of a check it is any time.     *)
(***************************************************************************)
EXTENDS Millis

CONSTANT Timeout    \* waitms: how long an answer is waited for

ASSUME NetworkAssumption == Timeout \in 1 .. Wrap - 1

VARIABLES
    clock,      \* what millis() shows
    lost,       \* descriptors open that nobody will close
    leg,        \* "none" | "first" | "second": which ping() is under way
    purpose,    \* "none" | "check" | "latency": whose
    waiting,    \* the request was sent: the socket is open
    startms,    \* millis() when it was
    packet,     \* "none" | "reply" | "other": ICMP packet in the socket
    online,     \* connectionAvailable
    \* History variable.
    waited      \* how long it has waited; Timeout + 1 stands for all above

pingVars == <<clock, leg, purpose, waiting, startms, packet, online, waited>>
netVars == <<pingVars, lost>>

NetTypeOK ==
    /\ clock \in Instant /\ startms \in Instant
    /\ lost \in Nat
    /\ leg \in {"none", "first", "second"}
    /\ purpose \in {"none", "check", "latency"}
    /\ waiting \in BOOLEAN /\ online \in BOOLEAN
    /\ packet \in {"none", "reply", "other"}
    /\ waited \in 0 .. Timeout + 1

\* Statics; a process starts at any time.
InitNet ==
    /\ clock \in Instant
    /\ lost = 0
    /\ leg = "none" /\ purpose = "none"
    /\ waiting = FALSE
    /\ startms = 0
    /\ packet = "none"
    /\ online = FALSE
    /\ waited = 0

-----------------------------------------------------------------------------
\* isConnectedToInternet(true), or latency().
Check(why) ==
    /\ leg = "none"
    /\ leg' = "first"
    /\ purpose' = why
    /\ clock' \in Instant
    /\ UNCHANGED <<lost, waiting, startms, packet, online, waited>>

Result(yes) ==
    /\ leg' = "none"
    /\ purpose' = "none"
    /\ online' = IF purpose = "check" THEN yes ELSE online

\* ping() returns false: once more, or that is the result.
Fails ==
    \/ /\ leg = "first"
       /\ leg' = "second"
       /\ UNCHANGED <<purpose, online>>
    \/ /\ leg = "second"
       /\ Result(FALSE)

\* getprotobyname() has no descriptor to read /etc/protocols with; its caller
\* reboots.
NoProtocol(room) == leg # "none" /\ ~waiting /\ room = 0

\* setsockopt(), fcntl() or sendto() fails - there is no route, say - and the
\* socket stays open; or there was no socket.
PingNotSent(room) ==
    /\ leg # "none" /\ ~waiting
    /\ room > 0
    /\ lost' \in {lost, lost + 1}
    /\ Fails
    /\ UNCHANGED <<clock, waiting, startms, packet, waited>>

PingSent(room) ==
    /\ leg # "none" /\ ~waiting
    /\ room > 0
    /\ waiting' = TRUE
    /\ startms' = clock
    /\ packet' = "none"
    /\ waited' = 0
    /\ UNCHANGED <<clock, lost, leg, purpose, online>>

\* startms + waitms, in an unsigned long, and millis() against it.
Deadline == (startms + Timeout) % LongWrap
InTime == clock < Deadline

\* startms is a local variable of ping(), which returns.
Forgets == startms' = 0 /\ waited' = 0

\* Any echo reply will do: whoever it is from, whatever it answers.
PingReply ==
    /\ waiting
    /\ InTime
    /\ packet = "reply"
    /\ waiting' = FALSE
    /\ packet' = "none"
    /\ Result(TRUE)
    /\ Forgets
    /\ UNCHANGED <<clock, lost>>

\* Mutant: the wait starts anew.
PingOtherAgain ==
    /\ waiting
    /\ InTime
    /\ packet = "other"
    /\ packet' = "none"
    /\ startms' = clock
    /\ UNCHANGED <<clock, lost, leg, purpose, waiting, online, waited>>

\* An unreachable message, another one's request: the wait goes on.
PingOther ==
    /\ waiting
    /\ InTime
    /\ packet = "other"
    /\ packet' = "none"
    /\ UNCHANGED <<clock, lost, leg, purpose, waiting, startms, online, waited>>

\* Mutant: any packet that is no reply ends the wait.
PingEndsOnAny ==
    /\ waiting
    /\ ~InTime \/ packet = "other"
    /\ waiting' = FALSE
    /\ packet' = "none"
    /\ Fails
    /\ Forgets
    /\ UNCHANGED <<clock, lost>>

PingEnds ==
    /\ waiting
    /\ ~InTime
    /\ waiting' = FALSE
    /\ packet' = "none"
    /\ Fails
    /\ Forgets
    /\ UNCHANGED <<clock, lost>>

-----------------------------------------------------------------------------
\* An ICMP packet for this host; a raw socket gets them all.
PacketArrives ==
    /\ waiting
    /\ packet = "none"
    /\ packet' \in {"reply", "other"}
    /\ UNCHANGED <<clock, lost, leg, purpose, waiting, startms, online, waited>>

\* The loop looks every 100 us: no packet is left and no deadline passed unseen.
PingTick ==
    /\ waiting
    /\ InTime
    /\ packet = "none"
    /\ clock' = Millis(clock + 1)
    /\ waited' = IF waited > Timeout THEN waited ELSE waited + 1
    /\ UNCHANGED <<lost, leg, purpose, waiting, startms, packet, online>>

-----------------------------------------------------------------------------
(***************************************************************************)
(* Properties.                                                              *)
(***************************************************************************)

NearWrap == startms + Timeout >= Wrap

\* ping() waits no longer than waitms.  The exception is the code's: where an unsigned long
\* is wider than millis(), a deadline beyond the wrap is never reached, and only
\* a reply ends the wait.
PingInTime == waiting => waited <= Timeout \/ (NearWrap /\ LongWrap > Wrap)
=============================================================================
