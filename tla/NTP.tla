-------------------------------- MODULE NTP --------------------------------
(***************************************************************************)
(* net/NTP.cpp: sync() sends one datagram to the server, waits, takes the    *)
(* first datagram that lies in the socket, notes it as the UNIX time and     *)
(* sets the system clock to it.  Nothing matches an answer to a question:    *)
(* one that comes after the sync that asked waits in the socket for the next *)
(* sync.  The same system clock drives millis(), by which the program tells  *)
(* how long ago it noted the time.                                          *)
(*                                                                          *)
(* The unit is a second; "now" is the true UNIX time, which no code reads.   *)
(***************************************************************************)
EXTENDS Millis, Sequences

CONSTANTS
    Start,          \* true time when the program starts
    Coherent,       \* 1437648361: sync() goes on while the time noted is lower
    Dawn,           \* what the system clock may show when the program starts
    BadEpochs,      \* wrong times a server may send
    SendDelay,      \* delay(500) between the request and the wait
    ResponseTimeout,    \* NTP_RESPONSE_TIMEOUT_VALUE
    MaxTime,        \* bound: the true time stops here
    MaxRequests,    \* bound: requests sent
    MaxQueue        \* bound: datagrams in the socket

ASSUME NTPAssumption ==
    /\ Start \in Nat
    /\ Coherent \in 1 .. Start
    /\ Dawn \subseteq 0 .. Start
    /\ BadEpochs \subseteq 0 .. Coherent - 1
    /\ SendDelay \in Nat
    /\ ResponseTimeout \in Nat
    /\ MaxTime \in Nat
    /\ MaxRequests \in Nat
    /\ MaxQueue \in Nat

Unanswered == -1

VARIABLES
    now, wall,
    unixTimeTS, unixTimeUpdate,     \* the time noted, and millis() then
    ntpserver,      \* "none" (the empty string) | "host"
    pc,             \* "idle" | "again" (the loop's head) | "sent" | "waiting"
    timer,          \* end of the delay, or responseMill
    ret,
    result,         \* what the last sync() returned: "none" | "true" | "false"
    requests,       \* datagrams sent so far
    net,            \* the exchanges under way: [id, epoch], epoch Unanswered
                    \* until the server has sent its time
    socket,         \* datagrams received and not yet read
    \* History variables.
    calledAt,       \* true time at which sync() was called
    leftover,       \* an exchange of an earlier sync() was under way then
    wallNoted       \* what the system clock showed when the time was noted

noteVars == <<wall, unixTimeTS, unixTimeUpdate, wallNoted>>
callVars == <<pc, timer, ret, result, calledAt, leftover>>
netVars == <<requests, net, socket>>
vars == <<now, noteVars, ntpserver, callVars, netVars>>

\* Types; unixTimeUpdate keeps what the 32 bits of millis() can hold.
TypeOK ==
    /\ now \in Nat /\ wall \in Nat
    /\ unixTimeTS \in Nat
    /\ unixTimeUpdate \in Instant
    /\ ntpserver \in {"none", "host"}
    /\ pc \in {"idle", "again", "sent", "waiting"}
    /\ timer \in Nat
    /\ ret \in BOOLEAN
    /\ result \in {"none", "true", "false"}
    /\ requests \in Nat
    /\ net \subseteq [id : Nat, epoch : Nat \cup {Unanswered}]
    /\ socket \in Seq([id : Nat, epoch : Nat])
    /\ calledAt \in Nat
    /\ leftover \in BOOLEAN
    /\ wallNoted \in Nat

Init ==
    /\ now = Start
    /\ wall \in Dawn
    /\ unixTimeTS = 0
    /\ unixTimeUpdate = 0
    /\ ntpserver = "host"
    /\ pc = "idle"
    /\ timer = 0
    /\ ret = FALSE
    /\ result = "none"
    /\ requests = 0
    /\ net = {}
    /\ socket = <<>>
    /\ calledAt = 0
    /\ leftover = FALSE
    /\ wallNoted = 0

-----------------------------------------------------------------------------
(***************************************************************************)
(* The network and the server: datagrams are lost, duplicated and delayed    *)
(* without limit, and overtake each other.                                  *)
(***************************************************************************)

ServerAnswers ==
    /\ \E x \in net, e \in {now} \cup BadEpochs :
          /\ x.epoch = Unanswered
          /\ net' = (net \ {x}) \cup {[x EXCEPT !.epoch = e]}
    /\ UNCHANGED <<now, noteVars, ntpserver, callVars, requests, socket>>

\* A datagram reaches the socket; the network may hold a second copy of it.
Arrive ==
    /\ Len(socket) < MaxQueue
    /\ \E x \in net :
          /\ x.epoch # Unanswered
          /\ socket' = Append(socket, x)
          /\ net' \in {net, net \ {x}}
    /\ UNCHANGED <<now, noteVars, ntpserver, callVars, requests>>

Lose ==
    /\ \E x \in net : net' = net \ {x}
    /\ UNCHANGED <<now, noteVars, ntpserver, callVars, requests, socket>>

-----------------------------------------------------------------------------
(***************************************************************************)
(* sync().                                                                  *)
(***************************************************************************)

\* Config::checkServerConfig() names the server; the answer may lack the name.
SetNTPServer ==
    /\ pc = "idle"
    /\ ntpserver' \in {"none", "host"}
    /\ UNCHANGED <<now, noteVars, callVars, netVars>>

Call ==
    /\ pc = "idle"
    /\ IF ntpserver = "none"
          THEN /\ result' = "false"
               /\ UNCHANGED <<pc, ret, calledAt, leftover>>
          ELSE /\ pc' = "again"
               /\ ret' = FALSE
               /\ calledAt' = now
               /\ leftover' = (net # {} \/ socket # <<>>)
               /\ UNCHANGED result
    /\ UNCHANGED <<now, noteVars, ntpserver, timer, netVars>>

Return(value) == pc' = "idle" /\ result' = value

ResolveFails ==
    /\ pc = "again"
    /\ Return("false")
    /\ UNCHANGED <<now, noteVars, ntpserver, timer, ret, calledAt, leftover, netVars>>

\* sendto() may fail; nobody looks.
SendNTPPacket ==
    /\ pc = "again"
    /\ requests < MaxRequests
    /\ requests' = requests + 1
    /\ net' \in {net, net \cup {[id |-> requests', epoch |-> Unanswered]}}
    /\ pc' = "sent"
    /\ timer' = now + SendDelay
    /\ UNCHANGED <<now, noteVars, ntpserver, ret, result, calledAt, leftover, socket>>

\* After an answer (ret is not reset) there is no second wait: the loop goes on
\* as long as the time noted is not coherent.
DelayEnds ==
    /\ pc = "sent"
    /\ now >= timer
    /\ IF ret THEN pc' = "again" /\ UNCHANGED timer
              ELSE pc' = "waiting" /\ timer' = Millis(wall)
    /\ UNCHANGED <<now, noteVars, ntpserver, ret, result, calledAt, leftover, netVars>>

\* Mutants of Receive: the clock set to the second that follows; the moment
\* not noted; the time of the answer before; millis() replaced by the clock.
ReceiveAs(epoch, noted, clock) ==
    /\ pc = "waiting"
    /\ socket # <<>>
    /\ unixTimeTS' = epoch
    /\ unixTimeUpdate' = noted
    /\ wall' \in {clock, wall}
    /\ wallNoted' = wall
    /\ IF epoch < Coherent THEN pc' = "again" /\ UNCHANGED result
                           ELSE Return("true")
    /\ ret' = TRUE
    /\ socket' = Tail(socket)
    /\ UNCHANGED <<now, ntpserver, timer, calledAt, leftover, requests, net>>

Answer == Head(socket).epoch
ReceiveRoundsUp == socket # <<>> /\ ReceiveAs(Answer, Millis(wall), Answer + 1)
ReceiveKeepsUpdate == socket # <<>> /\ ReceiveAs(Answer, unixTimeUpdate, Answer)
ReceiveSetsFirst == socket # <<>> /\ ReceiveAs(Answer, Millis(wall), unixTimeTS)
ReceiveUnfolded == socket # <<>> /\ ReceiveAs(Answer, wall, Answer)

\* The first datagram in the socket is the time, whoever asked for it and when.
\* millis() is noted before date(1) sets the clock it is taken from; date may fail.
Receive ==
    /\ pc = "waiting"
    /\ socket # <<>>
    /\ LET epoch == Head(socket).epoch
       IN  /\ unixTimeTS' = epoch
           /\ unixTimeUpdate' = Millis(wall)
           /\ wall' \in {epoch, wall}
           /\ wallNoted' = wall
           /\ IF epoch < Coherent THEN pc' = "again" /\ UNCHANGED result
                                  ELSE Return("true")
    /\ ret' = TRUE
    /\ socket' = Tail(socket)
    /\ UNCHANGED <<now, ntpserver, timer, calledAt, leftover, requests, net>>

TimedOut == Elapsed(Millis(wall), timer) >= ResponseTimeout

Timeout ==
    /\ pc = "waiting"
    /\ TimedOut
    /\ IF unixTimeTS < Coherent THEN pc' = "again" /\ UNCHANGED result
                                ELSE Return("false")
    /\ UNCHANGED <<now, noteVars, ntpserver, timer, ret, calledAt, leftover, netVars>>

\* The wait spins on the socket: time does not pass over a datagram in it.
Tick ==
    /\ now < MaxTime
    /\ pc = "sent" => now < timer
    /\ pc = "waiting" => socket = <<>> /\ ~TimedOut
    /\ now' = now + 1
    /\ wall' = wall + 1
    /\ UNCHANGED <<unixTimeTS, unixTimeUpdate, wallNoted, ntpserver, callVars, netVars>>

Next ==
    \/ ServerAnswers
    \/ Arrive
    \/ Lose
    \/ SetNTPServer
    \/ Call
    \/ ResolveFails
    \/ SendNTPPacket
    \/ DelayEnds
    \/ Receive
    \/ Timeout
    \/ Tick

Spec == Init /\ [][Next]_vars

-----------------------------------------------------------------------------
(***************************************************************************)
(* Properties.                                                              *)
(***************************************************************************)

\* getUNIXTime().
UNIXTime == unixTimeTS + Elapsed(Millis(wall), unixTimeUpdate)

Noted == unixTimeTS # 0

\* Whatever the network does to the datagrams, no sync sets the clock ahead of
\* the true time: an answer may be old, but not from the future.
ClockNeverAhead == wall <= now

\* A sync that found nothing of an earlier one under way sets the clock to a
\* time of its own duration (or to a server's wrong one).  The converse is the
\* hazard: an answer that comes too late is taken for the next sync's.
FreshUnlessLeftover ==
    [][(pc = "waiting" /\ ret' /\ ~ret /\ ~leftover /\ wall' # wall)
           => \/ calledAt <= wall' /\ wall' <= now
              \/ wall' \in BadEpochs]_vars

\* getUNIXTime() is off the system clock by no more than the last answer was: it
\* is right once a sync has found the clock right.  Not while the clock, stepped
\* back by that sync, has yet to come to what it showed before, and not one wrap
\* of millis() after it.
ReportedSettles ==
    (Noted /\ wallNoted <= wall /\ wall - wallNoted < Wrap)
        => LET error == UNIXTime - wall
               step == unixTimeTS - wallNoted
           IN  (0 <= error /\ error <= step) \/ (step <= error /\ error <= 0)

\* NTP.cpp:91 and 105: as long as the clock is not coherent sync() forces a sync
\* - every request is followed by a wait for its reply.
RepliesAwaited == [][(pc = "sent" /\ pc' # pc) => pc' = "waiting"]_vars
=============================================================================
