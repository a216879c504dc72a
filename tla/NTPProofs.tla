----------------------------- MODULE NTPProofs -----------------------------
(***************************************************************************)
(* Theorems of NTP, for every network: any number of requests, any loss,    *)
(* duplication, delay and reordering of their answers.                      *)
(***************************************************************************)
EXTENDS NTP, TLAPS

USE NTPAssumption, MillisAssumption

\* A typed socket holds typed datagrams.
LEMMA ElementsTyped ==
    ASSUME NEW S, NEW q \in Seq(S), NEW i \in 1 .. Len(q)
    PROVE  q[i] \in S
OBVIOUS

\* What the first datagram of a typed socket is, and what is left without it.
LEMMA HeadAndTail ==
    ASSUME NEW S, NEW q \in Seq(S), q # <<>>
    PROVE  /\ Head(q) \in S
           /\ Head(q) = q[1]
           /\ Tail(q) \in Seq(S)
           /\ Len(q) \in Nat \ {0}
           /\ Len(Tail(q)) = Len(q) - 1
           /\ \A i \in 1 .. Len(Tail(q)) : Tail(q)[i] = q[i + 1]
OBVIOUS

\* A datagram appended to a socket leaves the others in their places.
LEMMA AppendOne ==
    ASSUME NEW S, NEW q \in Seq(S), NEW x, NEW r, r = Append(q, x)
    PROVE  /\ Len(q) \in Nat
           /\ Len(r) = Len(q) + 1
           /\ r[Len(q) + 1] = x
           /\ \A i \in 1 .. Len(q) : r[i] = q[i]
OBVIOUS

\* Every reachable state has the declared types.
THEOREM TypeCorrect == Spec => []TypeOK
<1>1. Init => TypeOK
    <2> SUFFICES ASSUME Init PROVE TypeOK
        OBVIOUS
    <2>1. socket \in Seq([id : Nat, epoch : Nat])
        BY DEF Init
    <2>2. wall \in Nat /\ unixTimeUpdate \in Instant
        BY DEF Init, Instant
    <2>3. net \subseteq [id : Nat, epoch : Nat \cup {Unanswered}]
        BY DEF Init
    <2> QED
        BY <2>1, <2>2, <2>3 DEF Init, TypeOK
<1>2. TypeOK /\ [Next]_vars => TypeOK'
    <2> SUFFICES ASSUME TypeOK, [Next]_vars PROVE TypeOK'
        OBVIOUS
    <2>a. Millis(wall) \in Instant /\ Millis(wall) \in Nat
        <3>1. Millis(wall) \in Instant
            BY MillisDivision DEF TypeOK
        <3> QED
            BY <3>1 DEF Instant
    <2> USE DEF noteVars, callVars, netVars
    <2>1. CASE ServerAnswers
        <3>1. PICK x \in net, e \in {now} \cup BadEpochs :
                  net' = (net \ {x}) \cup {[x EXCEPT !.epoch = e]}
            BY <2>1 DEF ServerAnswers
        <3>2. e \in Nat
            BY DEF TypeOK
        <3>3. [x EXCEPT !.epoch = e] \in [id : Nat, epoch : Nat \cup {Unanswered}]
            BY <3>2 DEF TypeOK
        <3>4. net' \subseteq [id : Nat, epoch : Nat \cup {Unanswered}]
            BY <3>1, <3>3 DEF TypeOK
        <3> QED
            BY <2>1, <3>4 DEF ServerAnswers, TypeOK
    <2>2. CASE Arrive
        <3>1. PICK x \in net : /\ x.epoch # Unanswered
                               /\ socket' = Append(socket, x)
                               /\ net' \in {net, net \ {x}}
            BY <2>2 DEF Arrive
        <3>2. x \in [id : Nat, epoch : Nat]
            BY <3>1 DEF TypeOK
        <3>3. socket' \in Seq([id : Nat, epoch : Nat])
            BY <3>1, <3>2 DEF TypeOK
        <3>4. net' \subseteq [id : Nat, epoch : Nat \cup {Unanswered}]
            BY <3>1 DEF TypeOK
        <3> QED
            BY <2>2, <3>3, <3>4 DEF Arrive, TypeOK
    <2>3. CASE Lose
        BY <2>3 DEF Lose, TypeOK
    <2>4. CASE SetNTPServer
        BY <2>4 DEF SetNTPServer, TypeOK
    <2>5. CASE Call
        <3>1. leftover' \in BOOLEAN
            BY <2>5 DEF Call, TypeOK
        <3> QED
            BY <2>5, <3>1 DEF Call, TypeOK
    <2>6. CASE ResolveFails
        BY <2>6 DEF ResolveFails, Return, TypeOK
    <2>7. CASE SendNTPPacket
        <3>1. requests' \in Nat /\ timer' \in Nat
            BY <2>7 DEF SendNTPPacket, TypeOK
        <3>2. [id |-> requests', epoch |-> Unanswered]
                  \in [id : Nat, epoch : Nat \cup {Unanswered}]
            BY <3>1
        <3>3. net' \subseteq [id : Nat, epoch : Nat \cup {Unanswered}]
            BY <2>7, <3>2 DEF SendNTPPacket, TypeOK
        <3> QED
            BY <2>7, <3>1, <3>3 DEF SendNTPPacket, TypeOK
    <2>8. CASE DelayEnds
        BY <2>8, <2>a DEF DelayEnds, TypeOK
    <2>9. CASE Receive
        <3>1. /\ Head(socket) \in [id : Nat, epoch : Nat]
              /\ Tail(socket) \in Seq([id : Nat, epoch : Nat])
            BY <2>9, HeadAndTail DEF Receive, TypeOK
        <3>2. Head(socket).epoch \in Nat
            BY <3>1
        <3> QED
            BY <2>9, <2>a, <3>1, <3>2 DEF Receive, Return, TypeOK
    <2>10. CASE Timeout
        BY <2>10 DEF Timeout, Return, TypeOK
    <2>11. CASE Tick
        BY <2>11 DEF Tick, TypeOK
    <2>12. CASE UNCHANGED vars
        BY <2>12 DEF vars, TypeOK
    <2> QED
        BY <2>1, <2>2, <2>3, <2>4, <2>5, <2>6, <2>7, <2>8, <2>9, <2>10, <2>11,
           <2>12 DEF Next
<1> QED
    BY <1>1, <1>2, PTL DEF Spec

-----------------------------------------------------------------------------
(***************************************************************************)
(* The clock is never ahead.  Every time under way was sent in the past, and *)
(* it stays in the past however long it takes.                              *)
(***************************************************************************)

AnswersArePast ==
    /\ \A x \in net : x.epoch <= now
    /\ \A i \in 1 .. Len(socket) : socket[i].epoch <= now

NeverAheadInv ==
    /\ TypeOK
    /\ Start <= now
    /\ AnswersArePast
    /\ ClockNeverAhead

LEMMA NeverAheadInductive ==
    NeverAheadInv /\ TypeOK' /\ [Next]_vars => NeverAheadInv'
<1> SUFFICES ASSUME NeverAheadInv, TypeOK', [Next]_vars PROVE NeverAheadInv'
    OBVIOUS
<1>t. TypeOK /\ TypeOK'
    BY DEF NeverAheadInv
<1> USE DEF NeverAheadInv, AnswersArePast, ClockNeverAhead, noteVars, callVars, netVars
<1>1. CASE ServerAnswers
    <2>1. PICK x \in net, e \in {now} \cup BadEpochs :
              net' = (net \ {x}) \cup {[x EXCEPT !.epoch = e]}
        BY <1>1 DEF ServerAnswers
    <2>2. e <= now
        <3>1. now \in Nat /\ Start <= now
            BY <1>t DEF TypeOK
        <3>2. CASE e = now
            BY <3>1, <3>2
        <3>3. CASE e \in 0 .. Coherent - 1
            BY <3>1, <3>3
        <3> QED
            BY <3>2, <3>3
    <2>3. [x EXCEPT !.epoch = e].epoch = e
        BY <1>t DEF TypeOK
    <2>4. \A y \in net' : y.epoch <= now
        BY <2>1, <2>2, <2>3
    <2> QED
        BY <1>1, <1>t, <2>4 DEF ServerAnswers
<1>2. CASE Arrive
    <2>1. PICK x \in net : /\ socket' = Append(socket, x)
                           /\ net' \in {net, net \ {x}}
        BY <1>2 DEF Arrive
    <2>2. /\ Len(socket) \in Nat
          /\ Len(socket') = Len(socket) + 1
          /\ socket'[Len(socket) + 1] = x
          /\ \A i \in 1 .. Len(socket) : socket'[i] = socket[i]
        <3>1. socket \in Seq([id : Nat, epoch : Nat])
            BY <1>t DEF TypeOK
        <3> QED
            BY <2>1, <3>1, AppendOne
    <2>3. \A i \in 1 .. Len(socket') : socket'[i].epoch <= now
        BY <2>2
    <2> QED
        BY <1>2, <1>t, <2>1, <2>3 DEF Arrive
<1>3. CASE Lose
    BY <1>3, <1>t DEF Lose
<1>4. CASE SetNTPServer
    BY <1>4, <1>t DEF SetNTPServer
<1>5. CASE Call
    BY <1>5, <1>t DEF Call
<1>6. CASE ResolveFails
    BY <1>6, <1>t DEF ResolveFails
<1>7. CASE SendNTPPacket
    <2>1. [id |-> requests', epoch |-> Unanswered].epoch <= now
        BY <1>t DEF TypeOK, Unanswered
    <2> QED
        BY <1>7, <1>t, <2>1 DEF SendNTPPacket
<1>8. CASE DelayEnds
    BY <1>8, <1>t DEF DelayEnds
<1>9. CASE Receive
    <2>1. /\ Len(socket) \in Nat \ {0}
          /\ Head(socket) = socket[1]
          /\ Len(Tail(socket)) = Len(socket) - 1
          /\ \A i \in 1 .. Len(Tail(socket)) : Tail(socket)[i] = socket[i + 1]
        BY <1>9, <1>t, HeadAndTail DEF Receive, TypeOK
    <2>2. Head(socket).epoch <= now
        BY <2>1
    <2>3. \A i \in 1 .. Len(Tail(socket)) : Tail(socket)[i].epoch <= now
        BY <2>1
    <2> QED
        BY <1>9, <1>t, <2>2, <2>3 DEF Receive
<1>10. CASE Timeout
    BY <1>10, <1>t DEF Timeout
<1>11. CASE Tick
    <2>1. \A x \in net : x.epoch \in Int
        BY <1>t DEF TypeOK, Unanswered
    <2>2. \A i \in 1 .. Len(socket) : socket[i].epoch \in Int
        <3>1. socket \in Seq([id : Nat, epoch : Nat])
            BY <1>t DEF TypeOK
        <3>2. \A i \in 1 .. Len(socket) : socket[i] \in [id : Nat, epoch : Nat]
            BY <3>1, ElementsTyped
        <3> QED
            BY <3>2
    <2> QED
        BY <1>11, <1>t, <2>1, <2>2 DEF Tick, TypeOK
<1>12. CASE UNCHANGED vars
    BY <1>12, <1>t DEF vars
<1> QED
    BY <1>1, <1>2, <1>3, <1>4, <1>5, <1>6, <1>7, <1>8, <1>9, <1>10, <1>11, <1>12
    DEF Next

\* No loss, duplication, delay or reordering makes the clock run ahead.
THEOREM ClockNeverAheadHolds == Spec => []ClockNeverAhead
<1>1. Init => NeverAheadInv \/ ~TypeOK
    BY DEF Init, NeverAheadInv, AnswersArePast, ClockNeverAhead
<1>2. NeverAheadInv => ClockNeverAhead
    BY DEF NeverAheadInv
<1> QED
    BY <1>1, <1>2, NeverAheadInductive, TypeCorrect, PTL DEF Spec

-----------------------------------------------------------------------------
(***************************************************************************)
(* Fresh answers.  A sync that found nothing under way when it was called    *)
(* can meet answers to its own requests only, and the server sent them after *)
(* the call: they tell a time of the sync, unless the server is wrong.      *)
(***************************************************************************)

Own(epoch) == epoch \in BadEpochs \/ calledAt <= epoch

OwnAnswers ==
    pc # "idle" /\ ~leftover =>
        /\ calledAt <= now
        /\ \A x \in net : x.epoch = Unanswered \/ Own(x.epoch)
        /\ \A i \in 1 .. Len(socket) : Own(socket[i].epoch)

LEMMA OwnAnswersKept ==
    TypeOK /\ TypeOK' /\ OwnAnswers /\ [Next]_vars => OwnAnswers'
<1> SUFFICES ASSUME TypeOK, TypeOK', OwnAnswers, [Next]_vars PROVE OwnAnswers'
    OBVIOUS
<1> USE DEF OwnAnswers, Own, noteVars, callVars, netVars
<1>1. CASE ServerAnswers
    <2>1. PICK x \in net, e \in {now} \cup BadEpochs :
              net' = (net \ {x}) \cup {[x EXCEPT !.epoch = e]}
        BY <1>1 DEF ServerAnswers
    <2>2. [x EXCEPT !.epoch = e].epoch = e
        BY DEF TypeOK
    <2>3. /\ pc' = pc /\ leftover' = leftover /\ calledAt' = calledAt
          /\ now' = now /\ socket' = socket
        BY <1>1 DEF ServerAnswers
    <2>4. ASSUME pc # "idle", ~leftover, NEW y \in net'
          PROVE  y.epoch = Unanswered \/ Own(y.epoch)
        <3>1. calledAt <= now
            BY <2>4
        <3>2. CASE y \in net
            BY <2>4, <3>2
        <3>3. CASE y = [x EXCEPT !.epoch = e]
            BY <2>2, <3>1, <3>3
        <3> QED
            BY <2>1, <3>2, <3>3
    <2> QED
        BY <2>3, <2>4
<1>2. CASE Arrive
    <2>1. PICK x \in net : /\ x.epoch # Unanswered
                           /\ socket' = Append(socket, x)
                           /\ net' \in {net, net \ {x}}
        BY <1>2 DEF Arrive
    <2>2. /\ Len(socket) \in Nat
          /\ Len(socket') = Len(socket) + 1
          /\ socket'[Len(socket) + 1] = x
          /\ \A i \in 1 .. Len(socket) : socket'[i] = socket[i]
        <3>1. socket \in Seq([id : Nat, epoch : Nat])
            BY DEF TypeOK
        <3> QED
            BY <2>1, <3>1, AppendOne
    <2>3. /\ pc' = pc /\ leftover' = leftover /\ calledAt' = calledAt /\ now' = now
        BY <1>2 DEF Arrive
    <2>4. ASSUME pc # "idle", ~leftover, NEW i \in 1 .. Len(socket')
          PROVE  Own(socket'[i].epoch)
        BY <2>1, <2>2, <2>4
    <2> QED
        BY <2>1, <2>3, <2>4
<1>3. CASE Lose
    BY <1>3 DEF Lose
<1>4. CASE SetNTPServer
    BY <1>4 DEF SetNTPServer
<1>5. CASE Call
    <2>1. CASE ntpserver = "none"
        BY <1>5, <2>1 DEF Call
    <2>2. CASE ntpserver # "none"
        <3>1. calledAt' = now /\ now' = now /\ net' = net /\ socket' = socket
              /\ leftover' = (net # {} \/ socket # <<>>)
            BY <1>5, <2>2 DEF Call
        <3>2. ~leftover' => net' = {} /\ socket' = <<>>
            BY <3>1
        <3> QED
            BY <3>1, <3>2 DEF TypeOK
    <2> QED
        BY <2>1, <2>2
<1>6. CASE ResolveFails
    BY <1>6 DEF ResolveFails, Return
<1>7. CASE SendNTPPacket
    <2>1. [id |-> requests', epoch |-> Unanswered].epoch = Unanswered
        OBVIOUS
    <2> QED
        BY <1>7, <2>1 DEF SendNTPPacket
<1>8. CASE DelayEnds
    BY <1>8 DEF DelayEnds
<1>9. CASE Receive
    <2>1. /\ Len(socket) \in Nat \ {0}
          /\ Len(Tail(socket)) = Len(socket) - 1
          /\ \A i \in 1 .. Len(Tail(socket)) : Tail(socket)[i] = socket[i + 1]
        BY <1>9, HeadAndTail DEF Receive, TypeOK
    <2>2. /\ pc = "waiting" /\ leftover' = leftover /\ calledAt' = calledAt
          /\ now' = now /\ net' = net /\ socket' = Tail(socket)
        BY <1>9 DEF Receive
    <2>3. ASSUME ~leftover, NEW i \in 1 .. Len(Tail(socket))
          PROVE  Own(Tail(socket)[i].epoch)
        BY <2>1, <2>2, <2>3
    <2> QED
        BY <2>2, <2>3
<1>10. CASE Timeout
    BY <1>10 DEF Timeout, Return
<1>11. CASE Tick
    <2>1. now' = now + 1 /\ now \in Nat /\ calledAt \in Nat
        BY <1>11 DEF Tick, TypeOK
    <2> QED
        BY <1>11, <2>1 DEF Tick
<1>12. CASE UNCHANGED vars
    BY <1>12 DEF vars
<1> QED
    BY <1>1, <1>2, <1>3, <1>4, <1>5, <1>6, <1>7, <1>8, <1>9, <1>10, <1>11, <1>12
    DEF Next

\* Whatever is lost, duplicated, delayed or reordered: a sync with nothing of an
\* earlier one under way sets the clock to a time of its own duration, or to one
\* the server got wrong.
THEOREM FreshUnlessLeftoverHolds == Spec => FreshUnlessLeftover
<1>1. Init => OwnAnswers
    BY DEF Init, OwnAnswers
<1>2. NeverAheadInv /\ OwnAnswers /\ [Next]_vars
          => [(pc = "waiting" /\ ret' /\ ~ret /\ ~leftover /\ wall' # wall)
                  => \/ calledAt <= wall' /\ wall' <= now
                     \/ wall' \in BadEpochs]_vars
    <2> SUFFICES ASSUME NeverAheadInv, OwnAnswers, Next, pc = "waiting",
                        ret', ~ret, ~leftover, wall' # wall
                 PROVE  (calledAt <= wall' /\ wall' <= now) \/ wall' \in BadEpochs
        OBVIOUS
    <2>1. Receive
        BY DEF Next, ServerAnswers, Arrive, Lose, SetNTPServer, Call, ResolveFails,
               SendNTPPacket, DelayEnds, Timeout, Tick, noteVars, callVars
    <2>2. Len(socket) \in Nat \ {0} /\ Head(socket) = socket[1]
        BY <2>1, HeadAndTail DEF Receive, NeverAheadInv, TypeOK
    <2>3. wall' = socket[1].epoch
        BY <2>1, <2>2 DEF Receive
    <2>4. Own(socket[1].epoch) /\ socket[1].epoch <= now
        BY <2>2 DEF OwnAnswers, NeverAheadInv, AnswersArePast
    <2> QED
        BY <2>3, <2>4 DEF Own
<1>3. Init => NeverAheadInv \/ ~TypeOK
    BY DEF Init, NeverAheadInv, AnswersArePast, ClockNeverAhead
<1> QED
    BY <1>1, <1>2, <1>3, OwnAnswersKept, NeverAheadInductive, TypeCorrect, PTL
    DEF Spec, FreshUnlessLeftover

-----------------------------------------------------------------------------
(***************************************************************************)
(* The reported time.  unixTimeUpdate is millis() of a moment the history    *)
(* variable wallNoted remembers; for less than one wrap the subtraction is   *)
(* exact, so what is reported differs from the clock by the last answer's    *)
(* difference from it, and by nothing else.                                 *)
(***************************************************************************)

NoteInv == TypeOK /\ (Noted => unixTimeUpdate = Millis(wallNoted))

LEMMA NoteInductive == NoteInv /\ TypeOK' /\ [Next]_vars => NoteInv'
<1> SUFFICES ASSUME NoteInv, TypeOK', [Next]_vars PROVE NoteInv'
    OBVIOUS
<1> USE DEF NoteInv, Noted, noteVars
<1>1. CASE Receive
    BY <1>1 DEF Receive
<1>2. CASE Tick
    BY <1>2 DEF Tick
<1>3. CASE UNCHANGED noteVars
    BY <1>3
<1> QED
    BY <1>1, <1>2, <1>3 DEF Next, ServerAnswers, Arrive, Lose, SetNTPServer, Call,
       ResolveFails, SendNTPPacket, DelayEnds, Timeout, vars

\* On a 32-bit build the error of getUNIXTime() is that of the last answer.
THEOREM ReportedSettlesHolds ==
    ASSUME LongWrap = Wrap
    PROVE  Spec => []ReportedSettles
<1>1. Init => NoteInv \/ ~TypeOK
    BY DEF Init, NoteInv, Noted
<1>2. NoteInv => ReportedSettles
    <2> SUFFICES ASSUME NoteInv, Noted, wallNoted <= wall, wall - wallNoted < Wrap
                 PROVE  UNIXTime - wall = unixTimeTS - wallNoted
                        /\ unixTimeTS - wallNoted \in Int
        BY DEF ReportedSettles
    <2>1. wall \in Nat /\ wallNoted \in Nat /\ unixTimeTS \in Nat
        BY DEF NoteInv, TypeOK
    <2>2. /\ Elapsed(Millis(wall), Millis(wallNoted)) \in Nat
          /\ wall - wallNoted <= Elapsed(Millis(wall), Millis(wallNoted))
        BY <2>1, ElapsedCoversGap
    <2>3. Elapsed(Millis(wall), Millis(wallNoted)) <= wall - wallNoted
        BY <2>1, ElapsedWithinGap
    <2>4. UNIXTime = unixTimeTS + Elapsed(Millis(wall), Millis(wallNoted))
        BY DEF UNIXTime, NoteInv
    <2> QED
        BY <2>1, <2>2, <2>3, <2>4
<1> QED
    BY <1>1, <1>2, NoteInductive, TypeCorrect, PTL DEF Spec
=============================================================================
