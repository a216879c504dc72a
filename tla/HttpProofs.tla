----------------------------- MODULE HttpProofs -----------------------------
(***************************************************************************)
(* Theorems of Http, for every number of descriptors and reports and every   *)
(* configuration the server may send.                                       *)
(***************************************************************************)
EXTENDS Http, SequenceTheorems, TLAPS

USE TcpAssumption, HttpAssumption

SocketsOK ==
    /\ file \in [Descriptors -> Files(Pieces)]
    /\ fd \in [Threads -> {0} \cup Descriptors]

RequestsOK ==
    /\ place \in [Threads -> Places]
    /\ job \in [Threads -> {"none", "config", "alert"} \cup Reports]
    /\ resp \in [Threads -> Responses]

BoardOK ==
    /\ base \in BOOLEAN
    /\ config \in Seq(Pieces)
    /\ reports \subseteq Reports /\ todo \subseteq Reports /\ received \subseteq Reports
    /\ mode \in {"up", "crashed", "upgrading"}

LEMMA TypeParts == TypeOK <=> SocketsOK /\ RequestsOK /\ BoardOK
    BY DEF TypeOK, SocketsOK, RequestsOK, BoardOK

LEMMA NextTypeParts == TypeOK' <=> SocketsOK' /\ RequestsOK' /\ BoardOK'
    BY DEF TypeOK, SocketsOK, RequestsOK, BoardOK

\* A thread uses its descriptor only while it has one.
HoldsOne == \A t \in Threads :
    place[t] \in {"select", "shut", "send", "wait", "status", "headers", "body"}
        => fd[t] \in Descriptors

TypeInv == TypeOK /\ HoldsOne

-----------------------------------------------------------------------------
LEMMA ClosedTyped == Closed \in Files(Pieces)
    BY DEF Closed, Files, Nobody

\* What a thread or the other side does to one descriptor leaves it a file.
LEMMA OneFile ==
    ASSUME SocketsOK, NEW d \in Descriptors, NEW f \in Files(Pieces),
           file' = [file EXCEPT ![d] = f]
    PROVE  file' \in [Descriptors -> Files(Pieces)]
    BY DEF SocketsOK

LEMMA TakeTyped ==
    ASSUME SocketsOK, NEW t \in Threads, NEW d \in Descriptors,
           NEW peer \in {"none", "directory", "pending"}, Take(t, d, peer)
    PROVE  file' \in [Descriptors -> Files(Pieces)]
<1>1. [Closed EXCEPT !.owner = t, !.peer = peer] \in Files(Pieces)
    BY ClosedTyped DEF Files
<1> QED
    BY <1>1, OneFile DEF Take

\* Reading a line, or all there is.
LEMMA ReadTyped ==
    ASSUME SocketsOK, NEW t \in Threads, fd[t] \in Descriptors,
           ReadAll(t) \/ (Available(t) /\ ReadLine(t))
    PROVE  SocketsOK'
<1> DEFINE f == file[fd[t]]
<1>1. f \in Files(Pieces)
    BY DEF SocketsOK
<1>2. CASE ReadAll(t)
    <2>1. [f EXCEPT !.inbox = <<>>] \in Files(Pieces)
        <3>1. <<>> \in Seq(Pieces)
            OBVIOUS
        <3> HIDE DEF f
        <3> QED
            BY <1>1, <3>1 DEF Files
    <2>2. file' = [file EXCEPT ![fd[t]] = [f EXCEPT !.inbox = <<>>]]
        BY <1>2 DEF ReadAll, SocketsOK
    <2> HIDE DEF f
    <2> QED
        BY <1>2, <2>1, <2>2, OneFile DEF ReadAll, SocketsOK
<1>3. CASE Available(t) /\ ReadLine(t)
    <2>1. f.inbox \in Seq(Pieces) /\ f.inbox # <<>>
        BY <1>1, <1>3 DEF Files, Available
    <2>2. Tail(f.inbox) \in Seq(Pieces)
        BY <2>1
    <2>3. [f EXCEPT !.inbox = Tail(@)] \in Files(Pieces)
        BY <1>1, <2>2 DEF Files
    <2>4. file' = [file EXCEPT ![fd[t]] = [f EXCEPT !.inbox = Tail(@)]]
        BY <1>3 DEF ReadLine, SocketsOK
    <2> HIDE DEF f
    <2> QED
        BY <1>3, <2>3, <2>4, OneFile DEF ReadLine, SocketsOK
<1> QED
    BY <1>2, <1>3

LEMMA RepliesTyped ==
    ASSUME NEW t, NEW whole \in BOOLEAN, NEW reply \in Replies(t, whole)
    PROVE  reply \in Seq(Pieces)
<1>1. ASSUME NEW c \in Configs
      PROVE  <<"200", "length", "blank">> \o c \in Seq(Pieces)
    <2>1. c \in Seq(Pieces)
        BY DEF Pieces
    <2>2. <<"200", "length", "blank">> \in Seq(Pieces)
        BY DEF Pieces
    <2> QED
        BY <2>1, <2>2
<1>2. <<"200", "blank">> \in Seq(Pieces) /\ <<"500", "blank">> \in Seq(Pieces)
      /\ <<"junk">> \in Seq(Pieces) /\ <<"200", "length", "blank", "seconds">> \in Seq(Pieces)
    BY DEF Pieces
<1> QED
    BY <1>1, <1>2 DEF Replies

LEMMA GotoTyped ==
    ASSUME RequestsOK, NEW t \in Threads, NEW next \in Places, Goto(t, next)
    PROVE  place' \in [Threads -> Places]
    BY DEF RequestsOK, Goto

LEMMA FailTyped ==
    ASSUME RequestsOK, NEW t \in Threads, NEW error \in Errors, Fail(t, error)
    PROVE  place' \in [Threads -> Places] /\ resp' \in [Threads -> Responses]
<1>1. resp[t] \in Responses
    BY DEF RequestsOK
<1>2. [resp[t] EXCEPT !.error = error] \in Responses
    BY <1>1 DEF Responses
<1>3. resp' \in [Threads -> Responses]
    BY <1>2 DEF Fail, RequestsOK
<1>4. place' \in [Threads -> Places]
    BY GotoTyped DEF Fail, Places
<1> QED
    BY <1>3, <1>4

LEMMA BoardKept ==
    ASSUME BoardOK, UNCHANGED boardVars
    PROVE  BoardOK'
    BY DEF BoardOK, boardVars

\* A step of a request keeps the types.
LEMMA RequestStepTyped ==
    ASSUME TypeInv, NEW t \in Threads, RequestStep(t)
    PROVE  SocketsOK' /\ RequestsOK' /\ BoardOK'
<1>t. SocketsOK /\ RequestsOK /\ BoardOK
    BY TypeParts DEF TypeInv
<1>h. place[t] \in {"select", "shut", "send", "wait", "status", "headers", "body"}
          => fd[t] \in Descriptors /\ file[fd[t]] \in Files(Pieces)
    BY <1>t DEF TypeInv, HoldsOne, SocketsOK
<1>r. resp[t] \in Responses /\ resp \in [Threads -> Responses]
    BY <1>t DEF RequestsOK
<1>p. {"connect", "select", "shut", "send", "wait", "status", "headers", "body", "stop", "done"} \subseteq Places
    BY DEF Places
<1>e. Errors = {"HTTP_OK", "HTTP_CONNECTION_TIMEOUT", "HTTP_REQUEST_TIMEOUT", "HTTP_MALFORMED_REPLY"}
    BY DEF Errors
<1>1. CASE ConnectStep(t)
    <2>1. SocketsOK'
        <3>1. CASE SocketFails(t)
            BY <1>t, <3>1 DEF SocketFails, SocketsOK, tcpVars
        <3>2. CASE ConnectFails(t)
            BY <1>t, <3>2, TakeTyped DEF ConnectFails, SocketsOK, Free
        <3>3. CASE Connect(t)
            BY <1>t, <3>3, TakeTyped DEF Connect, SocketsOK, Free
        <3> QED
            BY <1>1, <3>1, <3>2, <3>3 DEF ConnectStep
    <2>2. RequestsOK'
        <3>1. CASE Fail(t, "HTTP_CONNECTION_TIMEOUT")
            BY <1>1, <3>1, <1>t, <1>e, FailTyped DEF ConnectStep, RequestsOK
        <3>2. CASE Goto(t, "select") /\ UNCHANGED resp
            BY <1>1, <3>2, <1>t, <1>p, GotoTyped DEF ConnectStep, RequestsOK
        <3> QED
            BY <1>1, <3>1, <3>2 DEF ConnectStep
    <2>3. BoardOK'
        BY <1>1, <1>t, BoardKept DEF ConnectStep
    <2> QED
        BY <2>1, <2>2, <2>3
<1>2. CASE SelectStep(t)
    <2>d. fd[t] \in Descriptors
        BY <1>2, <1>h DEF SelectStep, At
    <2>1. SocketsOK'
        <3>1. CASE SelectFails(t)
            BY <3>1, <1>t DEF SelectFails, SocketsOK
        <3>2. CASE SelectTimesOut(t)
            BY <3>2, <1>t, <2>d, OneFile, ClosedTyped DEF SelectTimesOut, SocketsOK
        <3>3. CASE UNCHANGED tcpVars
            BY <3>3, <1>t DEF tcpVars, SocketsOK
        <3> QED
            BY <1>2, <3>1, <3>2, <3>3 DEF SelectStep
    <2>2. RequestsOK'
        <3>1. CASE Fail(t, "HTTP_CONNECTION_TIMEOUT")
            BY <1>2, <3>1, <1>t, <1>e, FailTyped DEF SelectStep, RequestsOK
        <3>2. CASE Goto(t, "shut") /\ UNCHANGED resp
            BY <1>2, <3>2, <1>t, <1>p, GotoTyped DEF SelectStep, RequestsOK
        <3>3. CASE Goto(t, "send") /\ UNCHANGED resp
            BY <1>2, <3>3, <1>t, <1>p, GotoTyped DEF SelectStep, RequestsOK
        <3> QED
            BY <1>2, <3>1, <3>2, <3>3 DEF SelectStep
    <2>3. BoardOK'
        BY <1>2, <1>t, BoardKept DEF SelectStep
    <2> QED
        BY <2>1, <2>2, <2>3
<1>3. CASE ShutStep(t)
    <2>1. fd[t] \in Descriptors /\ file[fd[t]] \in Files(Pieces)
        BY <1>3, <1>h DEF ShutStep, At
    <2>2. SocketsOK'
        <3> DEFINE f == file[fd[t]]
                   peer == CASE f.peer = "open" -> "ended"
                             [] f.peer = "pending" -> "refused"
                             [] OTHER -> f.peer
                   shut == [f EXCEPT !.peer = peer, !.coming = <<>>]
        <3>0. peer \in {"none", "directory", "pending", "refused", "open", "ended"}
            BY <2>1 DEF Files
        <3>1. shut \in Files(Pieces)
            <4>1. f \in Files(Pieces) /\ <<>> \in Seq(Pieces)
                BY <2>1
            <4> HIDE DEF f, peer
            <4> QED
                BY <4>1, <3>0 DEF Files
        <3>2. file' = [file EXCEPT ![fd[t]] = shut]
            BY <1>3, <1>t, <2>1 DEF ShutStep, ShutdownClosed, SocketsOK
        <3>3. fd' \in [Threads -> {0} \cup Descriptors]
            BY <1>3, <1>t DEF ShutStep, ShutdownClosed, SocketsOK
        <3> HIDE DEF shut
        <3> QED
            BY <3>1, <3>2, <3>3, <1>t, <2>1, OneFile DEF SocketsOK
    <2>3. RequestsOK'
        BY <1>3, <1>t, <1>e, FailTyped DEF ShutStep, RequestsOK
    <2>4. BoardOK'
        BY <1>3, <1>t, BoardKept DEF ShutStep
    <2> QED
        BY <2>2, <2>3, <2>4
<1>4. CASE SendStep(t)
    <2>1. fd[t] \in Descriptors /\ file[fd[t]] \in Files(Pieces)
        BY <1>4, <1>h DEF SendStep, At
    <2>2. ASSUME NEW whole \in BOOLEAN, NEW reply \in Replies(t, whole)
          PROVE  reply \in Seq(Pieces)
        BY <2>2, RepliesTyped
    <2>3. SocketsOK'
        <3>1. CASE UNCHANGED file
            BY <1>4, <1>t, <3>1 DEF SendStep, SocketsOK
        <3>2. ASSUME NEW whole \in BOOLEAN, NEW reply \in Replies(t, whole),
                     file' = [file EXCEPT ![fd[t]].coming = reply]
              PROVE  SocketsOK'
            <4>1. [file[fd[t]] EXCEPT !.coming = reply] \in Files(Pieces)
                BY <2>1, <2>2 DEF Files
            <4>2. file' = [file EXCEPT ![fd[t]] = [file[fd[t]] EXCEPT !.coming = reply]]
                BY <3>2, <1>t, <2>1 DEF SocketsOK
            <4> QED
                BY <4>1, <4>2, <1>4, <1>t, <2>1, OneFile DEF SendStep, SocketsOK
        <3> QED
            BY <1>4, <3>1, <3>2 DEF SendStep
    <2>4. RequestsOK'
        BY <1>4, <1>t, <1>p, GotoTyped DEF SendStep, RequestsOK
    <2>5. BoardOK'
        BY <1>4, <1>t DEF SendStep, BoardOK
    <2> QED
        BY <2>3, <2>4, <2>5
<1>5. CASE WaitStep(t)
    <2>1. SocketsOK'
        BY <1>5, <1>t DEF WaitStep, SocketsOK, tcpVars
    <2>2. RequestsOK'
        <3>1. CASE Fail(t, "HTTP_REQUEST_TIMEOUT")
            BY <1>5, <3>1, <1>t, <1>e, FailTyped DEF WaitStep, RequestsOK
        <3>2. CASE Goto(t, "status") /\ UNCHANGED resp
            BY <1>5, <3>2, <1>t, <1>p, GotoTyped DEF WaitStep, RequestsOK
        <3> QED
            BY <1>5, <3>1, <3>2 DEF WaitStep
    <2>3. BoardOK'
        BY <1>5, <1>t, BoardKept DEF WaitStep
    <2> QED
        BY <2>1, <2>2, <2>3
<1>6. CASE StatusStep(t)
    <2>1. fd[t] \in Descriptors
        BY <1>6, <1>h DEF StatusStep, At
    <2>2. SocketsOK'
        BY <1>6, <1>t, <2>1, ReadTyped DEF StatusStep
    <2>3. RequestsOK'
        <3>1. CASE Fail(t, "HTTP_MALFORMED_REPLY")
            BY <1>6, <3>1, <1>t, <1>e, FailTyped DEF StatusStep, RequestsOK
        <3>2. ASSUME NEW line \in {"200", "500"}, resp' = [resp EXCEPT ![t].code = line],
                     Goto(t, "headers")
              PROVE  RequestsOK'
            <4>1. [resp[t] EXCEPT !.code = line] \in Responses
                BY <1>r DEF Responses
            <4> QED
                BY <4>1, <3>2, <1>6, <1>t, <1>r, <1>p, GotoTyped DEF StatusStep, RequestsOK
        <3> QED
            BY <1>6, <3>1, <3>2 DEF StatusStep
    <2>4. BoardOK'
        BY <1>6, <1>t, BoardKept DEF StatusStep
    <2> QED
        BY <2>2, <2>3, <2>4
<1>7. CASE HeaderStep(t)
    <2>1. fd[t] \in Descriptors
        BY <1>7, <1>h DEF HeaderStep, At
    <2>2. SocketsOK'
        <3>1. CASE UNCHANGED tcpVars
            BY <3>1, <1>t DEF tcpVars, SocketsOK
        <3>2. CASE Available(t) /\ ReadLine(t)
            BY <3>2, <1>t, <2>1, ReadTyped
        <3> QED
            BY <1>7, <3>1, <3>2 DEF HeaderStep
    <2>3. RequestsOK'
        <3>1. CASE AfterHeaders(t) /\ UNCHANGED resp
            BY <1>7, <3>1, <1>t, <1>p, GotoTyped DEF HeaderStep, AfterHeaders, RequestsOK
        <3>2. CASE resp' = [resp EXCEPT ![t].length = TRUE] /\ UNCHANGED place
            <4>1. [resp[t] EXCEPT !.length = TRUE] \in Responses
                BY <1>r DEF Responses
            <4> QED
                BY <4>1, <3>2, <1>7, <1>t, <1>r DEF HeaderStep, RequestsOK
        <3> QED
            BY <1>7, <3>1, <3>2 DEF HeaderStep
    <2>4. BoardOK'
        BY <1>7, <1>t, BoardKept DEF HeaderStep
    <2> QED
        BY <2>2, <2>3, <2>4
<1>8. CASE HeaderCrash(t)
    BY <1>8, <1>t DEF HeaderCrash, SocketsOK, RequestsOK, BoardOK, tcpVars, threadVars
<1>9. CASE BodyStep(t)
    <2>1. fd[t] \in Descriptors
        BY <1>9, <1>h DEF BodyStep, At
    <2>2. SocketsOK'
        BY <1>9, <1>t, <2>1, ReadTyped DEF BodyStep
    <2>3. [resp[t] EXCEPT !.body = file[fd[t]].inbox] \in Responses
        BY <2>1, <1>t, <1>r DEF Files, SocketsOK, Responses
    <2>4. RequestsOK'
        BY <1>9, <1>t, <1>r, <2>3, <1>p, GotoTyped DEF BodyStep, RequestsOK
    <2>5. BoardOK'
        BY <1>9, <1>t, BoardKept DEF BodyStep
    <2> QED
        BY <2>2, <2>4, <2>5
<1>10. CASE StopStep(t)
    <2>1. SocketsOK'
        BY <1>10, <1>t, OneFile, ClosedTyped DEF StopStep, CloseOwn, SocketsOK, tcpVars
    <2>2. RequestsOK'
        BY <1>10, <1>t, <1>p, GotoTyped DEF StopStep, RequestsOK
    <2>3. BoardOK'
        BY <1>10, <1>t, BoardKept DEF StopStep
    <2> QED
        BY <2>1, <2>2, <2>3
<1> QED
    BY <1>1, <1>2, <1>3, <1>4, <1>5, <1>6, <1>7, <1>8, <1>9, <1>10 DEF RequestStep

-----------------------------------------------------------------------------
(***************************************************************************)
(* Whose descriptor it is.                                                  *)
(***************************************************************************)

\* A thread outside a request has none.
HoldsNone == \A t \in Threads :
    place[t] \in {"idle", "connect", "done", "new", "gone"} => fd[t] = 0

OwnInv == TypeInv /\ OwnSocket /\ HoldsNone

\* A step of t, or of the other side of a connection, takes no descriptor from another
\* thread and makes no directory of it.
Spares(t) == \A d \in Descriptors :
    file[d].owner \in Threads \ {t} =>
        /\ file'[d].owner = file[d].owner
        /\ file'[d].peer = "directory" => file[d].peer = "directory"

LEMMA CloseSpares ==
    ASSUME OwnInv, NEW t \in Threads, NEW d \in Descriptors, file[d].owner = t,
           file' = [file EXCEPT ![d] = Closed]
    PROVE  Spares(t)
    BY DEF Spares, Closed, OwnInv, TypeInv, TypeOK

LEMMA TakeSpares ==
    ASSUME OwnInv, NEW t \in Threads, NEW d \in Free, NEW peer, Take(t, d, peer)
    PROVE  Spares(t)
<1>1. d \in Descriptors /\ file[d].owner \notin Threads
    BY DEF Free, Nobody
<1>2. \A e \in Descriptors : e # d => file'[e] = file[e]
    BY DEF Take, OwnInv, TypeInv, TypeOK
<1> QED
    BY <1>1, <1>2 DEF Spares

\* What a step of a request leaves the thread with.
HasOwn(t) ==
    /\ place'[t] \in {"select", "shut", "send", "wait", "status", "headers", "body"}
           => fd'[t] \in Descriptors
    /\ fd'[t] # 0 /\ place'[t] # "shut" => file'[fd'[t]].owner = t /\ file'[fd'[t]].peer # "directory"
    /\ place'[t] \in {"idle", "connect", "done", "new", "gone"} => fd'[t] = 0

LEMMA OwnOfSteps ==
    ASSUME OwnInv, NEW t \in Threads, TypeOK', Spares(t), HasOwn(t),
           \A s \in Threads \ {t} : fd'[s] = fd[s] /\ place'[s] = place[s]
    PROVE  OwnInv'
<1>1. ASSUME NEW s \in Threads
      PROVE  /\ place'[s] \in {"select", "shut", "send", "wait", "status", "headers", "body"}
                   => fd'[s] \in Descriptors
             /\ fd'[s] # 0 /\ place'[s] # "shut"
                   => file'[fd'[s]].owner = s /\ file'[fd'[s]].peer # "directory"
             /\ place'[s] \in {"idle", "connect", "done", "new", "gone"} => fd'[s] = 0
    <2>1. CASE s = t
        BY <2>1 DEF HasOwn
    <2>2. CASE s # t
        <3>1. fd'[s] = fd[s] /\ place'[s] = place[s] /\ fd[s] \in {0} \cup Descriptors
            BY <2>2 DEF OwnInv, TypeInv, TypeOK
        <3> QED
            BY <2>2, <3>1 DEF Spares, OwnInv, TypeInv, HoldsOne, HoldsNone, OwnSocket
    <2> QED
        BY <2>1, <2>2
<1> QED
    BY <1>1 DEF OwnInv, TypeInv, HoldsOne, HoldsNone, OwnSocket

LEMMA RequestStepOwn ==
    ASSUME OwnInv, NEW t \in Threads, RequestStep(t)
    PROVE  OwnInv'
<1>t. TypeOK /\ TypeInv /\ file \in [Descriptors -> Files(Pieces)]
      /\ fd \in [Threads -> {0} \cup Descriptors] /\ place \in [Threads -> Places]
    BY DEF OwnInv, TypeInv, TypeOK
<1>n. TypeOK'
    BY <1>t, RequestStepTyped, NextTypeParts
<1>o. place[t] # "shut" /\ fd[t] # 0 =>
          fd[t] \in Descriptors /\ file[fd[t]].owner = t /\ file[fd[t]].peer # "directory"
    BY <1>t DEF OwnInv, OwnSocket
<1>h. place[t] \in {"select", "shut", "send", "wait", "status", "headers", "body"}
          => fd[t] \in Descriptors /\ fd[t] # 0
    BY <1>t, TcpAssumption DEF TypeInv, HoldsOne, Descriptors
<1>c. place[t] = "connect" => fd[t] = 0
    BY DEF OwnInv, HoldsNone
<1>s. \A s \in Threads \ {t} : fd'[s] = fd[s] /\ place'[s] = place[s]
    <2>1. fd' = fd \/ \E d : fd' = [fd EXCEPT ![t] = d]
        BY DEF RequestStep, ConnectStep, SelectStep, ShutStep, SendStep, WaitStep, StatusStep, HeaderStep,
            HeaderCrash, BodyStep, StopStep, SocketFails, ConnectFails, Connect, SelectFails,
            SelectTimesOut, ShutdownClosed, ReadLine, ReadAll, CloseOwn, tcpVars
    <2>2. place' = place \/ \E p : place' = [place EXCEPT ![t] = p]
        BY DEF RequestStep, ConnectStep, SelectStep, ShutStep, SendStep, WaitStep, StatusStep, HeaderStep,
            HeaderCrash, BodyStep, StopStep, Fail, Goto, AfterHeaders, threadVars
    <2> QED
        BY <2>1, <2>2, <1>t
<1>1. CASE ConnectStep(t)
    <2>1. fd[t] = 0
        BY <1>1, <1>c DEF ConnectStep, At
    <2>2. CASE SocketFails(t) /\ Fail(t, "HTTP_CONNECTION_TIMEOUT")
        BY <2>1, <2>2, <1>t, <1>n, <1>s, OwnOfSteps
        DEF SocketFails, Fail, Goto, tcpVars, Spares, HasOwn
    <2>3. CASE ConnectFails(t) /\ Fail(t, "HTTP_CONNECTION_TIMEOUT")
        <3>1. Spares(t)
            BY <2>3, TakeSpares DEF ConnectFails
        <3>2. HasOwn(t)
            BY <2>1, <2>3, <1>t DEF ConnectFails, Fail, Goto, HasOwn
        <3> QED
            BY <3>1, <3>2, <1>n, <1>s, OwnOfSteps
    <2>4. CASE Connect(t) /\ Goto(t, "select")
        <3>1. PICK d \in Free : Take(t, d, "pending") /\ fd' = [fd EXCEPT ![t] = d]
            BY <2>4 DEF Connect
        <3>2. Spares(t)
            BY <3>1, TakeSpares
        <3>3. d \in Descriptors /\ file'[d] = [Closed EXCEPT !.owner = t, !.peer = "pending"]
            BY <3>1, <1>t DEF Free, Take
        <3>4. HasOwn(t)
            BY <3>1, <3>3, <2>4, <1>t DEF Goto, HasOwn, Closed
        <3> QED
            BY <3>2, <3>4, <1>n, <1>s, OwnOfSteps
    <2> QED
        BY <1>1, <2>2, <2>3, <2>4 DEF ConnectStep
<1>2. CASE SelectStep(t)
    <2>1. place[t] = "select" /\ fd[t] \in Descriptors /\ fd[t] # 0
          /\ file[fd[t]].owner = t /\ file[fd[t]].peer # "directory"
        BY <1>2, <1>h, <1>o DEF SelectStep, At
    <2>2. Spares(t)
        <3>1. CASE UNCHANGED file
            BY <3>1 DEF Spares
        <3>2. CASE SelectTimesOut(t)
            BY <3>2, <2>1, CloseSpares DEF SelectTimesOut
        <3> QED
            BY <1>2, <3>1, <3>2 DEF SelectStep, SelectFails, tcpVars
    <2>3. HasOwn(t)
        BY <1>2, <2>1, <1>t
        DEF SelectStep, SelectFails, SelectTimesOut, Fail, Goto, HasOwn, tcpVars
    <2> QED
        BY <2>2, <2>3, <1>n, <1>s, OwnOfSteps
<1>3. CASE ShutStep(t)
    <2>1. place[t] = "shut" /\ fd[t] \in Descriptors
        BY <1>3, <1>h DEF ShutStep, At
    <2>2. \A d \in Descriptors : file'[d].owner = file[d].owner
              /\ (file'[d].peer = "directory" => file[d].peer = "directory")
        BY <1>3, <2>1, <1>t DEF ShutStep, ShutdownClosed, Files
    <2>3. HasOwn(t)
        BY <1>3, <1>t DEF ShutStep, ShutdownClosed, Fail, Goto, HasOwn
    <2> QED
        BY <2>2, <2>3, <1>n, <1>s, OwnOfSteps DEF Spares
<1>4. CASE SendStep(t) \/ WaitStep(t) \/ StatusStep(t) \/ HeaderStep(t) \/ HeaderCrash(t) \/ BodyStep(t)
    <2>1. place[t] \in {"send", "wait", "status", "headers", "body"} /\ fd[t] \in Descriptors
          /\ fd[t] # 0 /\ file[fd[t]].owner = t /\ file[fd[t]].peer # "directory"
        BY <1>4, <1>h, <1>o
        DEF SendStep, WaitStep, StatusStep, HeaderStep, HeaderCrash, BodyStep, At
    <2>2. fd' = fd
        BY <1>4 DEF SendStep, WaitStep, StatusStep, HeaderStep, HeaderCrash, BodyStep, ReadLine, ReadAll,
            tcpVars
    <2>3. \A d \in Descriptors : file'[d].owner = file[d].owner /\ file'[d].peer = file[d].peer
        <3>1. CASE file' = file
            BY <3>1
        <3>2. CASE \E reply : file' = [file EXCEPT ![fd[t]].coming = reply]
            BY <3>2, <1>t, <2>1 DEF Files
        <3>3. CASE \E rest : file' = [file EXCEPT ![fd[t]].inbox = rest]
            BY <3>3, <1>t, <2>1 DEF Files
        <3> QED
            BY <1>4, <3>1, <3>2, <3>3 DEF SendStep, WaitStep, StatusStep, HeaderStep, HeaderCrash,
                BodyStep, ReadLine, ReadAll, tcpVars
    <2>4. place'[t] \in {"send", "wait", "status", "headers", "body", "stop"}
        BY <1>4, <2>1, <1>t DEF SendStep, WaitStep, StatusStep, HeaderStep, HeaderCrash, BodyStep, At,
            Fail, Goto, AfterHeaders, threadVars
    <2>5. Spares(t) /\ HasOwn(t)
        BY <2>1, <2>2, <2>3, <2>4 DEF Spares, HasOwn
    <2> QED
        BY <2>5, <1>n, <1>s, OwnOfSteps
<1>5. CASE StopStep(t)
    <2>1. fd[t] # 0 => fd[t] \in Descriptors /\ file[fd[t]].owner = t
        BY <1>5, <1>o DEF StopStep, At
    <2>2. Spares(t)
        <3>1. CASE UNCHANGED file
            BY <3>1 DEF Spares
        <3>2. CASE fd[t] # 0
            BY <3>2, <1>5, <2>1, CloseSpares DEF StopStep, CloseOwn
        <3> QED
            BY <1>5, <3>1, <3>2 DEF StopStep, CloseOwn, tcpVars
    <2>3. HasOwn(t)
        BY <1>5, <1>t DEF StopStep, CloseOwn, Goto, HasOwn, tcpVars
    <2> QED
        BY <2>2, <2>3, <1>n, <1>s, OwnOfSteps
<1> QED
    BY <1>1, <1>2, <1>3, <1>4, <1>5 DEF RequestStep

\* The other side.
LEMMA PeerStepTyped ==
    ASSUME TypeOK, NEW d \in Descriptors, PeerStep(d)
    PROVE  TypeOK'
<1>t. SocketsOK /\ RequestsOK /\ BoardOK /\ file[d] \in Files(Pieces)
    BY TypeParts DEF SocketsOK
<1>1. \E f \in Files(Pieces) : file' = [file EXCEPT ![d] = f]
    <2>1. CASE Accept(d)
        <3>1. PICK answer \in {"open", "refused"} : file' = [file EXCEPT ![d].peer = answer]
            BY <2>1 DEF Accept
        <3>2. [file[d] EXCEPT !.peer = answer] \in Files(Pieces)
            BY <1>t DEF Files
        <3> QED
            BY <3>1, <3>2, <1>t DEF SocketsOK
    <2>2. CASE Deliver(d)
        <3>1. file[d].coming \in Seq(Pieces) /\ file[d].inbox \in Seq(Pieces) /\ file[d].coming # <<>>
            BY <2>2, <1>t DEF Deliver, Files
        <3>2. Head(file[d].coming) \in Pieces /\ Tail(file[d].coming) \in Seq(Pieces)
            BY <3>1
        <3>3. Append(file[d].inbox, Head(file[d].coming)) \in Seq(Pieces)
            BY <3>1, <3>2
        <3>4. [file[d] EXCEPT !.inbox = Append(@, Head(file[d].coming)), !.coming = Tail(@)]
                  \in Files(Pieces)
            BY <1>t, <3>2, <3>3 DEF Files
        <3>5. file' = [file EXCEPT ![d] = [file[d] EXCEPT
                  !.inbox = Append(@, Head(file[d].coming)), !.coming = Tail(@)]]
            BY <2>2, <1>t DEF Deliver, SocketsOK
        <3> QED
            BY <3>4, <3>5
    <2>3. CASE End(d)
        <3>1. <<>> \in Seq(Pieces)
            OBVIOUS
        <3>2. [file[d] EXCEPT !.peer = "ended", !.coming = <<>>] \in Files(Pieces)
            BY <1>t, <3>1 DEF Files
        <3>3. file' = [file EXCEPT ![d] = [file[d] EXCEPT !.peer = "ended", !.coming = <<>>]]
            BY <2>3, <1>t DEF End, SocketsOK
        <3> QED
            BY <3>2, <3>3
    <2>4. CASE Cut(d, "length")
        <3>1. <<>> \in Seq(Pieces) /\ "cut" \in Pieces /\ file[d].inbox \in Seq(Pieces)
            BY <1>t DEF Pieces, Files
        <3>2. Append(file[d].inbox, "cut") \in Seq(Pieces)
            BY <3>1
        <3>3. [file[d] EXCEPT !.peer = "ended", !.coming = <<>>, !.inbox = Append(@, "cut")]
                  \in Files(Pieces)
            BY <1>t, <3>1, <3>2 DEF Files
        <3>4. file' = [file EXCEPT ![d] = [file[d] EXCEPT
                  !.peer = "ended", !.coming = <<>>, !.inbox = Append(@, "cut")]]
            BY <2>4, <1>t DEF Cut, SocketsOK
        <3> QED
            BY <3>3, <3>4
    <2> QED
        BY <2>1, <2>2, <2>3, <2>4 DEF PeerStep
<1>2. SocketsOK'
    BY <1>1, <1>t, OneFile DEF PeerStep, Accept, Deliver, End, Cut, SocketsOK
<1>3. RequestsOK' /\ BoardOK'
    BY <1>t DEF PeerStep, threadVars, boardVars, RequestsOK, BoardOK
<1> QED
    BY <1>2, <1>3, NextTypeParts

LEMMA PeerStepOwn ==
    ASSUME OwnInv, NEW d \in Descriptors, PeerStep(d)
    PROVE  OwnInv'
<1>t. TypeOK /\ file \in [Descriptors -> Files(Pieces)]
    BY DEF OwnInv, TypeInv, TypeOK
<1>1. \A e \in Descriptors : file'[e].owner = file[e].owner
          /\ (file'[e].peer = "directory" => file[e].peer = "directory")
    <2>1. CASE Accept(d)
        BY <2>1, <1>t DEF Accept, Files
    <2>2. CASE Deliver(d)
        BY <2>2, <1>t DEF Deliver, Files
    <2>3. CASE End(d)
        BY <2>3, <1>t DEF End, Files
    <2>4. CASE Cut(d, "length")
        BY <2>4, <1>t DEF Cut, Files
    <2> QED
        BY <2>1, <2>2, <2>3, <2>4 DEF PeerStep
<1>2. fd' = fd /\ place' = place
    BY DEF PeerStep, Accept, Deliver, End, Cut, threadVars
<1> QED
    BY <1>t, <1>1, <1>2, PeerStepTyped DEF OwnInv, TypeInv, HoldsOne, HoldsNone, OwnSocket, TypeOK

LEMMA FinishTyped ==
    ASSUME RequestsOK, NEW t \in Threads, Finish(t)
    PROVE  RequestsOK'
<1>1. NewResponse \in Responses
    <2>1. <<>> \in Seq(Pieces)
        OBVIOUS
    <2> QED
        BY <2>1 DEF NewResponse, Responses, Errors
<1> QED
    BY <1>1, GotoTyped DEF Finish, RequestsOK, Places

LEMMA RequestTyped ==
    ASSUME RequestsOK, NEW t \in Threads, NEW purpose \in {"config", "alert"} \cup Reports,
           Request(t, purpose)
    PROVE  RequestsOK'
<1>1. NewResponse \in Responses
    <2>1. <<>> \in Seq(Pieces)
        OBVIOUS
    <2> QED
        BY <2>1 DEF NewResponse, Responses, Errors
<1> QED
    BY <1>1, GotoTyped DEF Request, RequestsOK, Places

\* The rest of the two threads: every action that is not of a request.
ThreadStep ==
    \/ MainRequest \/ ApplyConfig \/ AlertSent
    \/ OpenDirectory \/ NextReport \/ ReportSent \/ CloseDirectory

LEMMA ThreadStepTyped ==
    ASSUME TypeOK, ThreadStep
    PROVE  TypeOK'
<1>t. SocketsOK /\ RequestsOK /\ BoardOK
    BY TypeParts
<1>a. Main \in Threads /\ Reporter \in Threads
    OBVIOUS
<1>1. CASE MainRequest
    <2>1. RequestsOK'
        BY <1>1, <1>t, <1>a, RequestTyped DEF MainRequest
    <2>2. SocketsOK' /\ BoardOK'
        BY <1>1, <1>t, BoardKept DEF MainRequest, tcpVars, SocketsOK
    <2> QED
        BY <2>1, <2>2, NextTypeParts
<1>2. CASE ApplyConfig
    <2>1. RequestsOK'
        BY <1>2, <1>t, <1>a, FinishTyped DEF ApplyConfig
    <2>2. ConfigText \in Seq(Pieces)
        <3>1. resp[Main] \in Responses
            BY <1>t, <1>a DEF RequestsOK
        <3>2. resp[Main].body \in Seq(Pieces) /\ <<>> \in Seq(Pieces)
            BY <3>1 DEF Responses
        <3> QED
            BY <3>2 DEF ConfigText
    <2>3. SocketsOK' /\ BoardOK'
        BY <1>2, <1>t, <2>2 DEF ApplyConfig, tcpVars, SocketsOK, BoardOK
    <2> QED
        BY <2>1, <2>3, NextTypeParts
<1>3. CASE AlertSent
    <2>1. RequestsOK'
        BY <1>3, <1>t, <1>a, FinishTyped DEF AlertSent
    <2>2. SocketsOK' /\ BoardOK'
        BY <1>3, <1>t, BoardKept DEF AlertSent, tcpVars, SocketsOK
    <2> QED
        BY <2>1, <2>2, NextTypeParts
<1>4. CASE OpenDirectory
    <2>1. SocketsOK'
        <3>1. CASE UNCHANGED file
            BY <3>1, <1>4, <1>t DEF OpenDirectory, SocketsOK
        <3>2. CASE \E d \in Free : Take(Reporter, d, "directory")
            BY <3>2, <1>4, <1>t, <1>a, TakeTyped DEF OpenDirectory, SocketsOK, Free
        <3> QED
            BY <1>4, <3>1, <3>2 DEF OpenDirectory
    <2>2. RequestsOK'
        BY <1>4, <1>t, <1>a, GotoTyped DEF OpenDirectory, RequestsOK, Places
    <2>3. BoardOK'
        BY <1>4, <1>t, BoardKept DEF OpenDirectory
    <2> QED
        BY <2>1, <2>2, <2>3, NextTypeParts
<1>5. CASE NextReport
    <2>1. PICK r \in todo : /\ todo' = todo \ {r}
                            /\ UNCHANGED threadVars \/ Request(Reporter, r)
                            /\ UNCHANGED file \/ \E d \in Free : Take(Reporter, d, "none")
        BY <1>5 DEF NextReport
    <2>2. r \in Reports
        BY <1>t DEF BoardOK
    <2>3. RequestsOK'
        BY <2>1, <2>2, <1>t, <1>a, RequestTyped DEF RequestsOK, threadVars
    <2>4. SocketsOK'
        <3>1. CASE UNCHANGED file
            BY <3>1, <1>5, <1>t DEF NextReport, SocketsOK
        <3>2. CASE \E d \in Free : Take(Reporter, d, "none")
            BY <3>2, <1>5, <1>t, <1>a, TakeTyped DEF NextReport, SocketsOK, Free
        <3> QED
            BY <2>1, <3>1, <3>2
    <2>5. BoardOK'
        BY <1>5, <1>t, <2>1 DEF NextReport, BoardOK
    <2> QED
        BY <2>3, <2>4, <2>5, NextTypeParts
<1>6. CASE ReportSent
    <2>1. RequestsOK'
        BY <1>6, <1>t, <1>a, FinishTyped DEF ReportSent
    <2>2. SocketsOK' /\ BoardOK'
        BY <1>6, <1>t DEF ReportSent, tcpVars, SocketsOK, BoardOK
    <2> QED
        BY <2>1, <2>2, NextTypeParts
<1>7. CASE CloseDirectory
    <2>1. SocketsOK'
        BY <1>7, <1>t, OneFile, ClosedTyped DEF CloseDirectory, SocketsOK
    <2>2. RequestsOK'
        BY <1>7, <1>t, <1>a, GotoTyped DEF CloseDirectory, RequestsOK, Places
    <2>3. BoardOK'
        BY <1>7, <1>t, BoardKept DEF CloseDirectory
    <2> QED
        BY <2>1, <2>2, <2>3, NextTypeParts
<1> QED
    BY <1>1, <1>2, <1>3, <1>4, <1>5, <1>6, <1>7 DEF ThreadStep

LEMMA ThreadStepOwn ==
    ASSUME OwnInv, ThreadStep
    PROVE  OwnInv'
<1>t. TypeOK /\ TypeOK' /\ file \in [Descriptors -> Files(Pieces)]
      /\ place \in [Threads -> Places] /\ fd \in [Threads -> {0} \cup Descriptors]
    BY ThreadStepTyped DEF OwnInv, TypeInv, TypeOK
<1>a. Main \in Threads /\ Reporter \in Threads
    OBVIOUS
<1>1. ASSUME NEW t \in Threads, place[t] \in {"idle", "done", "new"}, fd' = fd, file' = file,
             NEW next \in {"idle", "connect", "gone"}, place' = [place EXCEPT ![t] = next]
      PROVE  OwnInv'
    <2>1. fd[t] = 0
        BY <1>1, <1>t DEF OwnInv, HoldsNone
    <2>2. Spares(t) /\ HasOwn(t) /\ \A s \in Threads \ {t} : fd'[s] = fd[s] /\ place'[s] = place[s]
        BY <1>1, <1>t, <2>1 DEF Spares, HasOwn
    <2> QED
        BY <2>2, <1>t, OwnOfSteps
<1>2. CASE MainRequest
    BY <1>2, <1>1, <1>a DEF MainRequest, Request, Goto, At, tcpVars
<1>3. CASE ApplyConfig \/ AlertSent
    BY <1>3, <1>1, <1>a DEF ApplyConfig, AlertSent, Finish, Goto, At, tcpVars
<1>4. CASE ReportSent
    BY <1>4, <1>1, <1>a DEF ReportSent, Finish, Goto, At, tcpVars
<1>5. CASE NextReport
    <2>1. place[Reporter] = "idle" /\ fd[Reporter] = 0 /\ fd' = fd
        BY <1>5, <1>a DEF NextReport, At, OwnInv, HoldsNone
    <2>2. place' = place \/ place' = [place EXCEPT ![Reporter] = "connect"]
        BY <1>5 DEF NextReport, Request, Goto, threadVars
    <2>3. place'[Reporter] \in {"idle", "connect"}
          /\ \A s \in Threads \ {Reporter} : fd'[s] = fd[s] /\ place'[s] = place[s]
        BY <2>1, <2>2, <1>a, <1>t
    <2>4. Spares(Reporter)
        <3>1. CASE UNCHANGED file
            BY <3>1 DEF Spares
        <3>2. CASE \E d \in Free : Take(Reporter, d, "none")
            BY <3>2, <1>a, TakeSpares
        <3> QED
            BY <1>5, <3>1, <3>2 DEF NextReport
    <2>5. HasOwn(Reporter)
        BY <2>1, <2>3 DEF HasOwn
    <2> QED
        BY <2>3, <2>4, <2>5, <1>a, <1>t, OwnOfSteps
<1>6. CASE OpenDirectory
    <2>1. CASE UNCHANGED file
        BY <2>1, <1>6, <1>1, <1>a, <1>t DEF OpenDirectory, Goto, At
    <2>2. ASSUME NEW d \in Free, Take(Reporter, d, "directory"), Goto(Reporter, "idle")
          PROVE  OwnInv'
        <3>1. Spares(Reporter)
            BY <2>2, <1>a, TakeSpares
        <3>2. fd[Reporter] = 0 /\ fd' = fd
            BY <1>6, <1>a DEF OpenDirectory, At, OwnInv, HoldsNone
        <3>3. HasOwn(Reporter)
            BY <3>2, <2>2, <1>a, <1>t DEF Goto, HasOwn
        <3> QED
            BY <3>1, <3>2, <3>3, <2>2, <1>a, <1>t, OwnOfSteps DEF Goto
    <2> QED
        BY <1>6, <2>1, <2>2 DEF OpenDirectory
<1>7. CASE CloseDirectory
    <2>1. Spares(Reporter)
        BY <1>7, <1>a, CloseSpares DEF CloseDirectory
    <2>2. fd[Reporter] = 0 /\ fd' = fd
        BY <1>7, <1>a DEF CloseDirectory, At, OwnInv, HoldsNone
    <2>3. HasOwn(Reporter)
        BY <2>2, <1>7, <1>a, <1>t DEF CloseDirectory, Goto, HasOwn
    <2> QED
        BY <2>1, <2>2, <2>3, <1>7, <1>a, <1>t, OwnOfSteps DEF CloseDirectory, Goto
<1> QED
    BY <1>2, <1>3, <1>4, <1>5, <1>6, <1>7 DEF ThreadStep

LEMMA OwnInductive == OwnInv /\ [Next]_vars => OwnInv'
<1> SUFFICES ASSUME OwnInv, [Next]_vars PROVE OwnInv'
    OBVIOUS
<1>1. CASE \E t \in Threads : RequestStep(t)
    BY <1>1, RequestStepOwn
<1>2. CASE ThreadStep
    BY <1>2, ThreadStepOwn
<1>3. CASE \E d \in Descriptors : PeerStep(d)
    BY <1>3, PeerStepOwn
<1>4. CASE UNCHANGED vars
    BY <1>4 DEF vars, tcpVars, threadVars, boardVars, OwnInv, TypeInv, TypeOK, HoldsOne, HoldsNone,
        OwnSocket
<1> QED
    BY <1>1, <1>2, <1>3, <1>4 DEF Next, MainStep, ReporterStep, ThreadStep

LEMMA OwnAtFirst == Init => OwnInv
<1> SUFFICES ASSUME Init PROVE OwnInv
    OBVIOUS
<1>1. TypeOK
    <2>1. <<>> \in Seq(Pieces) /\ NewResponse \in Responses
        BY DEF NewResponse, Responses, Errors
    <2> QED
        BY <2>1, ClosedTyped DEF Init, TypeOK, Places
<1>2. HoldsOne /\ HoldsNone /\ OwnSocket
    BY DEF Init, HoldsOne, HoldsNone, OwnSocket
<1> QED
    BY <1>1, <1>2 DEF OwnInv, TypeInv

\* httpRequest() and httpPostFile() keep the types of what they work on, for every number of
\* descriptors, of reports and of configurations.
THEOREM TypeCorrect == Spec => []TypeOK
<1>1. OwnInv => TypeOK
    BY DEF OwnInv, TypeInv
<1> QED
    BY <1>1, OwnAtFirst, OwnInductive, PTL DEF Spec

\* Tcp.cpp: no thread ever reads, writes or closes a descriptor that is not its own, whatever
\* the other one opens, closes and times out.
THEOREM SocketsAreOwn == Spec => []OwnSocket
<1>1. OwnInv => OwnSocket
    BY DEF OwnInv
<1> QED
    BY <1>1, OwnAtFirst, OwnInductive, PTL DEF Spec

-----------------------------------------------------------------------------
(***************************************************************************)
(* A crash report is removed only when the server has it: a 200 on its way,  *)
(* or read, is the answer to the report the thread is about.                *)
(***************************************************************************)
Has200(s) == \E i \in 1 .. Len(s) : s[i] = "200"
Told(f) == Has200(f.inbox) \/ Has200(f.coming)

Answered == {"wait", "status", "headers", "body", "stop"}

AnswerIsOwn == \A d \in Descriptors :
    file[d].owner = Reporter /\ Told(file[d]) =>
        d = fd[Reporter] /\ job[Reporter] \in received /\ place[Reporter] \in Answered

ReportAtHand ==
    /\ place[Reporter] \in {"connect", "select", "shut", "send"} => job[Reporter] \in Reports
    /\ resp[Reporter].code = "200" => job[Reporter] \in received

KeptInv == OwnInv /\ ReportKept /\ AnswerIsOwn /\ ReportAtHand

\* Nothing new is told to the reporter.
Fades == \A d \in Descriptors :
    file'[d].owner = Reporter /\ Told(file'[d]) => file[d].owner = Reporter /\ Told(file[d])

LEMMA SequencesFade ==
    ASSUME NEW s \in Seq(Pieces), NEW e \in Pieces
    PROVE  /\ ~Has200(<<>>)
           /\ s # <<>> => (Has200(Tail(s)) => Has200(s))
           /\ Has200(Append(s, e)) => Has200(s) \/ e = "200"
           /\ s # <<>> /\ Head(s) = "200" => Has200(s)
<1>1. ~Has200(<<>>)
    BY DEF Has200
<1>2. s # <<>> => (Has200(Tail(s)) => Has200(s))
    <2> SUFFICES ASSUME s # <<>>, NEW i \in 1 .. Len(Tail(s)), Tail(s)[i] = "200" PROVE Has200(s)
        BY DEF Has200
    <2>1. s[i + 1] = "200" /\ i + 1 \in 1 .. Len(s)
        OBVIOUS
    <2> QED
        BY <2>1 DEF Has200
<1>3. Has200(Append(s, e)) => Has200(s) \/ e = "200"
    <2> SUFFICES ASSUME NEW i \in 1 .. Len(Append(s, e)), Append(s, e)[i] = "200"
                 PROVE  Has200(s) \/ e = "200"
        BY DEF Has200
    <2>1. i = Len(s) + 1 \/ (i \in 1 .. Len(s) /\ s[i] = "200")
        OBVIOUS
    <2>2. i = Len(s) + 1 => e = "200"
        OBVIOUS
    <2> QED
        BY <2>1, <2>2 DEF Has200
<1>4. s # <<>> /\ Head(s) = "200" => Has200(s)
    BY DEF Has200
<1> QED
    BY <1>1, <1>2, <1>3, <1>4

LEMMA ClosedFades == ~Told(Closed)
    BY DEF Told, Has200, Closed

LEMMA ReadFades ==
    ASSUME TypeOK, NEW t \in Threads, fd[t] \in Descriptors,
           ReadAll(t) \/ (Available(t) /\ ReadLine(t))
    PROVE  Fades
<1> DEFINE f == file[fd[t]]
<1>1. f \in Files(Pieces) /\ file \in [Descriptors -> Files(Pieces)]
    BY DEF TypeOK
<1>2. f.inbox \in Seq(Pieces)
    BY <1>1 DEF Files
<1>3. ASSUME NEW rest, file' = [file EXCEPT ![fd[t]].inbox = rest], Has200(rest) => Has200(f.inbox)
      PROVE  Fades
    <2>1. file'[fd[t]].owner = f.owner /\ file'[fd[t]].inbox = rest /\ file'[fd[t]].coming = f.coming
        BY <1>1, <1>3 DEF Files
    <2>2. \A d \in Descriptors : d # fd[t] => file'[d] = file[d]
        BY <1>1, <1>3
    <2> QED
        BY <2>1, <2>2, <1>3 DEF Fades, Told
<1>4. CASE ReadAll(t)
    <2>1. ~Has200(<<>>) /\ file' = [file EXCEPT ![fd[t]].inbox = <<>>]
        BY <1>4 DEF ReadAll, Has200
    <2> HIDE DEF f
    <2> QED
        BY <2>1, <1>3
<1>5. CASE Available(t) /\ ReadLine(t)
    <2>1. f.inbox # <<>> /\ file' = [file EXCEPT ![fd[t]].inbox = Tail(f.inbox)]
        BY <1>5, <1>1 DEF Available, ReadLine
    <2>2. Has200(Tail(f.inbox)) => Has200(f.inbox)
        BY <2>1, <1>2, SequencesFade DEF Pieces
    <2> QED
        BY <2>1, <2>2, <1>3
<1> QED
    BY <1>4, <1>5

LEMMA TakeFades ==
    ASSUME TypeOK, NEW t \in Threads, NEW d \in Free, NEW peer, Take(t, d, peer)
    PROVE  Fades
<1>1. file'[d] = [Closed EXCEPT !.owner = t, !.peer = peer] /\ \A e \in Descriptors \ {d} : file'[e] = file[e]
    BY DEF Take, TypeOK, Free
<1>2. ~Told(file'[d])
    BY <1>1 DEF Told, Has200, Closed
<1> QED
    BY <1>1, <1>2 DEF Fades

LEMMA CloseFades ==
    ASSUME TypeOK, NEW d \in Descriptors, file' = [file EXCEPT ![d] = Closed]
    PROVE  Fades /\ ~Told(file'[d])
<1>1. file'[d] = Closed /\ \A e \in Descriptors \ {d} : file'[e] = file[e]
    BY DEF TypeOK
<1> QED
    BY <1>1, ClosedFades DEF Fades

\* Only the reporter's own request brings an answer to it.
LEMMA RequestStepFades ==
    ASSUME OwnInv, NEW t \in Threads, RequestStep(t), SendStep(t) => t # Reporter
    PROVE  Fades
<1>t. TypeOK /\ file \in [Descriptors -> Files(Pieces)]
    BY DEF OwnInv, TypeInv, TypeOK
<1>h. place[t] \in {"select", "shut", "send", "wait", "status", "headers", "body"}
          => fd[t] \in Descriptors
    BY DEF OwnInv, TypeInv, HoldsOne
<1>0. CASE file' = file
    BY <1>0 DEF Fades
<1>1. CASE ConnectStep(t)
    <2>1. CASE \E d \in Free, peer \in {"none", "pending"} : Take(t, d, peer)
        BY <2>1, <1>t, TakeFades
    <2> QED
        BY <2>1, <1>1, <1>0 DEF ConnectStep, SocketFails, ConnectFails, Connect, tcpVars
<1>2. CASE SelectStep(t)
    <2>1. fd[t] \in Descriptors
        BY <1>2, <1>h DEF SelectStep, At
    <2>2. CASE SelectTimesOut(t)
        BY <2>1, <2>2, <1>t, CloseFades DEF SelectTimesOut
    <2> QED
        BY <1>0, <1>2, <2>2 DEF SelectStep, SelectFails, tcpVars
<1>3. CASE ShutStep(t)
    <2>1. fd[t] \in Descriptors
        BY <1>3, <1>h DEF ShutStep, At
    <2>2. /\ file'[fd[t]].owner = file[fd[t]].owner
          /\ file'[fd[t]].inbox = file[fd[t]].inbox
          /\ file'[fd[t]].coming = <<>>
          /\ \A e \in Descriptors : e # fd[t] => file'[e] = file[e]
        BY <2>1, <1>3, <1>t DEF ShutStep, ShutdownClosed, Files
    <2>3. ~Has200(<<>>)
        BY DEF Has200
    <2> QED
        BY <2>2, <2>3 DEF Fades, Told
<1>4. CASE SendStep(t)
    <2>1. fd[t] \in Descriptors /\ fd[t] # 0 /\ file[fd[t]].owner # Reporter
        <3>1. place[t] = "send" /\ fd[t] \in Descriptors
            BY <1>4, <1>h DEF SendStep, At
        <3>2. fd[t] # 0
            BY <3>1 DEF Descriptors
        <3>3. file[fd[t]].owner = t
            BY <3>1, <3>2 DEF OwnInv, OwnSocket
        <3> QED
            BY <3>1, <3>2, <3>3, <1>4
    <2>2. ASSUME NEW reply, file' = [file EXCEPT ![fd[t]].coming = reply]
          PROVE  Fades
        <3>1. file'[fd[t]].owner = file[fd[t]].owner /\ \A e \in Descriptors : e # fd[t] => file'[e] = file[e]
            BY <2>1, <2>2, <1>t DEF Files
        <3> QED
            BY <3>1, <2>1 DEF Fades
    <2> QED
        BY <1>0, <1>4, <2>2 DEF SendStep
<1>5. CASE WaitStep(t) \/ HeaderCrash(t)
    BY <1>5, <1>0 DEF WaitStep, HeaderCrash, tcpVars
<1>6. CASE StatusStep(t) \/ HeaderStep(t) \/ BodyStep(t)
    <2>1. fd[t] \in Descriptors
        BY <1>6, <1>h DEF StatusStep, HeaderStep, BodyStep, At
    <2> QED
        BY <2>1, <1>0, <1>6, <1>t, ReadFades DEF StatusStep, HeaderStep, BodyStep, tcpVars
<1>7. CASE StopStep(t)
    <2>1. fd[t] # 0 => fd[t] \in Descriptors
        BY DEF OwnInv, TypeInv, TypeOK
    <2> QED
        BY <2>1, <1>0, <1>7, <1>t, CloseFades DEF StopStep, CloseOwn, tcpVars
<1> QED
    BY <1>1, <1>2, <1>3, <1>4, <1>5, <1>6, <1>7 DEF RequestStep

LEMMA PeerStepFades ==
    ASSUME TypeOK, NEW d \in Descriptors, PeerStep(d)
    PROVE  Fades
<1>t. file \in [Descriptors -> Files(Pieces)] /\ file[d] \in Files(Pieces)
    BY DEF TypeOK
<1>s. file[d].inbox \in Seq(Pieces) /\ file[d].coming \in Seq(Pieces)
    BY <1>t DEF Files
<1>e. \A e \in Descriptors : e # d => file'[e] = file[e]
    BY <1>t DEF PeerStep, Accept, Deliver, End, Cut
<1>n. ~Has200(<<>>)
    BY DEF Has200
<1> SUFFICES file'[d].owner = file[d].owner /\ (Told(file'[d]) => Told(file[d]))
    BY <1>e DEF Fades
<1>1. CASE Accept(d)
    BY <1>1, <1>t DEF Accept, Told, Files
<1>2. CASE Deliver(d)
    <2> DEFINE e == Head(file[d].coming)
    <2>1. file'[d].inbox = Append(file[d].inbox, e)
          /\ file'[d].coming = Tail(file[d].coming)
          /\ file'[d].owner = file[d].owner /\ file[d].coming # <<>>
        BY <1>2, <1>t DEF Deliver, Files
    <2>2. e \in Pieces
        BY <2>1, <1>s
    <2>3. Has200(Append(file[d].inbox, e)) => Has200(file[d].inbox) \/ e = "200"
        BY <2>2, <1>s, SequencesFade
    <2>4. e = "200" => Has200(file[d].coming)
        BY <2>1, <2>2, <1>s, SequencesFade
    <2>5. Has200(Tail(file[d].coming)) => Has200(file[d].coming)
        BY <2>1, <2>2, <1>s, SequencesFade
    <2> QED
        BY <2>1, <2>3, <2>4, <2>5 DEF Told
<1>3. CASE End(d)
    BY <1>3, <1>t, <1>n DEF End, Told, Files
<1>4. CASE Cut(d, "length")
    <2>1. Has200(Append(file[d].inbox, "cut")) => Has200(file[d].inbox)
        BY <1>s, SequencesFade DEF Pieces
    <2>2. file'[d].inbox = Append(file[d].inbox, "cut") /\ file'[d].coming = <<>>
          /\ file'[d].owner = file[d].owner
        BY <1>4, <1>t DEF Cut, Files
    <2> QED
        BY <2>1, <2>2, <1>n DEF Told
<1> QED
    BY <1>1, <1>2, <1>3, <1>4 DEF PeerStep

\* Steps that leave the reporter alone.
LEMMA KeptByOthers ==
    ASSUME KeptInv, OwnInv', Fades, reports' = reports, received \subseteq received',
           fd'[Reporter] = fd[Reporter], place'[Reporter] = place[Reporter],
           job'[Reporter] = job[Reporter], resp'[Reporter] = resp[Reporter]
    PROVE  KeptInv'
    BY DEF KeptInv, ReportKept, AnswerIsOwn, ReportAtHand, Fades

LEMMA ReporterRequestKept ==
    ASSUME KeptInv, OwnInv', RequestStep(Reporter)
    PROVE  KeptInv'
<1>t. TypeOK /\ file \in [Descriptors -> Files(Pieces)] /\ place \in [Threads -> Places]
      /\ resp \in [Threads -> Responses] /\ OwnInv /\ Reporter \in Threads
      /\ fd \in [Threads -> {0} \cup Descriptors]
    BY DEF KeptInv, OwnInv, TypeInv, TypeOK
<1>h. place[Reporter] \in {"select", "shut", "send", "wait", "status", "headers", "body"}
          => fd[Reporter] \in Descriptors
    BY <1>t DEF OwnInv, TypeInv, HoldsOne
<1>k. place[Reporter] \notin Answered =>
          \A d \in Descriptors : file[d].owner = Reporter => ~Told(file[d])
    BY DEF KeptInv, AnswerIsOwn
<1>r. reports' = reports /\ job' = job /\ received \subseteq received'
    BY DEF RequestStep, ConnectStep, SelectStep, ShutStep, SendStep, WaitStep, StatusStep, HeaderStep,
        HeaderCrash, BodyStep, StopStep, boardVars, threadVars
<1>p. ReportKept'
    BY <1>r DEF KeptInv, ReportKept
<1>1. CASE ConnectStep(Reporter) \/ SelectStep(Reporter) \/ ShutStep(Reporter)
    <2>1. Fades
        BY <1>1, <1>t, RequestStepFades DEF ConnectStep, SelectStep, ShutStep, SendStep, At
    <2>2. place[Reporter] \in {"connect", "select", "shut"}
        BY <1>1 DEF ConnectStep, SelectStep, ShutStep, At
    <2>3. AnswerIsOwn'
        BY <2>1, <2>2, <1>k DEF Fades, AnswerIsOwn, Answered
    <2>4. resp'[Reporter].code = resp[Reporter].code
        BY <1>1, <1>t DEF ConnectStep, SelectStep, ShutStep, Fail, Responses
    <2>5. ReportAtHand'
        BY <2>2, <2>4, <1>r DEF KeptInv, ReportAtHand
    <2> QED
        BY <2>3, <2>5, <1>p DEF KeptInv
<1>2. CASE SendStep(Reporter)
    <2>1. place[Reporter] = "send" /\ fd[Reporter] \in Descriptors /\ job[Reporter] \in Reports
          /\ place'[Reporter] = "wait" /\ resp' = resp /\ fd' = fd
        BY <1>2, <1>h, <1>t DEF SendStep, At, Goto, KeptInv, ReportAtHand
    <2>2. \A d \in Descriptors : file[d].owner = Reporter => ~Told(file[d])
        BY <1>k, <2>1 DEF Answered
    <2>3. ASSUME NEW whole \in BOOLEAN, NEW reply \in Replies(Reporter, whole),
                 file' = [file EXCEPT ![fd[Reporter]].coming = reply],
                 received' = IF whole /\ job[Reporter] \in Reports
                                THEN received \cup {job[Reporter]} ELSE received
          PROVE  AnswerIsOwn'
        <3>1. Has200(reply) => whole
            <4>1. job[Reporter] # "config" /\ job[Reporter] # "alert"
                BY <2>1
            <4>2. whole \/ reply \in {<<"500", "blank">>, <<"junk">>}
                BY <4>1, <2>3 DEF Replies
            <4>3. ~Has200(<<"500", "blank">>) /\ ~Has200(<<"junk">>)
                BY DEF Has200
            <4> QED
                BY <4>2, <4>3
        <3>2. ~Told(file[fd[Reporter]]) \/ file[fd[Reporter]].owner # Reporter
            BY <2>1, <2>2
        <3>3. file'[fd[Reporter]].owner = file[fd[Reporter]].owner
              /\ file'[fd[Reporter]].inbox = file[fd[Reporter]].inbox
              /\ file'[fd[Reporter]].coming = reply
              /\ \A e \in Descriptors : e # fd[Reporter] => file'[e] = file[e]
            BY <2>3, <2>1, <1>t DEF Files
        <3>4. \A d \in Descriptors : file'[d].owner = Reporter /\ Told(file'[d])
                  => d = fd[Reporter] /\ job[Reporter] \in received'
            BY <2>1, <2>2, <2>3, <3>1, <3>2, <3>3 DEF Told
        <3> QED
            BY <3>4, <2>1, <1>r DEF AnswerIsOwn, Answered
    <2>4. ASSUME file' = file
          PROVE  AnswerIsOwn'
        BY <2>2, <2>4 DEF AnswerIsOwn
    <2>5. AnswerIsOwn'
        BY <1>2, <2>3, <2>4 DEF SendStep
    <2>6. ReportAtHand'
        BY <2>1, <1>r DEF KeptInv, ReportAtHand
    <2> QED
        BY <2>5, <2>6, <1>p DEF KeptInv
<1>3. CASE WaitStep(Reporter) \/ StatusStep(Reporter) \/ HeaderStep(Reporter) \/ BodyStep(Reporter)
    <2>1. Fades
        BY <1>3, <1>t, RequestStepFades DEF WaitStep, StatusStep, HeaderStep, BodyStep, SendStep, At
    <2>2. place[Reporter] \in {"wait", "status", "headers", "body"} /\ fd' = fd
        BY <1>3 DEF WaitStep, StatusStep, HeaderStep, BodyStep, At, ReadLine, ReadAll, tcpVars
    <2>3. place'[Reporter] \in {"status", "headers", "body", "stop"}
        BY <1>3, <1>t, <2>2 DEF WaitStep, StatusStep, HeaderStep, BodyStep, At, Fail, Goto, AfterHeaders
    <2>4. AnswerIsOwn'
        BY <2>1, <2>2, <2>3, <1>r DEF KeptInv, Fades, AnswerIsOwn, Answered
    <2>5. resp'[Reporter].code = "200" => resp[Reporter].code = "200" \/ job[Reporter] \in received
        <3>1. CASE StatusStep(Reporter)
            <4>1. fd[Reporter] \in Descriptors /\ fd[Reporter] # 0
                BY <2>2, <1>h DEF Descriptors
            <4>2. file[fd[Reporter]].owner = Reporter
                BY <4>1, <2>2, <1>t DEF OwnInv, OwnSocket
            <4>3. file[fd[Reporter]].inbox \in Seq(Pieces) /\ file[fd[Reporter]].inbox # <<>>
                BY <4>1, <3>1, <1>t DEF StatusStep, Available, Files
            <4>4. Head(file[fd[Reporter]].inbox) = "200" => Told(file[fd[Reporter]])
                BY <4>3, SequencesFade DEF Told, Pieces
            <4>5. Told(file[fd[Reporter]]) => job[Reporter] \in received
                BY <4>1, <4>2 DEF KeptInv, AnswerIsOwn
            <4>6. resp'[Reporter].code \in {resp[Reporter].code, Head(file[fd[Reporter]].inbox)}
                BY <3>1, <1>t DEF StatusStep, Fail, Responses
            <4> QED
                BY <4>4, <4>5, <4>6
        <3>2. CASE ~StatusStep(Reporter)
            BY <1>3, <3>2, <1>t DEF WaitStep, HeaderStep, BodyStep, Fail, Responses
        <3> QED
            BY <3>1, <3>2
    <2>6. ReportAtHand'
        BY <2>3, <2>5, <1>r DEF KeptInv, ReportAtHand
    <2> QED
        BY <2>4, <2>6, <1>p DEF KeptInv
<1>4. CASE HeaderCrash(Reporter)
    <2>1. Fades
        BY <1>4 DEF HeaderCrash, tcpVars, Fades
    <2> QED
        BY <2>1, <1>4, KeptByOthers DEF HeaderCrash, tcpVars, threadVars
<1>5. CASE StopStep(Reporter)
    <2>1. Fades
        BY <1>5, <1>t, RequestStepFades DEF StopStep, SendStep, At
    <2>2. \A d \in Descriptors : file'[d].owner = Reporter => ~Told(file'[d])
        <3>1. CASE fd[Reporter] = 0
            <4>1. \A d \in Descriptors : d # fd[Reporter]
                BY <3>1 DEF Descriptors
            <4> QED
                BY <4>1, <2>1 DEF KeptInv, AnswerIsOwn, Fades
        <3>2. CASE fd[Reporter] # 0
            <4>1. fd[Reporter] \in Descriptors /\ file' = [file EXCEPT ![fd[Reporter]] = Closed]
                BY <3>2, <1>5, <1>t DEF StopStep, CloseOwn
            <4>2. ~Told(file'[fd[Reporter]])
                BY <4>1, <1>t, CloseFades
            <4> QED
                BY <4>2, <2>1 DEF KeptInv, AnswerIsOwn, Fades
        <3> QED
            BY <3>1, <3>2
    <2>3. ReportAtHand'
        BY <1>5, <1>t DEF StopStep, Goto, boardVars, KeptInv, ReportAtHand
    <2> QED
        BY <2>2, <2>3, <1>p DEF KeptInv, AnswerIsOwn
<1> QED
    BY <1>1, <1>2, <1>3, <1>4, <1>5 DEF RequestStep

LEMMA KeptInductive == KeptInv /\ [Next]_vars => KeptInv'
<1> SUFFICES ASSUME KeptInv, [Next]_vars PROVE KeptInv'
    OBVIOUS
<1>o. OwnInv /\ OwnInv' /\ TypeOK /\ Main \in Threads /\ Reporter \in Threads
    BY OwnInductive DEF KeptInv, OwnInv, TypeInv
<1>t. /\ fd \in [Threads -> {0} \cup Descriptors] /\ place \in [Threads -> Places]
      /\ job \in [Threads -> {"none", "config", "alert"} \cup Reports]
      /\ resp \in [Threads -> Responses] /\ todo \subseteq Reports
    BY <1>o DEF TypeOK
<1>1. CASE RequestStep(Main)
    <2>1. Fades
        BY <1>1, <1>o, RequestStepFades
    <2>2. reports' = reports /\ received \subseteq received' /\ job' = job
        BY <1>1 DEF RequestStep, ConnectStep, SelectStep, ShutStep, SendStep, WaitStep, StatusStep,
            HeaderStep, HeaderCrash, BodyStep, StopStep, boardVars, threadVars
    <2>3. fd' = fd \/ \E d : fd' = [fd EXCEPT ![Main] = d]
        BY <1>1 DEF RequestStep, ConnectStep, SelectStep, ShutStep, SendStep, WaitStep, StatusStep,
            HeaderStep, HeaderCrash, BodyStep, StopStep, SocketFails, ConnectFails, Connect, SelectFails,
            SelectTimesOut, ShutdownClosed, ReadLine, ReadAll, CloseOwn, tcpVars
    <2>4. place' = place \/ \E p : place' = [place EXCEPT ![Main] = p]
        BY <1>1 DEF RequestStep, ConnectStep, SelectStep, ShutStep, SendStep, WaitStep, StatusStep,
            HeaderStep, HeaderCrash, BodyStep, StopStep, Fail, Goto, AfterHeaders, threadVars
    <2>5. resp'[Reporter] = resp[Reporter]
        BY <1>1, <1>t DEF RequestStep, ConnectStep, SelectStep, ShutStep, SendStep, WaitStep, StatusStep,
            HeaderStep, HeaderCrash, BodyStep, StopStep, Fail, threadVars
    <2> QED
        BY <2>1, <2>2, <2>3, <2>4, <2>5, <1>o, <1>t, KeptByOthers
<1>2. CASE RequestStep(Reporter)
    BY <1>2, <1>o, ReporterRequestKept
<1>3. CASE MainRequest \/ ApplyConfig \/ AlertSent
    <2>1. Fades
        BY <1>3 DEF MainRequest, ApplyConfig, AlertSent, tcpVars, Fades
    <2> QED
        BY <2>1, <1>3, <1>o, <1>t, KeptByOthers
        DEF MainRequest, ApplyConfig, AlertSent, Request, Finish, Goto, tcpVars, boardVars
<1>4. CASE \E d \in Descriptors : PeerStep(d)
    <2>1. Fades
        BY <1>4, <1>o, PeerStepFades
    <2> QED
        BY <2>1, <1>4, <1>o, KeptByOthers DEF PeerStep, Accept, Deliver, End, Cut, threadVars, boardVars
<1>n. NewResponse.code # "200"
    BY DEF NewResponse
<1>k. place[Reporter] \notin Answered =>
          \A d \in Descriptors : file[d].owner = Reporter => ~Told(file[d])
    BY DEF KeptInv, AnswerIsOwn
<1>5. CASE OpenDirectory \/ CloseDirectory
    <2>1. Fades
        <3>1. CASE file' = file
            BY <3>1 DEF Fades
        <3>2. CASE \E d \in Free : Take(Reporter, d, "directory")
            BY <3>2, <1>o, TakeFades
        <3>3. CASE \E d \in Descriptors : file' = [file EXCEPT ![d] = Closed]
            BY <3>3, <1>o, CloseFades
        <3> QED
            BY <1>5, <3>1, <3>2, <3>3 DEF OpenDirectory, CloseDirectory
    <2>2. place[Reporter] \notin Answered /\ place'[Reporter] \in {"idle", "gone"}
        BY <1>5, <1>o, <1>t DEF OpenDirectory, CloseDirectory, At, Goto, Answered
    <2>3. AnswerIsOwn'
        BY <2>1, <2>2, <1>k DEF Fades, AnswerIsOwn
    <2> QED
        BY <2>2, <2>3, <1>5, <1>o
        DEF OpenDirectory, CloseDirectory, KeptInv, ReportKept, ReportAtHand, boardVars
<1>6. CASE NextReport
    <2>1. place[Reporter] = "idle" /\ UNCHANGED <<fd, reports, received>>
        BY <1>6 DEF NextReport, At
    <2>4. Fades
        <3>1. CASE file' = file
            BY <3>1 DEF Fades
        <3>2. CASE \E d \in Free : Take(Reporter, d, "none")
            BY <3>2, <1>o, TakeFades
        <3> QED
            BY <1>6, <3>1, <3>2 DEF NextReport
    <2>5. place[Reporter] \notin Answered /\ place'[Reporter] \in {"idle", "connect"}
        BY <2>1, <1>6, <1>o, <1>t DEF NextReport, Request, Goto, Answered, threadVars
    <2>2. AnswerIsOwn'
        BY <2>4, <2>5, <1>k DEF Fades, AnswerIsOwn, Answered
    <2>3. ReportAtHand'
        <3>1. CASE UNCHANGED threadVars
            BY <3>1, <2>1 DEF threadVars, KeptInv, ReportAtHand
        <3>2. ASSUME NEW r \in todo, Request(Reporter, r)
              PROVE  ReportAtHand'
            BY <3>2, <1>o, <1>t, <1>n DEF Request, ReportAtHand
        <3> QED
            BY <1>6, <3>1, <3>2 DEF NextReport
    <2> QED
        BY <2>1, <2>2, <2>3, <1>o DEF KeptInv, ReportKept
<1>7. CASE ReportSent
    <2>1. place[Reporter] = "done" /\ place'[Reporter] = "idle" /\ UNCHANGED <<tcpVars, received>>
          /\ resp'[Reporter] = NewResponse
        BY <1>7, <1>o, <1>t DEF ReportSent, At, Finish, Goto
    <2>2. AnswerIsOwn'
        BY <2>1, <1>k DEF AnswerIsOwn, Answered, tcpVars
    <2>3. ReportAtHand'
        BY <2>1, <1>n DEF ReportAtHand
    <2>4. ReportKept'
        BY <1>7, <2>1 DEF ReportSent, KeptInv, ReportKept, ReportAtHand
    <2> QED
        BY <2>2, <2>3, <2>4, <1>o DEF KeptInv
<1>8. CASE UNCHANGED vars
    <2>1. Fades
        BY <1>8 DEF vars, tcpVars, Fades
    <2> QED
        BY <2>1, <1>8, <1>o, KeptByOthers DEF vars, tcpVars, threadVars, boardVars
<1> QED
    BY <1>1, <1>2, <1>3, <1>4, <1>5, <1>6, <1>7, <1>8 DEF Next, MainStep, ReporterStep

\* sendCrashReportDoWork(): a crash report leaves the board only when the server has all
\* of it, however many there are, wherever a request is cut, and whatever else the
\* process does with its descriptors.
THEOREM ReportsAreKept == Spec => []ReportKept
<1>1. Init => KeptInv
    <2> SUFFICES ASSUME Init PROVE KeptInv
        OBVIOUS
    <2>1. OwnInv
        BY OwnAtFirst
    <2>2. ReportKept /\ AnswerIsOwn /\ ReportAtHand
        BY ClosedFades DEF Init, ReportKept, AnswerIsOwn, ReportAtHand, NewResponse
    <2> QED
        BY <2>1, <2>2 DEF KeptInv
<1>2. KeptInv => ReportKept
    BY DEF KeptInv
<1> QED
    BY <1>1, <1>2, KeptInductive, PTL DEF Spec
-----------------------------------------------------------------------------
(***************************************************************************)
(* A configuration that is applied begins one that the server sent: what has *)
(* arrived for the main thread and what is still to come are together the    *)
(* rest of one answer, from the place on that the thread has come to.       *)
(***************************************************************************)

\* The answer with configuration c, piece by piece.
Piece(c, i) ==
    IF i = 1 THEN "200" ELSE IF i = 2 THEN "length" ELSE IF i = 3 THEN "blank" ELSE c[i - 3]

\* What is on its way in f is of that answer, k pieces of which were read.
Rest(f, k, c) ==
    /\ Len(f.inbox) + Len(f.coming) + k <= Len(c) + 3
    /\ \A i \in 1 .. Len(f.inbox) : f.inbox[i] = Piece(c, i + k)
    /\ \A i \in 1 .. Len(f.coming) : f.coming[i] = Piece(c, Len(f.inbox) + i + k)

IsRest(f, k) == \E c \in Configs : Rest(f, k, c)

\* What is on its way in f announces no body.
Bodiless(f) ==
    /\ \A i \in 1 .. Len(f.inbox) : f.inbox[i] # "length"
    /\ \A i \in 1 .. Len(f.coming) : f.coming[i] # "length"

Empty(f) == f.inbox = <<>> /\ f.coming = <<>>

\* Nothing is on its way to the main thread but in the socket of its request, and nothing
\* is to come but from a server that holds the connection.
NothingElse == \A d \in Descriptors :
    file[d].owner = Main =>
        /\ Empty(file[d]) \/ (d = fd[Main] /\ place[Main] \in Answered)
        /\ file[d].coming # <<>> => file[d].peer = "open"

\* What its socket holds where a thread about a configuration has come to.
Awaited(here, length, f) ==
    /\ here \in {"wait", "status"} => Bodiless(f) \/ IsRest(f, 0)
    /\ here = "headers" => IF length THEN IsRest(f, 2) ELSE Bodiless(f) \/ IsRest(f, 1)
    /\ here = "body" => IsRest(f, 3)

AnswerRead ==
    /\ place[Main] \in {"connect", "select", "shut", "send", "wait", "status"}
           => ~resp[Main].length /\ resp[Main].body = <<>>
    /\ place[Main] \in {"headers", "body"} => resp[Main].body = <<>>
    /\ job[Main] = "config" =>
          /\ Awaited(place[Main], resp[Main].length, file[fd[Main]])
          /\ resp[Main].body # <<>> => \E c \in Configs : Begins(resp[Main].body, c)

BeginsInv == OwnInv /\ NothingElse /\ AnswerRead /\ ConfigBegins

-----------------------------------------------------------------------------
(***************************************************************************)
(* What arrives, is read or is lost leaves the rest of an answer.            *)
(***************************************************************************)

LEMMA SequenceFacts ==
    ASSUME NEW s \in Seq(Pieces)
    PROVE  /\ Len(s) \in Nat /\ (s = <<>> <=> Len(s) = 0)
           /\ s # <<>> => /\ Head(s) = s[1] /\ Head(s) \in Pieces
                          /\ Tail(s) \in Seq(Pieces) /\ Len(Tail(s)) = Len(s) - 1
                          /\ \A i \in 1 .. Len(s) - 1 : Tail(s)[i] = s[i + 1]
           /\ \A e \in Pieces : /\ Append(s, e) \in Seq(Pieces)
                                /\ Len(Append(s, e)) = Len(s) + 1
                                /\ Append(s, e)[Len(s) + 1] = e
                                /\ \A i \in 1 .. Len(s) : Append(s, e)[i] = s[i]
OBVIOUS

LEMMA ConfigFacts ==
    ASSUME NEW c \in Configs
    PROVE  c \in Seq(Keys) /\ c \in Seq(Pieces) /\ Len(c) \in Nat
<1>1. c \in Seq(Keys) /\ Keys \subseteq Pieces
    BY DEF Pieces
<1> QED
    BY <1>1

\* An answer announces a body in one place.
LEMMA LengthIsSecond ==
    ASSUME NEW c \in Configs, NEW i \in Nat, i <= Len(c) + 3, Piece(c, i) = "length", i > 0
    PROVE  i = 2
<1>1. c \in Seq(Keys) /\ Len(c) \in Nat
    OBVIOUS
<1>2. ASSUME i > 3 PROVE FALSE
    <2>1. i - 3 \in 1 .. Len(c)
        BY <1>1, <1>2
    <2>2. c[i - 3] \in Keys
        BY <1>1, <2>1
    <2> QED
        BY <1>2, <2>2 DEF Piece, Keys
<1> QED
    BY <1>2 DEF Piece

LEMMA ArrivedLeavesRest ==
    ASSUME NEW f \in Files(Pieces), NEW g \in Files(Pieces), f.coming # <<>>,
           g.inbox = Append(f.inbox, Head(f.coming)), g.coming = Tail(f.coming)
    PROVE  /\ Bodiless(f) => Bodiless(g)
           /\ \A k \in Nat, c \in Configs : Rest(f, k, c) => Rest(g, k, c)
<1> DEFINE m == Len(f.inbox)
           n == Len(f.coming)
           e == Head(f.coming)
<1>1. f.inbox \in Seq(Pieces) /\ f.coming \in Seq(Pieces)
    BY DEF Files
<1>2. /\ m \in Nat /\ n \in Nat /\ n >= 1 /\ e = f.coming[1]
      /\ Len(g.inbox) = m + 1 /\ Len(g.coming) = n - 1
      /\ g.inbox[m + 1] = e
      /\ \A i \in 1 .. m : g.inbox[i] = f.inbox[i]
      /\ \A i \in 1 .. n - 1 : g.coming[i] = f.coming[i + 1]
    BY <1>1, SequenceFacts
<1>3. ASSUME Bodiless(f) PROVE Bodiless(g)
    <2> HIDE DEF e
    <2>1. e # "length"
        BY <1>2, <1>3 DEF Bodiless
    <2>2. \A i \in 1 .. m + 1 : g.inbox[i] # "length"
        BY <1>2, <1>3, <2>1 DEF Bodiless
    <2>3. \A i \in 1 .. n - 1 : i + 1 \in 1 .. n
        BY <1>2
    <2> QED
        BY <1>2, <1>3, <2>2, <2>3 DEF Bodiless
<1>4. ASSUME NEW k \in Nat, NEW c \in Configs, Rest(f, k, c) PROVE Rest(g, k, c)
    <2> HIDE DEF e
    <2>0. /\ m + n + k <= Len(c) + 3
          /\ \A i \in 1 .. m : f.inbox[i] = Piece(c, i + k)
          /\ \A i \in 1 .. n : f.coming[i] = Piece(c, m + i + k)
        BY <1>4, Zenon DEF Rest
    <2>c. Len(c) \in Nat
        BY ConfigFacts
    <2> HIDE DEF m, n
    <2>2. e = Piece(c, m + 1 + k)
        BY <1>2, <2>0
    <2>3. ASSUME NEW i \in 1 .. m + 1 PROVE g.inbox[i] = Piece(c, i + k)
        <3>1. i \in 1 .. m \/ i = m + 1
            BY <1>2
        <3> QED
            BY <3>1, <1>2, <2>0, <2>2
    <2>4. ASSUME NEW i \in 1 .. n - 1 PROVE g.coming[i] = Piece(c, m + 1 + i + k)
        <3>1. i + 1 \in 1 .. n /\ m + (i + 1) + k = m + 1 + i + k
            BY <1>2
        <3>2. f.coming[i + 1] = Piece(c, m + (i + 1) + k)
            BY <2>0, <3>1
        <3> QED
            BY <1>2, <3>1, <3>2
    <2>5. m + 1 + (n - 1) + k <= Len(c) + 3 /\ m + 1 \in Nat /\ n - 1 \in Nat
        BY <1>2, <2>0, <2>c
    <2> QED
        BY <1>2, <2>3, <2>4, <2>5 DEF Rest
<1> QED
    BY <1>3, <1>4

LEMMA LostLeavesRest ==
    ASSUME NEW f \in Files(Pieces), NEW g \in Files(Pieces),
           g.inbox = f.inbox, g.coming = <<>>
    PROVE  /\ Bodiless(f) => Bodiless(g)
           /\ \A k \in Nat, c \in Configs : Rest(f, k, c) => Rest(g, k, c)
<1> DEFINE m == Len(f.inbox)
           n == Len(f.coming)
<1>1. m \in Nat /\ n \in Nat /\ Len(g.coming) = 0 /\ Len(g.inbox) = m
    BY DEF Files
<1>2. Bodiless(f) => Bodiless(g)
    BY <1>1 DEF Bodiless
<1>3. ASSUME NEW k \in Nat, NEW c \in Configs, Rest(f, k, c) PROVE Rest(g, k, c)
    <2>1. /\ m + n + k <= Len(c) + 3
          /\ \A i \in 1 .. m : f.inbox[i] = Piece(c, i + k)
        BY <1>3, Zenon DEF Rest
    <2>c. Len(c) \in Nat
        BY ConfigFacts
    <2> HIDE DEF m, n
    <2>2. m + 0 + k <= Len(c) + 3
        BY <1>1, <2>1, <2>c
    <2> QED
        BY <1>1, <2>1, <2>2 DEF Rest
<1> QED
    BY <1>2, <1>3

\* A header line that is cut was the one with the length, or none.
LEMMA CutLeavesRest ==
    ASSUME NEW f \in Files(Pieces), NEW g \in Files(Pieces),
           f.coming # <<>>, Head(f.coming) = "length",
           g.inbox = Append(f.inbox, "cut"), g.coming = <<>>
    PROVE  /\ ~Bodiless(f)
           /\ \A k \in Nat, c \in Configs : Rest(f, k, c) => k \in {0, 1} /\ Bodiless(g)
<1> DEFINE m == Len(f.inbox)
           n == Len(f.coming)
<1>1. f.inbox \in Seq(Pieces) /\ f.coming \in Seq(Pieces) /\ "cut" \in Pieces
    BY DEF Files, Pieces
<1>2. /\ m \in Nat /\ n \in Nat /\ n >= 1 /\ f.coming[1] = "length"
      /\ Len(g.inbox) = m + 1 /\ Len(g.coming) = 0
      /\ g.inbox[m + 1] = "cut"
      /\ \A i \in 1 .. m : g.inbox[i] = f.inbox[i]
    BY <1>1, SequenceFacts
<1>3. ~Bodiless(f)
    BY <1>2 DEF Bodiless
<1>4. ASSUME NEW k \in Nat, NEW c \in Configs, Rest(f, k, c)
      PROVE  k \in {0, 1} /\ Bodiless(g)
    <2>0. /\ m + n + k <= Len(c) + 3
          /\ \A i \in 1 .. m : f.inbox[i] = Piece(c, i + k)
          /\ \A i \in 1 .. n : f.coming[i] = Piece(c, m + i + k)
        BY <1>4, Zenon DEF Rest
    <2>c. Len(c) \in Nat
        BY ConfigFacts
    <2> HIDE DEF m, n
    <2>1. m + 1 + k <= Len(c) + 3 /\ Piece(c, m + 1 + k) = "length"
        BY <1>2, <2>0, <2>c
    <2>2. m + 1 + k = 2
        BY <1>2, <2>1, LengthIsSecond
    <2>3. ASSUME NEW i \in 1 .. m PROVE f.inbox[i] # "length"
        <3>1. i + k \in Nat /\ i + k > 0 /\ i + k < 2
            BY <1>2, <2>2
        <3>2. i + k <= Len(c) + 3 /\ f.inbox[i] = Piece(c, i + k)
            BY <2>0, <2>c, <3>1
        <3> QED
            BY <3>1, <3>2, LengthIsSecond
    <2> QED
        BY <1>2, <2>2, <2>3 DEF Bodiless
<1> QED
    BY <1>3, <1>4

LEMMA LineLeavesRest ==
    ASSUME NEW f \in Files(Pieces), NEW g \in Files(Pieces), f.inbox # <<>>,
           g.inbox = Tail(f.inbox), g.coming = f.coming
    PROVE  /\ Bodiless(f) => Bodiless(g) /\ Head(f.inbox) # "length"
           /\ \A k \in Nat, c \in Configs :
                  Rest(f, k, c) => Rest(g, k + 1, c) /\ Head(f.inbox) = Piece(c, k + 1)
<1> DEFINE m == Len(f.inbox)
           n == Len(f.coming)
           e == Head(f.inbox)
<1>1. f.inbox \in Seq(Pieces) /\ f.coming \in Seq(Pieces)
    BY DEF Files
<1>2. /\ m \in Nat /\ n \in Nat /\ m >= 1 /\ e = f.inbox[1]
      /\ Len(g.inbox) = m - 1 /\ Len(g.coming) = n
      /\ \A i \in 1 .. m - 1 : i + 1 \in 1 .. m /\ g.inbox[i] = f.inbox[i + 1]
    BY <1>1, SequenceFacts
<1>3. ASSUME Bodiless(f) PROVE Bodiless(g) /\ e # "length"
    BY <1>2, <1>3 DEF Bodiless
<1>4. ASSUME NEW k \in Nat, NEW c \in Configs, Rest(f, k, c)
      PROVE  Rest(g, k + 1, c) /\ e = Piece(c, k + 1)
    <2> HIDE DEF e
    <2>1. /\ m + n + k <= Len(c) + 3
          /\ \A i \in 1 .. m : f.inbox[i] = Piece(c, i + k)
          /\ \A i \in 1 .. n : f.coming[i] = Piece(c, m + i + k)
        BY <1>4, Zenon DEF Rest
    <2>c. Len(c) \in Nat
        BY ConfigFacts
    <2> HIDE DEF m, n
    <2>2. e = Piece(c, k + 1)
        BY <1>2, <2>1
    <2>3. ASSUME NEW i \in 1 .. m - 1 PROVE g.inbox[i] = Piece(c, i + (k + 1))
        <3>1. i + 1 \in 1 .. m /\ (i + 1) + k = i + (k + 1)
            BY <1>2
        <3>2. f.inbox[i + 1] = Piece(c, (i + 1) + k)
            BY <2>1, <3>1
        <3> QED
            BY <1>2, <3>1, <3>2
    <2>4. ASSUME NEW i \in 1 .. n PROVE g.coming[i] = Piece(c, (m - 1) + i + (k + 1))
        <3>1. m + i + k = (m - 1) + i + (k + 1)
            BY <1>2
        <3>2. f.coming[i] = Piece(c, m + i + k)
            BY <2>1
        <3> QED
            BY <3>1, <3>2
    <2>5. (m - 1) + n + (k + 1) <= Len(c) + 3 /\ m - 1 \in Nat /\ k + 1 \in Nat
        BY <1>2, <2>1, <2>c
    <2>6. Rest(g, k + 1, c)
        BY <1>2, <2>3, <2>4, <2>5 DEF Rest
    <2> QED
        BY <2>2, <2>6
<1> QED
    BY <1>3, <1>4

\* The body, read at once.
LEMMA RestIsBeginning ==
    ASSUME NEW f \in Files(Pieces), NEW c \in Configs, Rest(f, 3, c)
    PROVE  Begins(f.inbox, c)
<1> DEFINE m == Len(f.inbox)
           n == Len(f.coming)
<1>1. m \in Nat /\ n \in Nat
    BY DEF Files
<1>2. /\ m + n + 3 <= Len(c) + 3
      /\ \A i \in 1 .. m : f.inbox[i] = Piece(c, i + 3)
    BY Zenon DEF Rest
<1>c. Len(c) \in Nat
    BY ConfigFacts
<1> HIDE DEF n
<1>3. m <= Len(c)
    BY <1>1, <1>2, <1>c
<1>4. ASSUME NEW i \in 1 .. m PROVE f.inbox[i] = c[i]
    <2>1. f.inbox[i] = Piece(c, i + 3)
        BY <1>2
    <2>2. i + 3 # 1 /\ i + 3 # 2 /\ i + 3 # 3 /\ (i + 3) - 3 = i
        BY <1>1
    <2> QED
        BY <2>1, <2>2 DEF Piece
<1> QED
    BY <1>3, <1>4 DEF Begins

LEMMA ConcatOfThree ==
    ASSUME NEW h \in Seq(Pieces), NEW c \in Seq(Pieces), Len(h) = 3
    PROVE  /\ Len(h \o c) = 3 + Len(c)
           /\ \A i \in 1 .. 3 + Len(c) : (h \o c)[i] = IF i <= 3 THEN h[i] ELSE c[i - 3]
<1> DEFINE n == Len(h)
           s == h \o c
<1>1. /\ Len(s) = n + Len(c)
      /\ \A i \in 1 .. n + Len(c) : s[i] = IF i <= n THEN h[i] ELSE c[i - n]
    BY ConcatProperties, Zenon
<1>2. n = 3
    OBVIOUS
<1> HIDE DEF n, s
<1>3. /\ Len(s) = 3 + Len(c)
      /\ \A i \in 1 .. 3 + Len(c) : s[i] = IF i <= 3 THEN h[i] ELSE c[i - 3]
    BY <1>1, <1>2
<1> QED
    BY <1>3, Zenon DEF s

\* What a server may say about the configuration.
LEMMA ReplyIsRest ==
    ASSUME job[Main] = "config", NEW whole \in BOOLEAN, NEW reply \in Replies(Main, whole),
           NEW f, f.inbox = <<>>, f.coming = reply
    PROVE  Bodiless(f) \/ IsRest(f, 0)
<1>1. CASE reply \in {<<"500", "blank">>, <<"junk">>, <<"200", "blank">>}
    BY <1>1 DEF Bodiless
<1>2. ASSUME NEW c \in Configs, reply = <<"200", "length", "blank">> \o c
      PROVE  Rest(f, 0, c)
    <2>1. c \in Seq(Pieces) /\ Len(c) \in Nat
        BY ConfigFacts
    <2> DEFINE h == <<"200", "length", "blank">>
    <2>2. h \in Seq(Pieces) /\ Len(h) = 3 /\ h[1] = "200" /\ h[2] = "length" /\ h[3] = "blank"
        BY DEF Pieces
    <2> HIDE DEF h
    <2>3. /\ Len(h \o c) = 3 + Len(c)
          /\ \A i \in 1 .. 3 + Len(c) : (h \o c)[i] = IF i <= 3 THEN h[i] ELSE c[i - 3]
        BY <2>1, <2>2, ConcatOfThree, Zenon
    <2>4. ASSUME NEW i \in 1 .. 3 + Len(c) PROVE (h \o c)[i] = Piece(c, i)
        <3>1. i = 1 \/ i = 2 \/ i = 3 \/ i > 3
            BY <2>1
        <3>2. (h \o c)[i] = IF i <= 3 THEN h[i] ELSE c[i - 3]
            BY <2>1, <2>2, <2>3
        <3> QED
            BY <3>1, <3>2, <2>2 DEF Piece
    <2>5. Len(f.inbox) = 0 /\ Len(f.coming) = 3 + Len(c)
          /\ \A i \in 1 .. 3 + Len(c) : f.coming[i] = Piece(c, i)
        BY <1>2, <2>3, <2>4 DEF h
    <2> QED
        BY <2>1, <2>5 DEF Rest
<1>3. reply \in {<<"500", "blank">>, <<"junk">>, <<"200", "blank">>}
      \/ \E c \in Configs : reply = <<"200", "length", "blank">> \o c
    BY DEF Replies
<1> QED
    BY <1>1, <1>2, <1>3 DEF IsRest

-----------------------------------------------------------------------------
(***************************************************************************)
(* What others do to the main thread's sockets leaves them as they were for  *)
(* it: the other side sends and ends, and the other thread may end.          *)
(***************************************************************************)

Moves(f, g) ==
    \/ g.inbox = f.inbox /\ g.coming = <<>>
    \/ /\ g.inbox = f.inbox /\ g.coming = f.coming
       /\ g.peer = f.peer \/ f.peer = "pending"
    \/ /\ f.coming # <<>>
       /\ g.inbox = Append(f.inbox, Head(f.coming)) /\ g.coming = Tail(f.coming)
       /\ g.peer = f.peer
    \/ /\ f.coming # <<>> /\ Head(f.coming) = "length"
       /\ g.inbox = Append(f.inbox, "cut") /\ g.coming = <<>>

MainKept == \A d \in Descriptors :
    file'[d].owner = Main => file[d].owner = Main /\ Moves(file[d], file'[d])

LEMMA SameRest ==
    ASSUME NEW f, NEW g, g.inbox = f.inbox, g.coming = f.coming
    PROVE  /\ Bodiless(f) => Bodiless(g)
           /\ \A k \in Nat : IsRest(f, k) => IsRest(g, k)
    BY DEF Bodiless, IsRest, Rest

LEMMA MovesKeep ==
    ASSUME NEW f \in Files(Pieces), NEW g \in Files(Pieces), Moves(f, g)
    PROVE  /\ Empty(f) => Empty(g)
           /\ (f.coming # <<>> => f.peer = "open") => (g.coming # <<>> => g.peer = "open")
           /\ \A k \in {0, 1} : Bodiless(f) \/ IsRest(f, k) => Bodiless(g) \/ IsRest(g, k)
           /\ \A k \in {2, 3} : IsRest(f, k) => IsRest(g, k)
<1>1. CASE g.inbox = f.inbox /\ g.coming = <<>>
    BY <1>1, LostLeavesRest DEF IsRest, Empty
<1>2. CASE g.inbox = f.inbox /\ g.coming = f.coming /\ (g.peer = f.peer \/ f.peer = "pending")
    BY <1>2, SameRest DEF Empty
<1>3. CASE /\ f.coming # <<>>
           /\ g.inbox = Append(f.inbox, Head(f.coming)) /\ g.coming = Tail(f.coming)
           /\ g.peer = f.peer
    <2>1. Bodiless(f) => Bodiless(g)
        BY <1>3, ArrivedLeavesRest
    <2>2. \A k \in Nat, c \in Configs : Rest(f, k, c) => Rest(g, k, c)
        BY <1>3, ArrivedLeavesRest
    <2> QED
        BY <1>3, <2>1, <2>2 DEF IsRest, Empty
<1>4. CASE /\ f.coming # <<>> /\ Head(f.coming) = "length"
           /\ g.inbox = Append(f.inbox, "cut") /\ g.coming = <<>>
    <2>1. ~Bodiless(f)
        BY <1>4, CutLeavesRest
    <2>2. \A k \in Nat, c \in Configs : Rest(f, k, c) => k \in {0, 1} /\ Bodiless(g)
        BY <1>4, CutLeavesRest
    <2> QED
        BY <1>4, <2>1, <2>2 DEF IsRest, Empty
<1> QED
    BY <1>1, <1>2, <1>3, <1>4 DEF Moves

\* Steps that leave the main thread alone.
LEMMA BeginsByOthers ==
    ASSUME BeginsInv, OwnInv', MainKept, config' = config,
           fd'[Main] = fd[Main], place'[Main] = place[Main],
           job'[Main] = job[Main], resp'[Main] = resp[Main]
    PROVE  BeginsInv'
<1>t. /\ file \in [Descriptors -> Files(Pieces)] /\ file' \in [Descriptors -> Files(Pieces)]
      /\ Main \in Threads
    BY DEF BeginsInv, OwnInv, TypeInv, TypeOK
<1>1. NothingElse'
    BY <1>t, MovesKeep DEF NothingElse, BeginsInv, MainKept
<1>2. ASSUME place[Main] \in {"wait", "status", "headers", "body"},
             Awaited(place[Main], resp[Main].length, file[fd[Main]])
      PROVE  Awaited(place[Main], resp[Main].length, file'[fd[Main]])
    <2>1. fd'[Main] \in Descriptors /\ fd[Main] \in Descriptors /\ fd'[Main] # 0
        BY <1>2, <1>t DEF BeginsInv, OwnInv, TypeInv, HoldsOne, Descriptors
    <2>2. file'[fd[Main]].owner = Main
        BY <1>2, <1>t, <2>1 DEF OwnInv, OwnSocket
    <2>3. Moves(file[fd[Main]], file'[fd[Main]])
        BY <2>1, <2>2 DEF MainKept
    <2> DEFINE f == file[fd[Main]]
               g == file'[fd[Main]]
    <2>4. f \in Files(Pieces) /\ g \in Files(Pieces)
        BY <1>t, <2>1
    <2> HIDE DEF f, g
    <2>5. /\ \A k \in {0, 1} : Bodiless(f) \/ IsRest(f, k) => Bodiless(g) \/ IsRest(g, k)
          /\ \A k \in {2, 3} : IsRest(f, k) => IsRest(g, k)
        BY <2>3, <2>4, MovesKeep DEF f, g
    <2>6. Awaited(place[Main], resp[Main].length, f)
        BY <1>2 DEF f
    <2>7. Awaited(place[Main], resp[Main].length, g)
        BY <2>5, <2>6 DEF Awaited
    <2> QED
        BY <2>7 DEF g
<1>3. AnswerRead'
    <2>1. place[Main] \notin {"wait", "status", "headers", "body"} =>
              Awaited(place[Main], resp[Main].length, file'[fd[Main]])
        BY DEF Awaited
    <2>2. job[Main] = "config" => Awaited(place[Main], resp[Main].length, file[fd[Main]])
        BY DEF BeginsInv, AnswerRead
    <2> QED
        BY <1>2, <2>1, <2>2 DEF BeginsInv, AnswerRead
<1> QED
    BY <1>1, <1>3 DEF BeginsInv, ConfigBegins

LEMMA PeerStepKeepsMain ==
    ASSUME TypeOK, NEW d \in Descriptors, PeerStep(d)
    PROVE  MainKept
<1>t. file \in [Descriptors -> Files(Pieces)] /\ file[d] \in Files(Pieces)
    BY DEF TypeOK
<1>e. \A e \in Descriptors : e # d => file'[e] = file[e]
    BY <1>t DEF PeerStep, Accept, Deliver, End, Cut
<1> SUFFICES file'[d].owner = file[d].owner /\ Moves(file[d], file'[d])
    BY <1>e DEF MainKept, Moves
<1>1. CASE Accept(d)
    BY <1>1, <1>t DEF Accept, Moves, Files
<1>2. CASE Deliver(d)
    BY <1>2, <1>t DEF Deliver, Moves, Files
<1>3. CASE End(d)
    BY <1>3, <1>t DEF End, Moves, Files
<1>4. CASE Cut(d, "length")
    BY <1>4, <1>t DEF Cut, Moves, Files
<1> QED
    BY <1>1, <1>2, <1>3, <1>4 DEF PeerStep

\* The descriptor that a step closes, takes or works on is not the main thread's.
LEMMA ElsewhereKeepsMain ==
    ASSUME TypeOK, NEW d \in Descriptors, NEW f, file' = [file EXCEPT ![d] = f], f.owner # Main
    PROVE  MainKept
    BY DEF TypeOK, MainKept, Moves

LEMMA ReporterStepKeepsMain ==
    ASSUME OwnInv, ReporterStep
    PROVE  MainKept
<1>t. /\ TypeOK /\ file \in [Descriptors -> Files(Pieces)]
      /\ fd \in [Threads -> {0} \cup Descriptors]
      /\ Reporter \in Threads /\ Reporter # Main /\ Closed.owner # Main
    BY DEF OwnInv, TypeInv, TypeOK, Closed, Nobody
<1>h. place[Reporter] \in {"select", "shut", "send", "wait", "status", "headers", "body"}
          => fd[Reporter] \in Descriptors
    BY <1>t DEF OwnInv, TypeInv, HoldsOne
<1>o. place[Reporter] # "shut" /\ fd[Reporter] \in Descriptors => file[fd[Reporter]].owner = Reporter
    BY <1>t DEF OwnInv, OwnSocket, Descriptors
<1>k. ASSUME file' = file PROVE MainKept
    BY <1>k DEF MainKept, Moves
<1>n. ASSUME NEW d \in Free, NEW peer, Take(Reporter, d, peer) PROVE MainKept
    <2>1. [Closed EXCEPT !.owner = Reporter, !.peer = peer].owner # Main
        BY <1>t DEF Closed
    <2> QED
        BY <2>1, <1>n, <1>t, ElsewhereKeepsMain DEF Take, Free
<1>c. ASSUME NEW d \in Descriptors, file' = [file EXCEPT ![d] = Closed] PROVE MainKept
    BY <1>c, <1>t, ElsewhereKeepsMain
<1>1. CASE ConnectStep(Reporter)
    BY <1>1, <1>k, <1>n DEF ConnectStep, SocketFails, ConnectFails, Connect, tcpVars
<1>2. CASE SelectStep(Reporter)
    BY <1>2, <1>k, <1>c, <1>h DEF SelectStep, SelectFails, SelectTimesOut, At, tcpVars
<1>3. CASE ShutStep(Reporter)
    <2>1. fd[Reporter] \in Descriptors
        BY <1>3, <1>h DEF ShutStep, At
    <2>2. /\ file'[fd[Reporter]].owner = file[fd[Reporter]].owner
          /\ file'[fd[Reporter]].inbox = file[fd[Reporter]].inbox
          /\ file'[fd[Reporter]].coming = <<>>
          /\ \A d \in Descriptors : d # fd[Reporter] => file'[d] = file[d]
        BY <1>3, <1>t, <2>1 DEF ShutStep, ShutdownClosed, Files
    <2> QED
        BY <2>1, <2>2 DEF MainKept, Moves
<1>4. CASE SendStep(Reporter) \/ StatusStep(Reporter) \/ HeaderStep(Reporter) \/ BodyStep(Reporter)
    <2>1. fd[Reporter] \in Descriptors /\ file[fd[Reporter]].owner = Reporter
        BY <1>4, <1>h, <1>o DEF SendStep, StatusStep, HeaderStep, BodyStep, At
    <2>2. ASSUME NEW reply, file' = [file EXCEPT ![fd[Reporter]].coming = reply]
          PROVE  MainKept
        BY <2>1, <2>2, <1>t DEF MainKept, Moves, Files
    <2>3. ASSUME NEW rest, file' = [file EXCEPT ![fd[Reporter]].inbox = rest]
          PROVE  MainKept
        BY <2>1, <2>3, <1>t DEF MainKept, Moves, Files
    <2> QED
        BY <1>4, <1>k, <2>2, <2>3 DEF SendStep, StatusStep, HeaderStep, BodyStep, ReadLine, ReadAll,
            tcpVars
<1>5. CASE WaitStep(Reporter) \/ HeaderCrash(Reporter)
    BY <1>5, <1>k DEF WaitStep, HeaderCrash, tcpVars
<1>6. CASE StopStep(Reporter)
    BY <1>6, <1>k, <1>c, <1>t DEF StopStep, CloseOwn, tcpVars
<1>7. CASE OpenDirectory \/ CloseDirectory
    BY <1>7, <1>k, <1>n, <1>c DEF OpenDirectory, CloseDirectory
<1>8. CASE NextReport
    BY <1>8, <1>k, <1>n DEF NextReport
<1>9. CASE ReportSent
    BY <1>9, <1>k DEF ReportSent, tcpVars
<1> QED
    BY <1>1, <1>2, <1>3, <1>4, <1>5, <1>6, <1>7, <1>8, <1>9 DEF ReporterStep, RequestStep

LEMMA ReporterStepBegins ==
    ASSUME BeginsInv, OwnInv', ReporterStep
    PROVE  BeginsInv'
<1>t. /\ Reporter # Main /\ Main \in Threads /\ OwnInv
      /\ fd \in [Threads -> {0} \cup Descriptors] /\ place \in [Threads -> Places]
      /\ job \in [Threads -> {"none", "config", "alert"} \cup Reports]
      /\ resp \in [Threads -> Responses]
    BY DEF BeginsInv, OwnInv, TypeInv, TypeOK
<1>1. fd' = fd \/ \E d : fd' = [fd EXCEPT ![Reporter] = d]
    BY DEF ReporterStep, OpenDirectory, NextReport, ReportSent, CloseDirectory, RequestStep,
        ConnectStep, SelectStep, ShutStep, SendStep, WaitStep, StatusStep,
        HeaderStep, HeaderCrash, BodyStep, StopStep, SocketFails, ConnectFails, Connect, SelectFails,
        SelectTimesOut, ShutdownClosed, ReadLine, ReadAll, CloseOwn, tcpVars
<1>2. place' = place \/ \E p : place' = [place EXCEPT ![Reporter] = p]
    BY DEF ReporterStep, OpenDirectory, NextReport, ReportSent, CloseDirectory, RequestStep,
        ConnectStep, SelectStep, ShutStep, SendStep, WaitStep, StatusStep,
        HeaderStep, HeaderCrash, BodyStep, StopStep, Request, Finish, Fail, Goto, AfterHeaders,
        threadVars
<1>3. job'[Main] = job[Main] /\ resp'[Main] = resp[Main] /\ config' = config
    BY <1>t DEF ReporterStep, OpenDirectory, NextReport, ReportSent, CloseDirectory, RequestStep,
        ConnectStep, SelectStep, ShutStep, SendStep, WaitStep, StatusStep,
        HeaderStep, HeaderCrash, BodyStep, StopStep, Request, Finish, Fail, threadVars, boardVars
<1>4. fd'[Main] = fd[Main] /\ place'[Main] = place[Main]
    BY <1>1, <1>2, <1>t
<1> QED
    BY <1>3, <1>4, <1>t, ReporterStepKeepsMain, BeginsByOthers

-----------------------------------------------------------------------------
(***************************************************************************)
(* The main thread's own steps.                                             *)
(***************************************************************************)

\* Nothing is on its way before it sends and after it stops.
LEMMA QuietElsewhere ==
    ASSUME BeginsInv, OwnInv', UNCHANGED <<job, config>>,
           MainKept \/ (\E d \in Descriptors :
                           /\ Empty(file'[d])
                           /\ \A e \in Descriptors : e # d => file'[e] = file[e]),
           place[Main] \in {"connect", "select", "shut"},
           place'[Main] \in {"select", "shut", "send", "stop"},
           resp'[Main].length = resp[Main].length, resp'[Main].body = resp[Main].body
    PROVE  BeginsInv'
<1>t. file \in [Descriptors -> Files(Pieces)] /\ file' \in [Descriptors -> Files(Pieces)]
    BY DEF BeginsInv, OwnInv, TypeInv, TypeOK
<1>1. \A d \in Descriptors : file[d].owner = Main => Empty(file[d])
    BY DEF BeginsInv, NothingElse, Answered
<1>2. NothingElse'
    <2>1. CASE MainKept
        <3>1. ASSUME NEW d \in Descriptors, file'[d].owner = Main
              PROVE  Empty(file'[d])
            BY <1>1, <1>t, <2>1, <3>1, MovesKeep DEF MainKept
        <3> QED
            BY <3>1 DEF NothingElse, Empty
    <2>2. ASSUME NEW d \in Descriptors, Empty(file'[d]),
                 \A e \in Descriptors : e # d => file'[e] = file[e]
          PROVE  NothingElse'
        <3>1. \A e \in Descriptors : file'[e].owner = Main => Empty(file'[e])
            BY <1>1, <2>2
        <3> QED
            BY <3>1 DEF NothingElse, Empty
    <2> QED
        BY <2>1, <2>2
<1>3. AnswerRead'
    BY DEF BeginsInv, AnswerRead, Awaited
<1> QED
    BY <1>2, <1>3 DEF BeginsInv, ConfigBegins

\* What it reads changes one socket, which stays its own.
LEMMA ReadsItsOwn ==
    ASSUME BeginsInv, OwnInv', UNCHANGED <<fd, job, config>>,
           place[Main] \in {"send", "wait", "status", "headers", "body"},
           place'[Main] \in Answered,
           file' = file \/ (\E r : file' = [file EXCEPT ![fd[Main]].inbox = r])
                        \/ (/\ file[fd[Main]].peer = "open"
                            /\ \E r : file' = [file EXCEPT ![fd[Main]].coming = r]),
           AnswerRead'
    PROVE  BeginsInv'
<1>t. file \in [Descriptors -> Files(Pieces)] /\ fd[Main] \in Descriptors
    BY DEF BeginsInv, OwnInv, TypeInv, TypeOK, HoldsOne
<1> DEFINE Owns ==
               /\ \A d \in Descriptors : d # fd[Main] => file'[d] = file[d]
               /\ file'[fd[Main]].owner = file[fd[Main]].owner
               /\ file'[fd[Main]].peer = file[fd[Main]].peer
               /\ \/ file'[fd[Main]].coming = file[fd[Main]].coming
                  \/ file[fd[Main]].peer = "open"
<1>1. Owns
    <2>1. file[fd[Main]] \in Files(Pieces)
        BY <1>t
    <2>2. CASE file' = file
        BY <2>2
    <2>3. ASSUME NEW r, file' = [file EXCEPT ![fd[Main]].inbox = r]
          PROVE  Owns
        BY <1>t, <2>1, <2>3 DEF Files
    <2>4. ASSUME NEW r, file' = [file EXCEPT ![fd[Main]].coming = r],
                 file[fd[Main]].peer = "open"
          PROVE  Owns
        BY <1>t, <2>1, <2>4 DEF Files
    <2> QED
        BY <2>2, <2>3, <2>4
<1>2. NothingElse'
    BY <1>1 DEF NothingElse, BeginsInv
<1> QED
    BY <1>2 DEF BeginsInv, ConfigBegins

LEMMA MainRequestStepBegins ==
    ASSUME BeginsInv, OwnInv', RequestStep(Main)
    PROVE  BeginsInv'
<1>t. /\ Main \in Threads /\ TypeOK /\ OwnInv /\ NothingElse /\ AnswerRead
      /\ file \in [Descriptors -> Files(Pieces)] /\ file' \in [Descriptors -> Files(Pieces)]
      /\ fd \in [Threads -> {0} \cup Descriptors]
      /\ place \in [Threads -> Places] /\ resp \in [Threads -> Responses]
    BY DEF BeginsInv, OwnInv, TypeInv, TypeOK
<1>u. UNCHANGED <<job, config>>
    BY DEF RequestStep, ConnectStep, SelectStep, ShutStep, SendStep, WaitStep, StatusStep,
        HeaderStep, HeaderCrash, BodyStep, StopStep, boardVars, threadVars
<1>h. place[Main] \in {"select", "shut", "send", "wait", "status", "headers", "body"}
          => fd[Main] \in Descriptors
    BY <1>t DEF OwnInv, TypeInv, HoldsOne
<1>o. place[Main] \in {"select", "send", "wait", "status", "headers", "body"}
          => file[fd[Main]].owner = Main
    BY <1>t, <1>h DEF OwnInv, OwnSocket, Descriptors
<1>e. Empty(Closed)
    BY DEF Empty, Closed
<1> DEFINE f == file[fd[Main]]
           g == file'[fd[Main]]
<1>1. CASE ConnectStep(Main)
    <2>1. /\ place[Main] = "connect" /\ place'[Main] \in {"select", "stop"}
          /\ resp'[Main].length = resp[Main].length /\ resp'[Main].body = resp[Main].body
        BY <1>1, <1>t DEF ConnectStep, At, Fail, Goto, Responses
    <2>2. CASE SocketFails(Main)
        <3>1. MainKept
            BY <2>2 DEF SocketFails, tcpVars, MainKept, Moves
        <3> QED
            BY <2>1, <3>1, <1>u, QuietElsewhere
    <2>3. ASSUME NEW d \in Free, NEW peer, Take(Main, d, peer)
          PROVE  BeginsInv'
        <3>1. d \in Descriptors /\ file'[d] = [Closed EXCEPT !.owner = Main, !.peer = peer]
              /\ \A e \in Descriptors : e # d => file'[e] = file[e]
            BY <2>3, <1>t DEF Free, Take
        <3>2. Empty(file'[d])
            BY <3>1 DEF Empty, Closed
        <3> QED
            BY <2>1, <3>1, <3>2, <1>u, QuietElsewhere
    <2> QED
        BY <1>1, <2>2, <2>3 DEF ConnectStep, ConnectFails, Connect
<1>2. CASE SelectStep(Main)
    <2>1. /\ place[Main] = "select" /\ place'[Main] \in {"shut", "send", "stop"}
          /\ resp'[Main].length = resp[Main].length /\ resp'[Main].body = resp[Main].body
        BY <1>2, <1>t DEF SelectStep, At, Fail, Goto, Responses
    <2>2. CASE file' = file
        <3>1. MainKept
            BY <2>2 DEF MainKept, Moves
        <3> QED
            BY <2>1, <3>1, <1>u, QuietElsewhere
    <2>3. CASE file' = [file EXCEPT ![fd[Main]] = Closed]
        <3>1. fd[Main] \in Descriptors /\ file'[fd[Main]] = Closed
              /\ \A e \in Descriptors : e # fd[Main] => file'[e] = file[e]
            BY <2>1, <2>3, <1>h, <1>t
        <3> QED
            BY <2>1, <3>1, <1>e, <1>u, QuietElsewhere
    <2> QED
        BY <1>2, <2>2, <2>3 DEF SelectStep, SelectFails, SelectTimesOut, tcpVars
<1>3. CASE ShutStep(Main)
    <2>1. /\ place[Main] = "shut" /\ place'[Main] = "stop"
          /\ resp'[Main].length = resp[Main].length /\ resp'[Main].body = resp[Main].body
        BY <1>3, <1>t DEF ShutStep, At, Fail, Goto, Responses
    <2>2. /\ g.owner = f.owner /\ g.inbox = f.inbox /\ g.coming = <<>>
          /\ \A d \in Descriptors : d # fd[Main] => file'[d] = file[d]
        BY <1>3, <1>t, <1>h, <2>1 DEF ShutStep, ShutdownClosed, Files
    <2>3. MainKept
        BY <2>2 DEF MainKept, Moves
    <2> QED
        BY <2>1, <2>3, <1>u, QuietElsewhere
<1>4. CASE SendStep(Main)
    <2>1. /\ place[Main] = "send" /\ place'[Main] = "wait" /\ resp' = resp /\ fd' = fd
          /\ fd[Main] \in Descriptors
        BY <1>4, <1>h, <1>t DEF SendStep, At, Goto
    <2>2. Empty(f)
        BY <2>1, <1>o, <1>t DEF NothingElse, Answered
    <2>3. ASSUME job[Main] = "config" PROVE Bodiless(g) \/ IsRest(g, 0)
        <3>1. CASE file' = file
            BY <2>2, <3>1 DEF Empty, Bodiless
        <3>2. ASSUME NEW whole \in BOOLEAN, NEW reply \in Replies(Main, whole),
                     file' = [file EXCEPT ![fd[Main]].coming = reply]
              PROVE  Bodiless(g) \/ IsRest(g, 0)
            <4>1. g.inbox = <<>> /\ g.coming = reply
                BY <2>1, <2>2, <3>2, <1>t DEF Empty, Files
            <4> HIDE DEF g
            <4> QED
                BY <4>1, <2>3, ReplyIsRest
        <3> QED
            BY <1>4, <3>1, <3>2 DEF SendStep
    <2>4. AnswerRead'
        BY <2>1, <2>3, <1>t, <1>u DEF AnswerRead, Awaited
    <2>5. file' = file \/ (f.peer = "open" /\ \E r : file' = [file EXCEPT ![fd[Main]].coming = r])
        BY <1>4 DEF SendStep
    <2>6. "wait" \in Answered
        BY DEF Answered
    <2> QED
        BY <2>1, <2>4, <2>5, <2>6, <1>u, ReadsItsOwn
<1>5. CASE WaitStep(Main)
    <2>1. /\ place[Main] = "wait" /\ place'[Main] \in {"status", "stop"}
          /\ resp'[Main].length = resp[Main].length /\ resp'[Main].body = resp[Main].body
          /\ file' = file /\ fd' = fd
        BY <1>5, <1>t DEF WaitStep, At, Fail, Goto, Responses, tcpVars
    <2>2. AnswerRead'
        BY <2>1, <1>t, <1>u DEF AnswerRead, Awaited
    <2>3. place'[Main] \in Answered
        BY <2>1 DEF Answered
    <2> QED
        BY <2>1, <2>2, <2>3, <1>u, ReadsItsOwn
<1>r. ASSUME place[Main] \in {"status", "headers"}, Available(Main), ReadLine(Main)
      PROVE  /\ f \in Files(Pieces) /\ g \in Files(Pieces) /\ f.inbox # <<>>
             /\ g.inbox = Tail(f.inbox) /\ g.coming = f.coming
             /\ \E r : file' = [file EXCEPT ![fd[Main]].inbox = r]
             /\ fd' = fd
    <2>1. fd[Main] \in Descriptors /\ f \in Files(Pieces) /\ g \in Files(Pieces)
        BY <1>r, <1>h, <1>t
    <2>2. file' = [file EXCEPT ![fd[Main]].inbox = Tail(f.inbox)] /\ fd' = fd /\ f.inbox # <<>>
        BY <1>r, <1>t, <2>1 DEF Available, ReadLine, Files
    <2>3. g = [f EXCEPT !.inbox = Tail(f.inbox)]
        BY <1>t, <2>1, <2>2
    <2>4. g.inbox = Tail(f.inbox) /\ g.coming = f.coming
        BY <2>1, <2>3 DEF Files
    <2>5. \E r : file' = [file EXCEPT ![fd[Main]].inbox = r]
        BY <2>2
    <2> QED
        BY <2>1, <2>2, <2>4, <2>5
<1>6. CASE StatusStep(Main)
    <2>1. /\ place[Main] = "status" /\ place'[Main] \in {"headers", "stop"}
          /\ resp'[Main].length = resp[Main].length /\ resp'[Main].body = resp[Main].body
        BY <1>6, <1>t DEF StatusStep, At, Fail, Goto, Responses
    <2>2. /\ f \in Files(Pieces) /\ g \in Files(Pieces) /\ f.inbox # <<>>
          /\ g.inbox = Tail(f.inbox) /\ g.coming = f.coming
          /\ \E r : file' = [file EXCEPT ![fd[Main]].inbox = r]
          /\ fd' = fd
        BY <1>6, <1>r, <2>1 DEF StatusStep
    <2>3. ASSUME job[Main] = "config" PROVE Bodiless(g) \/ IsRest(g, 1)
        <3>1. Bodiless(f) \/ IsRest(f, 0)
            BY <2>1, <2>3, <1>t DEF AnswerRead, Awaited
        <3> HIDE DEF f, g
        <3>2. Bodiless(f) => Bodiless(g)
            BY <2>2, LineLeavesRest
        <3>3. \A c \in Configs : Rest(f, 0, c) => Rest(g, 0 + 1, c)
            BY <2>2, LineLeavesRest
        <3> QED
            BY <3>1, <3>2, <3>3 DEF IsRest
    <2>4. AnswerRead'
        BY <2>1, <2>2, <2>3, <1>t, <1>u DEF AnswerRead, Awaited
    <2>5. place'[Main] \in Answered
        BY <2>1 DEF Answered
    <2> QED
        BY <2>1, <2>2, <2>4, <2>5, <1>u, ReadsItsOwn
<1>7. CASE HeaderStep(Main)
    <2>0. place[Main] = "headers" /\ fd[Main] \in Descriptors /\ f.owner = Main
          /\ resp[Main].body = <<>> /\ resp[Main].length \in BOOLEAN
        BY <1>7, <1>h, <1>o, <1>t DEF HeaderStep, At, AnswerRead, Responses
    <2>a. job[Main] = "config" =>
              IF resp[Main].length THEN IsRest(f, 2) ELSE Bodiless(f) \/ IsRest(f, 1)
        BY <2>0, <1>t DEF AnswerRead, Awaited
    <2>b. "body" \in Answered /\ "stop" \in Answered /\ "headers" \in Answered
        BY DEF Answered
    <2>1. CASE AtEnd(Main) /\ AfterHeaders(Main) /\ UNCHANGED <<tcpVars, resp>>
        <3>1. f.inbox = <<>> /\ f.coming = <<>>
            BY <2>0, <2>1, <1>t DEF AtEnd, NothingElse
        <3>2. /\ place'[Main] = IF resp[Main].length THEN "body" ELSE "stop"
              /\ file' = file /\ fd' = fd /\ resp' = resp
            BY <2>1, <1>t DEF AfterHeaders, Goto, tcpVars
        <3>3. ASSUME NEW c \in Configs, Rest(f, 2, c) PROVE Rest(f, 3, c)
            BY <3>1, <3>3, ConfigFacts DEF Rest
        <3>4. AnswerRead'
            BY <2>0, <2>a, <3>2, <3>3, <1>u DEF AnswerRead, Awaited, IsRest
        <3> QED
            BY <2>0, <2>b, <3>2, <3>4, <1>u, ReadsItsOwn
    <2>2. CASE /\ Available(Main) /\ Head(f.inbox) = "blank" /\ ReadLine(Main)
               /\ AfterHeaders(Main) /\ UNCHANGED resp
        <3>1. /\ f \in Files(Pieces) /\ g \in Files(Pieces) /\ f.inbox # <<>>
              /\ g.inbox = Tail(f.inbox) /\ g.coming = f.coming
              /\ \E r : file' = [file EXCEPT ![fd[Main]].inbox = r]
              /\ fd' = fd
            BY <1>r, <2>0, <2>2
        <3>2. place'[Main] = IF resp[Main].length THEN "body" ELSE "stop"
            BY <2>2, <1>t DEF AfterHeaders, Goto
        <3>3. IsRest(f, 2) => IsRest(g, 3)
            <4> HIDE DEF f, g
            <4>1. \A c \in Configs : Rest(f, 2, c) => Rest(g, 2 + 1, c)
                BY <3>1, LineLeavesRest
            <4> QED
                BY <4>1 DEF IsRest
        <3>4. AnswerRead'
            BY <2>0, <2>2, <2>a, <3>1, <3>2, <3>3, <1>u DEF AnswerRead, Awaited
        <3> QED
            BY <2>0, <2>b, <3>1, <3>2, <3>4, <1>u, ReadsItsOwn
    <2>3. CASE /\ Available(Main) /\ Head(f.inbox) = "length" /\ ReadLine(Main)
               /\ resp' = [resp EXCEPT ![Main].length = TRUE] /\ UNCHANGED place
        <3>1. /\ f \in Files(Pieces) /\ g \in Files(Pieces) /\ f.inbox # <<>>
              /\ g.inbox = Tail(f.inbox) /\ g.coming = f.coming
              /\ \E r : file' = [file EXCEPT ![fd[Main]].inbox = r]
              /\ fd' = fd
            BY <1>r, <2>0, <2>3
        <3>2. resp'[Main].length = TRUE /\ resp'[Main].body = <<>> /\ place'[Main] = "headers"
            BY <2>0, <2>3, <1>t DEF Responses
        <3>3. ~Bodiless(f) /\ ~IsRest(f, 2) /\ (IsRest(f, 1) => IsRest(g, 2))
            <4> HIDE DEF f, g
            <4>1. ~Bodiless(f)
                BY <3>1, <2>3, LineLeavesRest DEF f
            <4>2. \A k \in Nat, c \in Configs :
                      Rest(f, k, c) => Rest(g, k + 1, c) /\ Head(f.inbox) = Piece(c, k + 1)
                BY <3>1, LineLeavesRest
            <4>3. \A c \in Configs : Piece(c, 2 + 1) # "length"
                BY DEF Piece
            <4>4. \A c \in Configs : ~Rest(f, 2, c)
                BY <4>2, <4>3, <2>3 DEF f
            <4>5. \A c \in Configs : Rest(f, 1, c) => Rest(g, 1 + 1, c)
                BY <4>2
            <4> QED
                BY <4>1, <4>4, <4>5 DEF IsRest
        <3>4. AnswerRead'
            BY <2>0, <2>a, <3>1, <3>2, <3>3, <1>u DEF AnswerRead, Awaited
        <3> QED
            BY <2>0, <2>b, <3>1, <3>2, <3>4, <1>u, ReadsItsOwn
    <2> QED
        BY <1>7, <2>1, <2>2, <2>3 DEF HeaderStep
<1>8. CASE HeaderCrash(Main)
    <2>1. MainKept
        BY <1>8 DEF HeaderCrash, tcpVars, MainKept, Moves
    <2> QED
        BY <1>8, <2>1, BeginsByOthers DEF HeaderCrash, tcpVars, threadVars
<1>9. CASE BodyStep(Main)
    <2>1. /\ place[Main] = "body" /\ place'[Main] = "stop" /\ fd[Main] \in Descriptors
          /\ fd' = fd /\ resp'[Main].body = f.inbox
          /\ \E r : file' = [file EXCEPT ![fd[Main]].inbox = r]
        BY <1>9, <1>h, <1>t DEF BodyStep, At, Goto, ReadAll, Responses
    <2>2. ASSUME job[Main] = "config" PROVE \E c \in Configs : Begins(f.inbox, c)
        <3>1. IsRest(f, 3)
            BY <2>1, <2>2, <1>t DEF AnswerRead, Awaited
        <3>2. f \in Files(Pieces)
            BY <2>1, <1>t
        <3> HIDE DEF f
        <3> QED
            BY <3>1, <3>2, RestIsBeginning DEF IsRest
    <2>3. AnswerRead'
        BY <2>1, <2>2, <1>u DEF AnswerRead, Awaited
    <2>4. "stop" \in Answered
        BY DEF Answered
    <2> QED
        BY <2>1, <2>3, <2>4, <1>u, ReadsItsOwn
<1>10. CASE StopStep(Main)
    <2>1. place[Main] = "stop" /\ place'[Main] = "done" /\ resp' = resp
        BY <1>10, <1>t DEF StopStep, At, Goto
    <2>2. \A d \in Descriptors : file'[d].owner = Main => Empty(file'[d])
        <3>1. CASE fd[Main] = 0
            BY <3>1, <1>10, <1>t DEF StopStep, CloseOwn, tcpVars, NothingElse, Descriptors
        <3>2. CASE fd[Main] # 0
            BY <3>2, <1>10, <1>t, <1>e DEF StopStep, CloseOwn, NothingElse
        <3> QED
            BY <3>1, <3>2
    <2>3. NothingElse'
        BY <2>2 DEF NothingElse, Empty
    <2>4. AnswerRead'
        BY <2>1, <1>t, <1>u DEF AnswerRead, Awaited
    <2> QED
        BY <2>3, <2>4, <1>u DEF BeginsInv, ConfigBegins
<1> QED
    BY <1>1, <1>2, <1>3, <1>4, <1>5, <1>6, <1>7, <1>8, <1>9, <1>10 DEF RequestStep

LEMMA BeginsInductive == BeginsInv /\ [Next]_vars => BeginsInv'
<1> SUFFICES ASSUME BeginsInv, [Next]_vars PROVE BeginsInv'
    OBVIOUS
<1>o. OwnInv /\ OwnInv' /\ TypeOK /\ Main \in Threads
    BY OwnInductive DEF BeginsInv, OwnInv, TypeInv
<1>t. /\ place \in [Threads -> Places]
      /\ job \in [Threads -> {"none", "config", "alert"} \cup Reports]
      /\ resp \in [Threads -> Responses]
    BY <1>o DEF TypeOK
<1>n. ~NewResponse.length /\ NewResponse.body = <<>>
    BY DEF NewResponse
<1>1. CASE RequestStep(Main)
    BY <1>1, <1>o, MainRequestStepBegins
<1>2. CASE ReporterStep
    BY <1>2, <1>o, ReporterStepBegins
<1>3. CASE MainRequest \/ ApplyConfig \/ AlertSent
    <2>1. /\ place[Main] \in {"idle", "done"} /\ place'[Main] \in {"idle", "connect"}
          /\ resp'[Main] = NewResponse /\ file' = file
        BY <1>3, <1>o, <1>t
        DEF MainRequest, ApplyConfig, AlertSent, At, Request, Finish, Goto, tcpVars
    <2>2. NothingElse'
        BY <2>1 DEF BeginsInv, NothingElse, Answered
    <2>3. AnswerRead'
        BY <2>1, <1>n DEF AnswerRead, Awaited
    <2>4. ConfigBegins'
        <3>1. CASE config' = config
            BY <3>1 DEF BeginsInv, ConfigBegins
        <3>2. CASE ApplyConfig /\ config' # config
            <4>1. job[Main] = "config" /\ config' = resp[Main].body /\ resp[Main].body # <<>>
                BY <3>2 DEF ApplyConfig, ConfigText
            <4> QED
                BY <4>1 DEF BeginsInv, AnswerRead, ConfigBegins
        <3> QED
            BY <1>3, <3>1, <3>2 DEF MainRequest, AlertSent, boardVars
    <2> QED
        BY <1>o, <2>2, <2>3, <2>4 DEF BeginsInv
<1>4. CASE \E d \in Descriptors : PeerStep(d)
    <2>1. MainKept
        BY <1>4, <1>o, PeerStepKeepsMain
    <2> QED
        BY <2>1, <1>4, <1>o, BeginsByOthers
        DEF PeerStep, Accept, Deliver, End, Cut, threadVars, boardVars
<1>5. CASE UNCHANGED vars
    <2>1. MainKept
        BY <1>5 DEF vars, tcpVars, MainKept, Moves
    <2> QED
        BY <2>1, <1>5, <1>o, BeginsByOthers DEF vars, tcpVars, threadVars, boardVars
<1> QED
    BY <1>1, <1>2, <1>3, <1>4, <1>5 DEF Next, MainStep

\* getConfig() and checkServerConfig(): whatever the servers send, however their answers
\* are cut or come by halves, and whatever the other thread does to the descriptors,
\* a configuration that is applied begins one that the server sent.
THEOREM ConfigBeginsHolds == Spec => []ConfigBegins
<1>1. Init => BeginsInv
    <2> SUFFICES ASSUME Init PROVE BeginsInv
        OBVIOUS
    <2>1. OwnInv
        BY OwnAtFirst
    <2>2. NothingElse
        BY DEF Init, NothingElse, Empty, Closed
    <2>3. AnswerRead /\ ConfigBegins
        BY DEF Init, AnswerRead, Awaited, NewResponse, ConfigBegins
    <2> QED
        BY <2>1, <2>2, <2>3 DEF BeginsInv
<1>2. BeginsInv => ConfigBegins
    BY DEF BeginsInv
<1> QED
    BY <1>1, <1>2, BeginsInductive, PTL DEF Spec
=============================================================================
