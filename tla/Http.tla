-------------------------------- MODULE Http --------------------------------
(***************************************************************************)
(* net/HTTPClient.cpp: requests of the main thread (the configuration and    *)
(* the alert) and, in DEBUG builds, of the thread that sends crash reports;  *)
(* and Config::checkServerConfig(), which uses the first of them.           *)
(*                                                                          *)
(* httpRequest() and httpPostFile() are one sequence of calls of Tcp; where   *)
(* the thread is in it is its place.  The servers may refuse, answer, send   *)
(* half an answer, end the connection at any point, or stay silent.         *)
(***************************************************************************)
EXTENDS Tcp

CONSTANTS
    Main, Reporter, \* the two threads
    Reports,        \* crash reports on the board when the thread starts
    Configs         \* what the server may send: sequences of "key:value" items

Keys == {"path", "server", "ntpserver", "sigma", "trace"}

ASSUME HttpAssumption ==
    /\ Threads = {Main, Reporter}
    /\ Main # Reporter
    /\ Configs \subseteq Seq(Keys)
    /\ Reports \cap {"none", "config", "alert"} = {}

VARIABLES
    place,      \* where each thread is
    job,        \* what its request is for: "config", "alert", or a report
    resp,       \* its HTTPResponse
    base,       \* HTTPClient::baseUrl names the server
    config,     \* the items of the configuration that was applied last
    reports,    \* files in WATCHDOG_CRASHDIR
    todo,       \* those readdir() has not returned yet
    received,   \* history: reports the server has, whole
    mode        \* "up" | "crashed" | "upgrading": the process

threadVars == <<place, job, resp>>
boardVars == <<base, config, reports, todo, received, mode>>
vars == <<tcpVars, threadVars, boardVars>>

Pieces == {"200", "500", "junk", "length", "blank", "cut", "seconds"} \cup Keys

Errors == {"HTTP_OK", "HTTP_CONNECTION_TIMEOUT", "HTTP_REQUEST_TIMEOUT",
           "HTTP_MALFORMED_REPLY"}
Places == {"idle", "connect", "select", "shut", "send", "wait", "status", "headers",
           "body", "stop", "done", "new", "gone"}
Responses == [error : Errors, code : {"none", "200", "500"}, length : BOOLEAN,
              body : Seq(Pieces)]

\* new HTTPResponse(): everything zero.
NewResponse == [error |-> "HTTP_OK", code |-> "none", length |-> FALSE, body |-> <<>>]

\* Types.
TypeOK ==
    /\ file \in [Descriptors -> Files(Pieces)]
    /\ fd \in [Threads -> {0} \cup Descriptors]
    /\ place \in [Threads -> Places]
    /\ job \in [Threads -> {"none", "config", "alert"} \cup Reports]
    /\ resp \in [Threads -> Responses]
    /\ base \in BOOLEAN
    /\ config \in Seq(Pieces)
    /\ reports \subseteq Reports /\ todo \subseteq Reports /\ received \subseteq Reports
    /\ mode \in {"up", "crashed", "upgrading"}

Init ==
    /\ file = [d \in Descriptors |-> Closed]
    /\ fd = [t \in Threads |-> 0]
    /\ place = [t \in Threads |-> IF t = Reporter THEN "new" ELSE "idle"]
    /\ job = [t \in Threads |-> "none"]
    /\ resp = [t \in Threads |-> NewResponse]
    /\ base = TRUE
    /\ config = <<>>
    /\ reports = Reports
    /\ todo = Reports
    /\ received = {}
    /\ mode = "up"

-----------------------------------------------------------------------------
(***************************************************************************)
(* A request.                                                               *)
(***************************************************************************)

Goto(t, next) == place' = [place EXCEPT ![t] = next]

At(t, here) == mode = "up" /\ place[t] = here

\* What may come back for a request; a server that has not all of a report does
\* not say 200.
Replies(t, whole) ==
    {<<"500", "blank">>, <<"junk">>} \cup
    CASE job[t] = "config" -> {<<"200", "length", "blank">> \o c : c \in Configs}
                              \cup {<<"200", "blank">>}
      [] job[t] = "alert"  -> {<<"200", "length", "blank", "seconds">>}
      [] OTHER             -> IF whole THEN {<<"200", "blank">>} ELSE {}

\* httpRequest(): new response, new Tcp object, the host of the URL.
Request(t, purpose) ==
    /\ job' = [job EXCEPT ![t] = purpose]
    /\ resp' = [resp EXCEPT ![t] = NewResponse]
    /\ Goto(t, "connect")

Fail(t, error) ==
    /\ resp' = [resp EXCEPT ![t].error = error]
    /\ Goto(t, "stop")

\* connectTo() up to its select().  A base URL without a server resolves to
\* nothing.
ConnectStep(t) ==
    /\ At(t, "connect")
    /\ \/ (SocketFails(t) \/ ConnectFails(t)) /\ Fail(t, "HTTP_CONNECTION_TIMEOUT")
       \/ base /\ Connect(t) /\ Goto(t, "select") /\ UNCHANGED resp
    /\ UNCHANGED <<job, boardVars>>

SelectStep(t) ==
    /\ At(t, "select")
    /\ \/ SelectFails(t) /\ Fail(t, "HTTP_CONNECTION_TIMEOUT")
       \/ SelectTimesOut(t) /\ Goto(t, "shut") /\ UNCHANGED resp
       \/ /\ Writable(t)
          /\ IF IsConnected(t) THEN Goto(t, "send") /\ UNCHANGED resp
                               ELSE Fail(t, "HTTP_CONNECTION_TIMEOUT")
          /\ UNCHANGED tcpVars
    /\ UNCHANGED <<job, boardVars>>

ShutStep(t) ==
    /\ At(t, "shut")
    /\ ShutdownClosed(t)
    /\ Fail(t, "HTTP_CONNECTION_TIMEOUT")
    /\ UNCHANGED <<job, boardVars>>

\* println(), send() and their like; none of them looks at what write() returns.
SendStep(t) ==
    /\ At(t, "send")
    /\ IF file[fd[t]].peer = "open"
          THEN \E whole \in BOOLEAN, reply \in Replies(t, TRUE) :
                  /\ reply \in Replies(t, whole)
                  /\ file' = [file EXCEPT ![fd[t]].coming = reply]
                  /\ received' = IF whole /\ job[t] \in Reports
                                    THEN received \cup {job[t]} ELSE received
          ELSE UNCHANGED <<file, received>>
    /\ Goto(t, "wait")
    /\ UNCHANGED <<fd, job, resp, base, config, reports, todo, mode>>

\* Mutant: the ten seconds are not counted.
WaitStepEndless(t) ==
    /\ At(t, "wait")
    /\ Available(t)
    /\ Goto(t, "status")
    /\ UNCHANGED resp
    /\ UNCHANGED <<tcpVars, job, boardVars>>

\* while (!available() && ten seconds are not over): available() waits for data or
\* the end of the connection, and only at the end the seconds count.
WaitStep(t) ==
    /\ At(t, "wait")
    /\ \/ Available(t) /\ Goto(t, "status") /\ UNCHANGED resp
       \/ AtEnd(t) /\ Fail(t, "HTTP_REQUEST_TIMEOUT")
    /\ UNCHANGED <<tcpVars, job, boardVars>>

StatusStep(t) ==
    /\ At(t, "status")
    /\ Available(t)
    /\ LET line == Head(file[fd[t]].inbox) IN
          IF line \in {"200", "500"}
             THEN /\ resp' = [resp EXCEPT ![t].code = line]
                  /\ Goto(t, "headers")
             ELSE Fail(t, "HTTP_MALFORMED_REPLY")
    /\ ReadLine(t)
    /\ UNCHANGED <<job, boardVars>>

AfterHeaders(t) == Goto(t, IF resp[t].length THEN "body" ELSE "stop")

\* Mutant: getLine() goes on at the end of the connection.
HeaderStepEndless(t) ==
    /\ At(t, "headers")
    /\ Available(t)
    /\ ReadLine(t)
    /\ LET line == Head(file[fd[t]].inbox) IN
          IF line = "blank" THEN AfterHeaders(t) /\ UNCHANGED resp
                            ELSE resp' = [resp EXCEPT ![t].length = TRUE] /\ UNCHANGED place
    /\ UNCHANGED <<job, boardVars>>

\* Mutant: the loop over the headers ends with the one it looks for.
HeaderStepEndsAtLength(t) ==
    /\ At(t, "headers")
    /\ \/ AtEnd(t) /\ AfterHeaders(t) /\ UNCHANGED <<tcpVars, resp>>
       \/ /\ Available(t)
          /\ Head(file[fd[t]].inbox) = "blank"
          /\ ReadLine(t)
          /\ AfterHeaders(t)
          /\ UNCHANGED resp
       \/ /\ Available(t)
          /\ Head(file[fd[t]].inbox) = "length"
          /\ ReadLine(t)
          /\ resp' = [resp EXCEPT ![t].length = TRUE]
          /\ Goto(t, "body")
    /\ UNCHANGED <<job, boardVars>>

\* A header, the empty line after the last one, or the end of the connection.
HeaderStep(t) ==
    /\ At(t, "headers")
    /\ \/ /\ AtEnd(t)
          /\ AfterHeaders(t)
          /\ UNCHANGED <<tcpVars, resp>>
       \/ /\ Available(t)
          /\ Head(file[fd[t]].inbox) = "blank"
          /\ ReadLine(t)
          /\ AfterHeaders(t)
          /\ UNCHANGED resp
       \/ /\ Available(t)
          /\ Head(file[fd[t]].inbox) = "length"
          /\ ReadLine(t)
          /\ resp' = [resp EXCEPT ![t].length = TRUE]
          /\ UNCHANGED place
    /\ UNCHANGED <<job, boardVars>>

\* A header line without a colon: strchr() returns NULL, which is written to.
HeaderCrash(t) ==
    /\ At(t, "headers")
    /\ Available(t)
    /\ Head(file[fd[t]].inbox) = "cut"
    /\ mode' = "crashed"
    /\ UNCHANGED <<tcpVars, threadVars, base, config, reports, todo, received>>

\* readall() of a body whose length is known: once, whatever it returns.
BodyStep(t) ==
    /\ At(t, "body")
    /\ Available(t) \/ AtEnd(t)
    /\ resp' = [resp EXCEPT ![t].body = file[fd[t]].inbox]
    /\ ReadAll(t)
    /\ Goto(t, "stop")
    /\ UNCHANGED <<job, boardVars>>

StopStep(t) ==
    /\ At(t, "stop")
    /\ CloseOwn(t)
    /\ Goto(t, "done")
    /\ UNCHANGED <<job, resp, boardVars>>

\* freeHTTPResponse().
Finish(t) ==
    /\ job' = [job EXCEPT ![t] = "none"]
    /\ resp' = [resp EXCEPT ![t] = NewResponse]
    /\ Goto(t, "idle")

-----------------------------------------------------------------------------
(***************************************************************************)
(* The main thread.                                                         *)
(***************************************************************************)

MainRequest ==
    /\ At(Main, "idle")
    /\ \E purpose \in {"config", "alert"} : Request(Main, purpose)
    /\ UNCHANGED <<tcpVars, boardVars>>

\* getConfig() returns the body of a 200, as a string.
ConfigText ==
    IF resp[Main].error = "HTTP_OK" /\ resp[Main].code = "200" /\ resp[Main].length
       THEN resp[Main].body
       ELSE <<>>

Items(text) == {text[i] : i \in DOMAIN text}

\* checkServerConfig() with what getConfig() returned.  The item "server" is
\* used only if its value is "http://" and nothing more.
ApplyConfig ==
    /\ At(Main, "done")
    /\ job[Main] = "config"
    /\ IF ConfigText = <<>>
          THEN UNCHANGED <<config, base, mode>>
          ELSE /\ config' = ConfigText
               /\ base' = (base /\ "server" \notin Items(ConfigText))
               /\ mode' = IF "path" \in Items(ConfigText) THEN "upgrading" ELSE mode
    /\ Finish(Main)
    /\ UNCHANGED <<tcpVars, reports, todo, received>>

AlertSent ==
    /\ At(Main, "done")
    /\ job[Main] = "alert"
    /\ Finish(Main)
    /\ UNCHANGED <<tcpVars, boardVars>>

-----------------------------------------------------------------------------
(***************************************************************************)
(* sendCrashReportDoWork().                                                 *)
(***************************************************************************)

\* opendir() fails without a directory or a descriptor; the thread ends.
OpenDirectory ==
    /\ At(Reporter, "new")
    /\ \/ /\ \E d \in Free : Take(Reporter, d, "directory")
          /\ Goto(Reporter, "idle")
       \/ Goto(Reporter, "gone") /\ UNCHANGED file
    /\ UNCHANGED <<fd, job, resp, boardVars>>

\* readdir(), getInterfaceMAC(), which loses its socket, and httpPostFile() up to its
\* connectTo(); a file that cannot be read (here: no descriptor for it) is passed over.
NextReport ==
    /\ At(Reporter, "idle")
    /\ \E r \in todo :
          /\ todo' = todo \ {r}
          /\ \/ /\ Free = {}
                /\ UNCHANGED <<file, threadVars>>
             \/ \E d \in Free :
                   /\ Take(Reporter, d, "none")
                   /\ IF Free = {d} THEN UNCHANGED threadVars ELSE Request(Reporter, r)
    /\ UNCHANGED <<fd, base, config, reports, received, mode>>

\* Mutant: any complete answer will do.
ReportSentOnAnswer ==
    /\ At(Reporter, "done")
    /\ reports' = IF resp[Reporter].error = "HTTP_OK"
                     THEN reports \ {job[Reporter]} ELSE reports
    /\ Finish(Reporter)
    /\ UNCHANGED <<tcpVars, base, config, todo, received, mode>>

ReportSent ==
    /\ At(Reporter, "done")
    /\ reports' = IF resp[Reporter].error = "HTTP_OK" /\ resp[Reporter].code = "200"
                     THEN reports \ {job[Reporter]} ELSE reports
    /\ Finish(Reporter)
    /\ UNCHANGED <<tcpVars, base, config, todo, received, mode>>

\* closedir(), pthread_exit().
CloseDirectory ==
    /\ At(Reporter, "idle")
    /\ todo = {}
    /\ \E d \in Descriptors :
          /\ file[d].owner = Reporter /\ file[d].peer = "directory"
          /\ file' = [file EXCEPT ![d] = Closed]
    /\ Goto(Reporter, "gone")
    /\ UNCHANGED <<fd, job, resp, boardVars>>
-----------------------------------------------------------------------------
RequestStep(t) ==
    \/ ConnectStep(t) \/ SelectStep(t) \/ ShutStep(t) \/ SendStep(t) \/ WaitStep(t)
    \/ StatusStep(t) \/ HeaderStep(t) \/ HeaderCrash(t) \/ BodyStep(t) \/ StopStep(t)

MainStep == RequestStep(Main) \/ ApplyConfig \/ AlertSent

ReporterStep ==
    \/ RequestStep(Reporter) \/ OpenDirectory \/ NextReport \/ ReportSent \/ CloseDirectory

\* The servers and the network.
PeerStep(d) ==
    /\ mode = "up"
    /\ Accept(d) \/ Deliver(d) \/ End(d) \/ Cut(d, "length")
    /\ UNCHANGED <<threadVars, boardVars>>

Next ==
    \/ MainRequest
    \/ MainStep
    \/ ReporterStep
    \/ \E d \in Descriptors : PeerStep(d)

Spec == Init /\ [][Next]_vars

\* The processor runs both threads.  Nothing is assumed of the other side.
FairSpec == Spec /\ WF_vars(MainStep) /\ WF_vars(ReporterStep)
-----------------------------------------------------------------------------
(***************************************************************************)
(* Properties.                                                              *)
(***************************************************************************)

\* Tcp.cpp: whatever the other thread opens, closes and times out, the number a Tcp object
\* holds stands for the connection it made: no thread reads another one's
\* answer, and stop() closes nothing but its own.  The one exception is the
\* shutdown() after close() of a connect that timed out.
OwnSocket ==
    \A t \in Threads :
        (fd[t] # 0 /\ place[t] # "shut") => /\ file[fd[t]].owner = t
                                           /\ file[fd[t]].peer # "directory"

\* sendCrashReportDoWork(): however a request fails or is cut, a crash report is
\* on the board until the server has all of it.
ReportKept == Reports \subseteq reports \cup received

\* getConfig(), checkServerConfig(): whatever is late, cut, or read by halves, and whatever the other thread
\* does to the descriptors, what is applied begins a configuration that the
\* server sent: never a header, a line of another answer, or a gap.
Begins(text, whole) == Len(text) <= Len(whole) /\ \A i \in 1 .. Len(text) : text[i] = whole[i]
ConfigBegins == config = <<>> \/ \E c \in Configs : Begins(config, c)

\* The wait and the reads of httpRequest() and httpPostFile() have no timeout of their own.
\* Still only one thing hangs a thread: a server that keeps the connection open
\* and sends nothing.
Silent(t) == place[t] \in {"wait", "headers", "body"} /\ ~Available(t) /\ ~AtEnd(t)
Hangs(t) == <>[]Silent(t)
OnlySilenceHangs ==
    \A t \in Threads :
        []<>(place[t] \in {"idle", "gone"} \/ mode # "up") \/ Hangs(t)

\* httpPostFile() beats for the dog while it waits for ten seconds at a dead connection,
\* whatever the main thread does: it must not do so for ever, or a main thread
\* that hangs would never be found.
Beating == mode = "up" /\ place[Reporter] = "wait" /\ AtEnd(Reporter)
BeatsEnd == <>[]~Beating

\* HTTPClient.h:36 "The config as string (as returned to server)".
ConfigIsWhole == config = <<>> \/ config \in Configs
=============================================================================
