--------------------------------- MODULE Tcp ---------------------------------
(***************************************************************************)
(* net/Tcp.cpp over the descriptors of the process and the connections of   *)
(* the network.  A Tcp object is a number, fd; the kernel gives socket() the *)
(* lowest number that is free, so a number given back by one thread is the   *)
(* next one another thread gets.                                            *)
(*                                                                          *)
(* What travels is a sequence of pieces: a line of a reply, or an item of its *)
(* body, that arrive in order, one after the other, with any delay.         *)
(***************************************************************************)
EXTENDS Integers, Sequences

CONSTANTS
    Threads,    \* threads of the process that use the network
    Size        \* descriptors the process may have open

ASSUME TcpAssumption == Size \in Nat /\ 0 \notin Threads

Descriptors == 1 .. Size
Nobody == 0

VARIABLES
    file,       \* the descriptor table: for each number what it stands for
    fd          \* Tcp::fd of each thread's connection; 0: none

tcpVars == <<file, fd>>

Closed == [owner |-> Nobody, peer |-> "none", inbox |-> <<>>, coming |-> <<>>]

(***************************************************************************)
(* owner   the thread that opened it                                        *)
(* peer    "none": no connection, "directory", "pending": connect() is under *)
(*         way, "refused", "open", "ended": the other side sends no more     *)
(* inbox   what has arrived and was not read                                 *)
(* coming  what the other side is still to send                             *)
(***************************************************************************)
Files(pieces) ==
    [owner : Threads \cup {Nobody}, peer : {"none", "directory", "pending", "refused", "open", "ended"},
     inbox : Seq(pieces), coming : Seq(pieces)]

Free == {d \in Descriptors : file[d].owner = Nobody}

Lowest(d) == d \in Free /\ \A e \in Free : d <= e

-----------------------------------------------------------------------------
(***************************************************************************)
(* The calls of a thread t.  Each is what changes of the two variables; what  *)
(* a call returns is the guard the caller chooses it by.                     *)
(***************************************************************************)

\* A descriptor is taken from the table.
Take(t, d, peer) ==
    /\ Lowest(d)
    /\ file' = [file EXCEPT ![d] = [Closed EXCEPT !.owner = t, !.peer = peer]]

\* Mutant: the -1 is kept.
SocketFailsKept(t) ==
    /\ Free = {}
    /\ fd' = [fd EXCEPT ![t] = -1]
    /\ UNCHANGED file

\* connectTo(): no descriptor left.
SocketFails(t) ==
    /\ Free = {}
    /\ UNCHANGED tcpVars

\* connect() fails at once (no route, or a name that does not resolve: the
\* address is then 0.0.0.0).  The descriptor stays open, and nobody knows it.
ConnectFails(t) ==
    /\ \E d \in Free : Take(t, d, "none")
    /\ UNCHANGED fd

Connect(t) ==
    \E d \in Free :
        /\ Take(t, d, "pending")
        /\ fd' = [fd EXCEPT ![t] = d]

\* select() returns -1.
SelectFails(t) ==
    /\ fd' = [fd EXCEPT ![t] = 0]
    /\ UNCHANGED file

\* select() returns 0 after ten seconds, and close() comes first ...
SelectTimesOut(t) ==
    /\ file[fd[t]].peer = "pending"
    /\ file' = [file EXCEPT ![fd[t]] = Closed]
    /\ UNCHANGED fd

\* Mutant: the number is kept.
ShutdownKept(t) == UNCHANGED tcpVars

\* ... then shutdown() of the same number: if another thread has got it in the
\* meantime, that thread's connection is cut.
ShutdownClosed(t) ==
    /\ file' = [file EXCEPT
                    ![fd[t]].peer = CASE @ = "open" -> "ended"
                                      [] @ = "pending" -> "refused"
                                      [] OTHER -> @,
                    ![fd[t]].coming = <<>>]
    /\ fd' = [fd EXCEPT ![t] = 0]

\* select() says writable: the connection is made, or refused.
Writable(t) == file[fd[t]].peer # "pending"

\* connected(): recv(MSG_PEEK) does not return 0.  A refused connection makes it
\* return -1, and counts as connected.
IsConnected(t) == file[fd[t]].inbox # <<>> \/ file[fd[t]].peer # "ended"

Available(t) == file[fd[t]].inbox # <<>>

\* Nothing to read, now or later: recv() returns at once, with 0 or -1.
AtEnd(t) == file[fd[t]].inbox = <<>> /\ file[fd[t]].peer \in {"refused", "ended"}

\* A line, by readchar() until its end.
ReadLine(t) ==
    /\ file' = [file EXCEPT ![fd[t]].inbox = Tail(@)]
    /\ UNCHANGED fd

\* readall(): one read(), that returns what has arrived.
ReadAll(t) ==
    /\ file' = [file EXCEPT ![fd[t]].inbox = <<>>]
    /\ UNCHANGED fd

\* stop().
CloseOwn(t) ==
    IF fd[t] = 0
       THEN UNCHANGED tcpVars
       ELSE /\ file' = [file EXCEPT ![fd[t]] = Closed]
            /\ fd' = [fd EXCEPT ![t] = 0]

-----------------------------------------------------------------------------
(***************************************************************************)
(* The other side of descriptor d.                                          *)
(***************************************************************************)

Accept(d) ==
    /\ file[d].peer = "pending"
    /\ \E answer \in {"open", "refused"} : file' = [file EXCEPT ![d].peer = answer]
    /\ UNCHANGED fd

Deliver(d) ==
    /\ file[d].coming # <<>>
    /\ file' = [file EXCEPT ![d].inbox = Append(@, Head(file[d].coming)),
                            ![d].coming = Tail(@)]
    /\ UNCHANGED fd

\* It ends the connection, in the middle of its reply or after it.
End(d) ==
    /\ file[d].peer = "open"
    /\ file' = [file EXCEPT ![d].peer = "ended", ![d].coming = <<>>]
    /\ UNCHANGED fd

\* The same, in the middle of a header line.
Cut(d, header) ==
    /\ file[d].peer = "open"
    /\ file[d].coming # <<>> /\ Head(file[d].coming) = header
    /\ file' = [file EXCEPT ![d].peer = "ended", ![d].coming = <<>>,
                            ![d].inbox = Append(@, "cut")]
    /\ UNCHANGED fd
=============================================================================
