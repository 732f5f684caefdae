------------------------------- MODULE Session --------------------------------
(***************************************************************************)
(* One session from end to end: the four transfers of a client and of its  *)
(* ClientConn (RemoteCMD.cpp), the connection between them, the two pipes  *)
(* and the cmd.exe behind them.                                            *)
(*                                                                         *)
(*    keyboard -> keys ---> connection -> input -> pipe_in --> cmd.exe     *)
(*    screen <--- screen <- connection <- output <- pipe_out <-/           *)
(*                                                                         *)
(* The transfers are those of Relay, which ParallelAIOs implements; here   *)
(* their sources and destinations are tied together, and each holds a few  *)
(* bytes only. cmd.exe is one thread: it reads, writes its answer, and     *)
(* reads again. Both processes hold on to their handles until run()        *)
(* returns; the session also holds cmd.exe's ends of the pipes, so that    *)
(* neither pipe ever ends.                                                 *)
(***************************************************************************)
EXTENDS Naturals, Sequences

CONSTANTS
    BufSize,    \* buffer of a transfer
    NetSize,    \* bytes under way in each direction of the connection
    PipeSize,   \* bytes in a pipe, those of a write that waits included
    MaxKeys,    \* bound: bytes typed
    MaxAnswer   \* bound: bytes that cmd.exe writes at the start, or for a byte read

ASSUME SessionAssumption ==
    /\ BufSize \in Nat \ {0} /\ NetSize \in Nat \ {0} /\ PipeSize \in Nat \ {0}
    /\ MaxKeys \in Nat /\ MaxAnswer \in Nat

ClientTransfers == {"keys", "screen"}
ServerTransfers == {"input", "output"}
Transfers == ClientTransfers \cup ServerTransfers

VARIABLES
    got, put, status,   \* the transfers, as in Relay
    typed,      \* bytes typed
    read,       \* bytes that cmd.exe has read
    owed,       \* bytes that it writes before it reads again
    written,    \* bytes that it has written
    cmd,        \* "running" or "exited"
    client,     \* Client::run is "running" or "over"
    server,     \* ClientConn::handle is "running" or "over"
    broken      \* the connection was lost

relay == <<got, put, status>>
shell == <<read, owed, written, cmd>>
vars == <<relay, typed, shell, client, server, broken>>

R == INSTANCE Relay WITH Tasks <- Transfers

Init ==
    /\ R!Init
    /\ typed = 0
    /\ read = 0 /\ owed = MaxAnswer /\ written = 0
    /\ cmd = "running" /\ client = "running" /\ server = "running" /\ broken = FALSE

-----------------------------------------------------------------------------
\* How the transfers are tied together.

Running(t) == IF t \in ClientTransfers THEN client = "running" ELSE server = "running"

\* The other end of the connection is closed, or lost.
PeerOver(t) == broken \/ IF t \in ClientTransfers THEN server = "over" ELSE client = "over"

\* What t's source has been given, and what was taken out of t's destination.
Given(t) ==
    CASE t = "keys" -> typed
      [] t = "input" -> Len(put["keys"])
      [] t = "output" -> written
      [] t = "screen" -> Len(put["output"])

Drained(t) ==
    CASE t = "keys" -> got["input"]
      [] t = "input" -> read
      [] t = "output" -> got["screen"]
      [] t = "screen" -> Len(put["screen"])

Size(t) == IF t = "input" THEN PipeSize ELSE NetSize

\* Mutant: the transfers of a process take turns.
MayTakeInTurn(t) ==
    LET other == CHOOSE o \in Transfers \ {t} : (o \in ClientTransfers) = (t \in ClientTransfers)
    IN status[other] = "open" => Len(put[other]) = got[other]

\* run() steps every task whose event is signaled, whatever the others do.
MayTake(t) == TRUE

\* Mutant: a whole buffer is taken, however much was transmitted.
TakeWholeBuffer(t) ==
    /\ Running(t) /\ MayTake(t)
    /\ R!Take(t)
    /\ UNCHANGED <<typed, shell, client, server, broken>>

Take(t) ==
    /\ Running(t) /\ MayTake(t)
    /\ R!Take(t)
    /\ got'[t] <= Given(t)
    /\ UNCHANGED <<typed, shell, client, server, broken>>

\* The screen has room for everything.
Put(t) ==
    /\ Running(t)
    /\ R!Put(t)
    /\ t = "screen" \/ Len(put'[t]) <= Drained(t) + Size(t)
    /\ UNCHANGED <<typed, shell, client, server, broken>>

\* A process that ends its side of the connection with bytes unread, or gets
\* more of them, resets it; so does the loss of the connection.
Reset(t) ==
    LET other == IF t = "screen" THEN "input" ELSE "screen"
    IN broken \/ Given(other) > got[other]

\* Mutant: what was sent before the end is not read any more.
AllTakenAlways(t) == TRUE

AllTaken(t) == got[t] = Given(t)

\* The connection ends for the transfer that reads it: after its last byte, or
\* at once when it was reset.
Close(t) ==
    /\ t \in {"screen", "input"}
    /\ Running(t) /\ PeerOver(t)
    /\ AllTaken(t) \/ Reset(t)
    /\ R!Close(t)
    /\ UNCHANGED <<typed, shell, client, server, broken>>

\* Mutant: a send to a peer that is gone goes on waiting.
MayFailNever(t) == FALSE

\* A send to a peer that is gone fails.
MayFail(t) == t \in {"keys", "output"} /\ PeerOver(t) /\ Len(put[t]) < got[t]

Fail(t) ==
    /\ Running(t) /\ MayFail(t)
    /\ R!Fail(t)
    /\ UNCHANGED <<typed, shell, client, server, broken>>

Transfer(t) == Take(t) \/ Put(t) \/ Close(t) \/ Fail(t)

-----------------------------------------------------------------------------
\* The two processes.

\* Client::run returns when both transfers are over, and the client ends.
ClientEnds ==
    /\ client = "running"
    /\ \A t \in ClientTransfers : status[t] # "open"
    /\ client' = "over"
    /\ UNCHANGED <<relay, typed, shell, server, broken>>

\* The user closes the client.
ClientQuits ==
    /\ client = "running"
    /\ client' = "over"
    /\ UNCHANGED <<relay, typed, shell, server, broken>>

RelayDone == cmd = "exited" \/ \A t \in ServerTransfers : status[t] # "open"

\* Shutdown may fail on a connection that was reset; handle() leaves cmd.exe then.
ShutdownFails ==
    PeerOver("input") /\ (Reset("input") \/ status["output"] = "failed") /\ cmd' = cmd

\* ClientConn::handle after run(): shutdown, the end of cmd.exe, and what is
\* left in the transfers and in the pipes is dropped.
ServerEnds ==
    /\ server = "running" /\ RelayDone
    /\ server' = "over"
    /\ cmd' = "exited" \/ ShutdownFails
    /\ UNCHANGED <<relay, typed, read, owed, written, client, broken>>

\* The network loses the connection.
Breaks ==
    /\ client = "running" \/ server = "running"
    /\ ~broken /\ broken' = TRUE
    /\ UNCHANGED <<relay, typed, shell, client, server>>

-----------------------------------------------------------------------------
\* The user and cmd.exe.

Type ==
    /\ client = "running" /\ typed < MaxKeys
    /\ typed' = typed + 1
    /\ UNCHANGED <<relay, shell, client, server, broken>>

\* What cmd.exe does when its session has left it behind is not followed.
CmdAlive == cmd = "running" /\ server = "running"

\* cmd.exe reads a byte when it owes nothing, and decides on an answer.
CmdReads ==
    /\ CmdAlive /\ owed = 0 /\ read < Len(put["input"])
    /\ read' = read + 1
    /\ owed' \in 0..MaxAnswer
    /\ UNCHANGED <<relay, typed, written, cmd, client, server, broken>>

\* It waits while the pipe is full.
CmdWrites ==
    /\ CmdAlive /\ owed > 0 /\ written < got["output"] + PipeSize
    /\ written' = written + 1 /\ owed' = owed - 1
    /\ UNCHANGED <<relay, typed, read, cmd, client, server, broken>>

\* It was told to exit, and has written its last word.
CmdExits ==
    /\ CmdAlive /\ read > 0 /\ owed = 0
    /\ cmd' = "exited"
    /\ UNCHANGED <<relay, typed, read, owed, written, client, server, broken>>

Next ==
    \/ \E t \in Transfers : Transfer(t)
    \/ ClientEnds \/ ClientQuits \/ ServerEnds \/ Breaks
    \/ Type \/ CmdReads \/ CmdWrites \/ CmdExits

Spec == Init /\ [][Next]_vars

\* Every transfer that can go on does: run() collects what is completed
\* (CompletionCollected of ParallelAIOs). So do cmd.exe and the end of a process.
\* Nobody has to type, to quit or to exit, and no connection has to break.
TransferRuns(t) == WF_vars(Transfer(t))
CmdRuns == WF_vars(CmdReads) /\ WF_vars(CmdWrites)
EndsRun == WF_vars(ClientEnds) /\ WF_vars(ServerEnds)

Fairness == CmdRuns /\ EndsRun /\ \A t \in Transfers : TransferRuns(t)

FairSpec == Spec /\ Fairness

-----------------------------------------------------------------------------
\* Properties.

TypeOK ==
    /\ got \in [Transfers -> Nat]
    /\ put \in [Transfers -> Seq(Nat)]
    /\ status \in [Transfers -> {"open", "closed", "failed"}]
    /\ typed \in 0..MaxKeys
    /\ read \in 0..typed /\ owed \in 0..MaxAnswer /\ written \in Nat
    /\ {cmd, client, server} \subseteq {"running", "exited", "over"}
    /\ broken \in BOOLEAN

Ended == client = "over" \/ cmd = "exited" \/ broken

\* The two directions never wait for each other in a ring, however small the
\* buffers are: what is typed is read by cmd.exe even while it writes, and what
\* it writes is shown even while the user types, unless one of them ends or the
\* connection is lost (RemoteCMD.cpp:91, 136).
NoRing ==
    /\ \A n \in 1..MaxKeys :
          typed >= n ~> read >= n \/ Ended
    /\ \A n \in 1..(MaxKeys + 1) * MaxAnswer :
          written >= n ~> Len(put["screen"]) >= n \/ Ended

\* When cmd.exe exits, what it wrote last may never be sent, since done() looks
\* at the process first; the user who sees the connection end without a reset
\* misses no more than a pipe and a buffer of it (RemoteCMD.cpp:139).
LossBounded ==
    status["screen"] = "closed" /\ ~Reset("screen") =>
        written - Len(put["screen"]) <= PipeSize + BufSize

\* A client and its session are the terminal that the user expects: between
\* cmd.exe and the screen there are a pipe, two buffers and the connection, and
\* nothing else (RemoteCMD.cpp:91, 136).
T == INSTANCE Terminal
    WITH Capacity <- PipeSize + 2 * BufSize + NetSize, MaxLoss <- PipeSize + BufSize,
         shown <- Len(put["screen"]), shell <- cmd, session <- server, user <- client,
         screen <- status["screen"], lost <- broken

TerminalSpec == T!Spec

\* cmd.exe waits for a key that does not come.
CmdIdle == cmd = "running" /\ owed = 0 /\ read = Len(put["input"])

\* cmd.exe waits for room in a pipe that nobody reads any more.
CmdBlocked ==
    /\ cmd = "running" /\ owed > 0 /\ written = got["output"] + PipeSize
    /\ status["output"] = "failed"

\* The user does not touch the keyboard.
UserIdle == got["keys"] = typed

\* A session whose client is gone, a client whose session is gone, and both once
\* the connection is lost, end, or are kept by nothing but a cmd.exe that is
\* idle or whose output has failed, or an idle user: neither waits for the
\* connection (RemoteCMD.cpp:91, 136).
KeptByShellOrUser ==
    /\ client = "over" \/ broken ~> server = "over" \/ CmdIdle \/ CmdBlocked
    /\ server = "over" \/ broken ~> client = "over" \/ UserIdle

=============================================================================
