-------------------------------- MODULE Server --------------------------------
(***************************************************************************)
(* The server of RemoteCMD.cpp: serve() accepts connections and starts a   *)
(* thread per connection, which runs ClientConn::handle: a cmd.exe, the    *)
(* relay between it and the socket (ParallelAIOs, here reduced to when it  *)
(* ends), and the cleanup. The objects of the connections live in the      *)
(* vector `clients` and are erased by a later accept.                      *)
(*                                                                         *)
(* cmd.exe inherits every inheritable handle, the other ends of its own    *)
(* pipes among them, so it never sees the end of its input: it ends by     *)
(* itself ("exit" was typed) or is terminated.                             *)
(***************************************************************************)
EXTENDS Integers, FiniteSets

CONSTANTS
    Conns,      \* the connections that clients make in a run
    None        \* no connection

ASSUME NoneIsNoConn == None \notin Conns

VARIABLES
    serve,      \* what serve() does next; or "unwound", "killed"
    current,    \* the ClientConn serve() holds in a local unique_ptr, or None
    clients,    \* the ClientConns in Server::clients
    lastEnded,  \* history: the entries whose thread had ended at the last accept
    backlog,    \* the connections that are not accepted yet
    peer,       \* peer[c]: the client's end of connection c
    session,    \* session[c]: what ClientConn::handle does next
    relaying,   \* relaying[c]: the directions of the relay that still run
    cmd,        \* cmd[c]: the cmd.exe of connection c
    process     \* the server process: "alive" or "gone"

vars == <<serve, current, clients, lastEnded, backlog, peer, session, relaying, cmd, process>>
serveVars == <<serve, current, clients, lastEnded, backlog>>
connVars == <<peer, session, relaying, cmd>>

ServePoints == {"accept", "reap", "spawn", "push", "unwound", "killed"}
Peers == {"none", "open", "closed", "reset"}
SessionPoints ==
    {"none", "setup", "transfers", "relay", "shutdown", "check", "terminate", "wait", "ended"}
Directions == {"in", "out"}

\* An exited cmd.exe whose exit code is STILL_ACTIVE looks like a running one.
Exited == {"exited", "exited259"}
Cmds == {"none", "running", "dying"} \cup Exited

TypeOK ==
    /\ serve \in ServePoints
    /\ current \in Conns \cup {None}
    /\ clients \subseteq Conns /\ lastEnded \subseteq Conns /\ backlog \subseteq Conns
    /\ peer \in [Conns -> Peers]
    /\ session \in [Conns -> SessionPoints]
    /\ relaying \in [Conns -> SUBSET Directions]
    /\ cmd \in [Conns -> Cmds]
    /\ process \in {"alive", "gone"}

Init ==
    /\ serve = "accept" /\ current = None
    /\ clients = {} /\ lastEnded = {} /\ backlog = {}
    /\ peer = [c \in Conns |-> "none"]
    /\ session = [c \in Conns |-> "none"]
    /\ relaying = [c \in Conns |-> {}]
    /\ cmd = [c \in Conns |-> "none"]
    /\ process = "alive"

\* thread_running(): the thread's function has not returned. It returns 0,
\* which is not STILL_ACTIVE.
ThreadRunning(c) == session[c] \notin {"none", "ended"}

\* The ClientConn of c has not been freed.
Owned(c) == c \in clients \/ c = current

-----------------------------------------------------------------------------
\* The clients.

Connect(c) ==
    /\ process = "alive" /\ peer[c] = "none"
    /\ peer' = [peer EXCEPT ![c] = "open"]
    /\ backlog' = backlog \cup {c}
    /\ UNCHANGED <<serve, current, clients, lastEnded, session, relaying, cmd, process>>

\* The client ends the connection, or it breaks.
Disconnect(c) ==
    /\ process = "alive"
    /\ \/ peer[c] = "open" /\ peer' = [peer EXCEPT ![c] = "closed"]
       \/ peer[c] \in {"open", "closed"} /\ peer' = [peer EXCEPT ![c] = "reset"]
    /\ UNCHANGED <<serveVars, session, relaying, cmd, process>>

-----------------------------------------------------------------------------
\* serve(): one round of its loop in four steps.

Serve(at) == process = "alive" /\ serve = at

\* An exception leaves serve(): main (or the worker's thread function) unwinds,
\* which frees every ClientConn.
Unwind ==
    /\ serve' = "unwound" /\ current' = None /\ clients' = {}
    /\ UNCHANGED <<lastEnded, backlog, process>>

\* accept() returns a socket of the backlog, or fails.
Accept ==
    /\ Serve("accept") /\ backlog # {}
    /\ \E c \in backlog : backlog' = backlog \ {c} /\ current' = c
    /\ serve' = "reap"
    /\ lastEnded' = {c \in clients : ~ThreadRunning(c)}
    /\ UNCHANGED <<clients, connVars, process>>

AcceptFails == Serve("accept") /\ Unwind /\ UNCHANGED connVars

\* Mutant: the finished sessions are joined, not looked for.
ReapJoins ==
    /\ Serve("reap") /\ \A c \in clients : ~ThreadRunning(c)
    /\ clients' = {}
    /\ serve' = "spawn"
    /\ UNCHANGED <<current, lastEnded, backlog, connVars, process>>

\* Mutant: the condition of erase_if without its negation.
ReapRunning ==
    /\ Serve("reap")
    /\ clients' = {c \in clients : ~ThreadRunning(c)}
    /\ serve' = "spawn"
    /\ UNCHANGED <<current, lastEnded, backlog, connVars, process>>

\* Mutant: only once the vector has grown.
ReapLazily ==
    /\ Serve("reap")
    /\ clients' = IF Cardinality(clients) < 2 THEN clients
                  ELSE {c \in clients : ThreadRunning(c)}
    /\ serve' = "spawn"
    /\ UNCHANGED <<current, lastEnded, backlog, connVars, process>>

\* erase_if(clients, thread has ended).
Reap ==
    /\ Serve("reap")
    /\ clients' = {c \in clients : ThreadRunning(c)}
    /\ serve' = "spawn"
    /\ UNCHANGED <<current, lastEnded, backlog, connVars, process>>

\* make_unique<ClientConn>, then Thread::create. The thread runs from here on,
\* while its ClientConn is still serve()'s own.
Spawn ==
    /\ Serve("spawn")
    /\ \/ /\ session' = [session EXCEPT ![current] = "setup"]
          /\ serve' = "push"
          /\ UNCHANGED <<current, clients, lastEnded, backlog, process>>
       \/ Unwind /\ UNCHANGED session
    /\ UNCHANGED <<peer, relaying, cmd>>

\* Mutant: the unique_ptr goes out of scope without having been pushed.
PushDrops ==
    /\ Serve("push")
    /\ current' = None /\ serve' = "accept"
    /\ UNCHANGED <<clients, lastEnded, backlog, process, connVars>>

\* push_back; it may have to allocate, and fail.
Push ==
    /\ Serve("push")
    /\ \/ /\ clients' = clients \cup {current} /\ current' = None
          /\ serve' = "accept"
          /\ UNCHANGED <<lastEnded, backlog, process>>
       \/ Unwind
    /\ UNCHANGED connVars

-----------------------------------------------------------------------------
\* ClientConn::handle, in the thread of connection c.

Session(c, at) == process = "alive" /\ session[c] = at
Proceed(c, next) == session' = [session EXCEPT ![c] = next]

\* The catch block prints, and the thread ends.
Caught(c) == Proceed(c, "ended")

\* Two pipes and a process; each may fail.
Setup(c) ==
    /\ Session(c, "setup")
    /\ \/ /\ cmd' = [cmd EXCEPT ![c] = "running"]
          /\ Proceed(c, "transfers")
       \/ Caught(c) /\ UNCHANGED cmd
    /\ UNCHANGED <<serveVars, peer, relaying, process>>

\* The frames of the transfers and an AIOEnv with an event for each. When one
\* cannot be had, the exception leaves cmd.exe running: its end comes later in
\* the try block.
CreateTransfers(c) ==
    /\ Session(c, "transfers")
    /\ \/ /\ relaying' = [relaying EXCEPT ![c] = Directions]
          /\ Proceed(c, "relay")
       \/ Caught(c) /\ UNCHANGED relaying
    /\ UNCHANGED <<serveVars, peer, cmd, process>>

\* The task from the socket ends when the client has closed or is lost; the
\* task to the socket ends when there is output that cannot be sent.
DirectionEnds(c, d) ==
    /\ Session(c, "relay") /\ d \in relaying[c]
    /\ \/ d = "in" /\ peer[c] \in {"closed", "reset"}
       \/ d = "out" /\ peer[c] = "reset" /\ cmd[c] = "running"
    /\ relaying' = [relaying EXCEPT ![c] = @ \ {d}]
    /\ UNCHANGED <<serveVars, peer, session, cmd, process>>

\* Mutant: run() does not look at the event of until().
RelayDoneNever(c) == relaying[c] = {}

\* done(): cmd.exe has exited (until), or both tasks have ended.
RelayDone(c) == cmd[c] \in Exited \/ relaying[c] = {}

RelayEnds(c) ==
    /\ Session(c, "relay") /\ RelayDone(c)
    /\ Proceed(c, "shutdown")
    /\ UNCHANGED <<serveVars, peer, relaying, cmd, process>>

\* socket.shutdown() may fail on a connection the peer has reset.
Shutdown(c) ==
    /\ Session(c, "shutdown")
    /\ \/ Proceed(c, "check")
       \/ peer[c] = "reset" /\ Caught(c)
    /\ UNCHANGED <<serveVars, peer, relaying, cmd, process>>

\* process_running(): the exit code is STILL_ACTIVE.
LooksRunning(c) == cmd[c] \in {"running", "dying", "exited259"}

CheckCmd(c) ==
    /\ Session(c, "check")
    /\ Proceed(c, IF LooksRunning(c) THEN "terminate" ELSE "wait")
    /\ UNCHANGED <<serveVars, peer, relaying, cmd, process>>

\* Mutant: the thread does not wait for the process it terminated.
TerminateOnly(c) ==
    /\ Session(c, "terminate")
    /\ Caught(c)
    /\ IF cmd[c] = "running" THEN cmd' = [cmd EXCEPT ![c] = "dying"] ELSE UNCHANGED cmd
    /\ UNCHANGED <<serveVars, peer, relaying, process>>

\* Mutant: taken for granted that the process still runs.
TerminateRunning(c) ==
    /\ Session(c, "terminate") /\ cmd[c] = "running"
    /\ cmd' = [cmd EXCEPT ![c] = "dying"]
    /\ Proceed(c, "wait")
    /\ UNCHANGED <<serveVars, peer, relaying, process>>

\* TerminateProcess starts the end of a running process, and fails on one
\* that has exited.
TerminateCmd(c) ==
    /\ Session(c, "terminate")
    /\ \/ /\ cmd[c] = "running"
          /\ cmd' = [cmd EXCEPT ![c] = "dying"]
          /\ Proceed(c, "wait")
       \/ /\ cmd[c] \in Exited
          /\ Caught(c)
          /\ UNCHANGED cmd
    /\ UNCHANGED <<serveVars, peer, relaying, process>>

WaitCmd(c) ==
    /\ Session(c, "wait") /\ cmd[c] \in Exited
    /\ Proceed(c, "ended")
    /\ UNCHANGED <<serveVars, peer, relaying, cmd, process>>

-----------------------------------------------------------------------------
\* cmd.exe and the server process. What an orphan does once the server process
\* is gone is not followed.

\* The user types "exit", with any exit code.
CmdExits(c) ==
    /\ process = "alive" /\ cmd[c] = "running"
    /\ \E code \in Exited : cmd' = [cmd EXCEPT ![c] = code]
    /\ UNCHANGED <<serveVars, peer, session, relaying, process>>

CmdDies(c) ==
    /\ process = "alive" /\ cmd[c] = "dying"
    /\ cmd' = [cmd EXCEPT ![c] = "exited"]
    /\ UNCHANGED <<serveVars, peer, session, relaying, process>>

\* Service::init_ terminates the worker thread, which unwinds nothing.
Kill ==
    /\ process = "alive" /\ serve \notin {"unwound", "killed"}
    /\ serve' = "killed"
    /\ UNCHANGED <<current, clients, lastEnded, backlog, connVars, process>>

\* main returns, or std::terminate is called.
Exit ==
    /\ process = "alive" /\ serve \in {"unwound", "killed"}
    /\ process' = "gone"
    /\ UNCHANGED <<serveVars, connVars>>

ServeNext == Accept \/ Reap \/ Spawn \/ Push

SessionNext(c) ==
    \/ Setup(c) \/ CreateTransfers(c) \/ RelayEnds(c) \/ Shutdown(c)
    \/ CheckCmd(c) \/ TerminateCmd(c) \/ WaitCmd(c)

Environment(c) ==
    Connect(c) \/ Disconnect(c) \/ CmdExits(c) \/ \E d \in Directions : DirectionEnds(c, d)

Next ==
    \/ ServeNext \/ AcceptFails \/ Kill \/ Exit
    \/ \E c \in Conns : SessionNext(c) \/ Environment(c) \/ CmdDies(c)

Spec == Init /\ [][Next]_vars

\* Every thread runs on, an unwound or killed server process exits, a
\* terminated process dies. Clients, users and failures need not come.
ServeRuns == WF_vars(ServeNext)
SessionRuns(c) == WF_vars(SessionNext(c))
ProcessEnds == WF_vars(Exit)
CmdEnds(c) == WF_vars(CmdDies(c))

Fairness == ServeRuns /\ ProcessEnds /\ \A c \in Conns : SessionRuns(c) /\ CmdEnds(c)

FairSpec == Spec /\ Fairness

-----------------------------------------------------------------------------
\* Properties.

\* A session's thread never outlives its ClientConn, unless an exception has
\* left serve() (RemoteCMD.cpp:185, 195, 196).
SessionOwnsItsConn ==
    serve # "unwound" => \A c \in Conns : ThreadRunning(c) => Owned(c)

\* The comment at RemoteCMD.cpp:182: a session that had ended by the last accept
\* is not kept, so the vector has grown to no more than the sessions that ran
\* by then, and the one that was accepted.
EndedNotKept ==
    serve \in {"spawn", "push", "accept"} => clients \cap lastEnded = {}

\* Once socket.shutdown() has succeeded, a session does not end while its cmd.exe
\* runs (RemoteCMD.cpp:144-147). Before that the two can part: see
\* CreateTransfers and Shutdown.
NoOrphan ==
    [][\A c \in Conns :
           session[c] \in {"check", "terminate", "wait"} /\ session'[c] = "ended"
               => cmd'[c] \in Exited]_vars

\* Every thread waits for its own business only: serve() for a client and for no
\* session, a session for its cmd.exe and for no client. Once that has exited,
\* the thread can go on at any point, be it in the relay, after a shutdown that
\* failed, or about to terminate a process that is no more
\* (RemoteCMD.cpp:139-147, 185).
WaitsForItsOwn ==
    process = "alive" =>
        /\ serve \in {"reap", "spawn", "push"} \/ (serve = "accept" /\ backlog # {})
               => ENABLED <<ServeNext>>_vars
        /\ \A c \in Conns :
               ThreadRunning(c) /\ cmd[c] \in Exited => ENABLED <<SessionNext(c)>>_vars

\* A session ends once its cmd.exe has, however the client behaves and whatever
\* the exit code is.
SessionEnds ==
    \A c \in Conns : cmd[c] \in Exited ~> session[c] = "ended" \/ process = "gone"

\* A connection gets its session whatever the other sessions do, unless the
\* server goes.
Served ==
    \A c \in Conns : peer[c] # "none" ~> session[c] # "none" \/ process = "gone"

-----------------------------------------------------------------------------
\* The server implements Sessions.

Phase == [c \in Conns |->
    IF session[c] \in {"setup", "transfers"} THEN "opening"
    ELSE IF ThreadRunning(c) THEN "served"
    ELSE IF session[c] = "ended" THEN "over"
    ELSE IF peer[c] = "none" THEN "none" ELSE "waiting"]

Shell == [c \in Conns |->
    IF cmd[c] = "none" THEN "none" ELSE IF cmd[c] \in Exited THEN "over" ELSE "running"]

Mode ==
    IF process = "gone" THEN "closed"
    ELSE IF serve \in {"unwound", "killed"} THEN "closing" ELSE "open"

Promise == INSTANCE Sessions WITH
    phase <- Phase,
    shell <- Shell,
    reset <- {c \in Conns : peer[c] = "reset"},
    held <- {c \in Conns : Owned(c)},
    server <- Mode

\* Threads that are started before their ClientConn is in the vector, a cleanup
\* that waits for the next accept, exceptions that leave a session in the
\* middle: seen from outside, every client goes through waiting, opening, served
\* and over, keeps what it stands on, and leaves no shell behind once it was
\* served, unless its connection was reset (RemoteCMD.cpp:136-142, 185-196).
SessionsSpec == Promise!Spec

=============================================================================
