----------------------------- MODULE ServerProofs -----------------------------
(***************************************************************************)
(* Proofs about Server, for any set of connections. Who owns a ClientConn  *)
(* is an agreement between three places: the local of serve(), the vector, *)
(* and the thread. The invariant below adds to the properties what each    *)
(* point of serve() knows of the connection it holds.                      *)
(***************************************************************************)
EXTENDS Server, TLAPS

\* A connection that waits in the backlog has been made, has no session yet,
\* and is not the one serve() holds.
BacklogInv ==
    \A c \in backlog : peer[c] # "none" /\ session[c] = "none" /\ ~Owned(c)

\* A connection nobody has made is nowhere.
FreshInv ==
    \A c \in Conns : peer[c] = "none" => session[c] = "none" /\ ~Owned(c)

\* What serve() holds at each point of its loop.
CurrentInv ==
    /\ serve \in {"accept", "unwound"} => current = None
    /\ serve \in {"reap", "spawn", "push"} => current \in Conns \ (lastEnded \cup clients)
    /\ serve \in {"reap", "spawn"} => session[current] = "none"
    /\ serve = "push" => session[current] # "none"

\* Only sessions that were started are in the vector, and what was seen to have
\* ended stays so.
EntriesInv ==
    /\ \A c \in clients : session[c] # "none"
    /\ \A c \in lastEnded : session[c] = "ended"

IInv ==
    /\ TypeOK /\ BacklogInv /\ FreshInv /\ CurrentInv /\ EntriesInv
    /\ SessionOwnsItsConn /\ EndedNotKept

-----------------------------------------------------------------------------
LEMMA InitInv == Init => IInv
  BY NoneIsNoConn
  DEF Init, IInv, TypeOK, BacklogInv, FreshInv, CurrentInv, EntriesInv, SessionOwnsItsConn,
      EndedNotKept, ThreadRunning, Owned, ServePoints, Peers, SessionPoints, Directions, Cmds

\* A step of a session's thread, or of its cmd.exe, does not touch what serve()
\* has, and never makes a session look as if it had not been started.
LEMMA SessionStep ==
    ASSUME IInv, TypeOK', NEW c \in Conns, ThreadRunning(c),
           NEW next \in SessionPoints \ {"none"}, Proceed(c, next),
           UNCHANGED <<serveVars, peer>>
    PROVE  IInv'
<1> USE DEF IInv, Proceed, serveVars, Owned, ThreadRunning
<1>1. \A d \in Conns : session'[d] = IF d = c THEN next ELSE session[d]
  BY DEF TypeOK
<1>2. BacklogInv' /\ FreshInv'
  BY <1>1 DEF TypeOK, BacklogInv, FreshInv
<1>3. CurrentInv'
  BY <1>1 DEF TypeOK, CurrentInv
<1>4. EntriesInv'
  BY <1>1 DEF TypeOK, EntriesInv
<1>5. SessionOwnsItsConn'
  BY <1>1 DEF SessionOwnsItsConn
<1>6. EndedNotKept'
  BY DEF EndedNotKept
<1>7. QED
  BY <1>2, <1>3, <1>4, <1>5, <1>6

\* What changes neither serve(), the sessions nor the clients changes nothing.
LEMMA QuietStep ==
    ASSUME IInv, TypeOK', UNCHANGED <<serveVars, peer, session>>
    PROVE  IInv'
  BY DEF IInv, serveVars, BacklogInv, FreshInv, CurrentInv, EntriesInv, SessionOwnsItsConn,
         EndedNotKept, ThreadRunning, Owned

\* The exception that leaves serve() empties both places that own a ClientConn.
LEMMA UnwindStep ==
    ASSUME IInv, Unwind, UNCHANGED connVars
    PROVE  IInv'
<1> USE DEF IInv, Unwind, connVars
<1>1. TypeOK'
  BY DEF TypeOK, ServePoints
<1>2. BacklogInv' /\ FreshInv'
  BY NoneIsNoConn DEF TypeOK, BacklogInv, FreshInv, Owned
<1>3. CurrentInv' /\ EntriesInv'
  BY DEF CurrentInv, EntriesInv
<1>4. SessionOwnsItsConn' /\ EndedNotKept'
  BY DEF SessionOwnsItsConn, EndedNotKept
<1>5. QED
  BY <1>1, <1>2, <1>3, <1>4

-----------------------------------------------------------------------------
\* The clients.

LEMMA ConnectStep == ASSUME IInv, NEW c \in Conns, Connect(c) PROVE IInv'
<1> USE DEF IInv, Connect
<1>1. TypeOK'
  BY DEF TypeOK, Peers
<1>2. BacklogInv' /\ FreshInv'
  BY DEF TypeOK, BacklogInv, FreshInv, Owned
<1>3. CurrentInv' /\ EntriesInv' /\ EndedNotKept'
  BY DEF CurrentInv, EntriesInv, EndedNotKept
<1>4. SessionOwnsItsConn'
  BY DEF SessionOwnsItsConn, ThreadRunning, Owned
<1>5. QED
  BY <1>1, <1>2, <1>3, <1>4

LEMMA DisconnectStep == ASSUME IInv, NEW c \in Conns, Disconnect(c) PROVE IInv'
<1> USE DEF IInv, Disconnect, serveVars
<1>1. TypeOK'
  BY DEF TypeOK, Peers
<1>2. BacklogInv' /\ FreshInv'
  BY DEF TypeOK, Peers, BacklogInv, FreshInv, Owned
<1>3. CurrentInv' /\ EntriesInv' /\ EndedNotKept'
  BY DEF CurrentInv, EntriesInv, EndedNotKept
<1>4. SessionOwnsItsConn'
  BY DEF SessionOwnsItsConn, ThreadRunning, Owned
<1>5. QED
  BY <1>1, <1>2, <1>3, <1>4

-----------------------------------------------------------------------------
\* serve().

LEMMA AcceptStep == ASSUME IInv, Accept PROVE IInv'
<1> USE DEF IInv, Accept, Serve, connVars
<1>1. PICK c \in backlog : backlog' = backlog \ {c} /\ current' = c
  OBVIOUS
<1>2. c \in Conns /\ c \notin clients /\ session[c] = "none" /\ current = None
  BY <1>1, NoneIsNoConn DEF TypeOK, BacklogInv, CurrentInv, Owned
<1>3. TypeOK'
  BY <1>1, <1>2 DEF TypeOK, ServePoints
<1>4. BacklogInv' /\ FreshInv'
  BY <1>1, <1>2 DEF TypeOK, BacklogInv, FreshInv, Owned
<1>5. CurrentInv' /\ EntriesInv'
  BY <1>1, <1>2 DEF TypeOK, CurrentInv, EntriesInv, ThreadRunning
<1>6. SessionOwnsItsConn' /\ EndedNotKept'
  BY <1>1, <1>2, NoneIsNoConn DEF SessionOwnsItsConn, EndedNotKept, ThreadRunning, Owned
<1>7. QED
  BY <1>3, <1>4, <1>5, <1>6

\* What erase_if frees has ended, so nothing that still runs loses its ClientConn.
LEMMA ReapStep == ASSUME IInv, Reap PROVE IInv'
<1> USE DEF IInv, Reap, Serve, connVars
<1>1. TypeOK'
  BY DEF TypeOK, ServePoints
<1>2. BacklogInv' /\ FreshInv'
  BY DEF BacklogInv, FreshInv, Owned
<1>3. CurrentInv' /\ EntriesInv'
  BY DEF CurrentInv, EntriesInv
<1>4. SessionOwnsItsConn'
  BY DEF SessionOwnsItsConn, Owned, ThreadRunning
<1>5. EndedNotKept'
  BY DEF EndedNotKept, EntriesInv, ThreadRunning
<1>6. QED
  BY <1>1, <1>2, <1>3, <1>4, <1>5

LEMMA SpawnStep == ASSUME IInv, Spawn PROVE IInv'
<1> USE DEF IInv, Spawn, Serve
<1>1. CASE Unwind /\ UNCHANGED session
  BY <1>1, UnwindStep DEF connVars
<1>2. CASE /\ session' = [session EXCEPT ![current] = "setup"]
           /\ serve' = "push"
           /\ UNCHANGED <<current, clients, lastEnded, backlog, process>>
  <2>1. current \in Conns /\ current \notin lastEnded \cup clients
    BY DEF CurrentInv
  <2>2. \A d \in Conns : session'[d] = IF d = current THEN "setup" ELSE session[d]
    BY <1>2, <2>1 DEF TypeOK
  <2>3. TypeOK'
    BY <1>2, <2>1 DEF TypeOK, ServePoints, SessionPoints
  <2>4. BacklogInv' /\ FreshInv'
    BY <1>2, <2>2 DEF TypeOK, BacklogInv, FreshInv, Owned
  <2>5. CurrentInv'
    BY <1>2, <2>1, <2>2 DEF CurrentInv
  <2>6. EntriesInv'
    BY <1>2, <2>1, <2>2 DEF TypeOK, EntriesInv
  <2>7. SessionOwnsItsConn' /\ EndedNotKept'
    BY <1>2, <2>2 DEF SessionOwnsItsConn, EndedNotKept, ThreadRunning, Owned
  <2>8. QED
    BY <2>3, <2>4, <2>5, <2>6, <2>7
<1>3. QED
  BY <1>1, <1>2

\* The ClientConn changes hands: the vector owns it as the local lets it go.
LEMMA PushStep == ASSUME IInv, Push PROVE IInv'
<1> USE DEF IInv, Push, Serve
<1>1. CASE Unwind
  BY <1>1, UnwindStep
<1>2. CASE /\ clients' = clients \cup {current} /\ current' = None
           /\ serve' = "accept"
           /\ UNCHANGED <<lastEnded, backlog, process>>
  <2>1. current \in Conns \ lastEnded /\ session[current] # "none"
    BY DEF CurrentInv
  <2>2. TypeOK'
    BY <1>2, <2>1 DEF TypeOK, ServePoints, connVars
  <2>3. \A c \in Conns : Owned(c)' <=> Owned(c)
    BY <1>2, NoneIsNoConn DEF Owned
  <2>4. BacklogInv' /\ FreshInv'
    BY <1>2, <2>3 DEF TypeOK, BacklogInv, FreshInv, connVars
  <2>5. CurrentInv' /\ EntriesInv'
    BY <1>2, <2>1 DEF CurrentInv, EntriesInv, connVars
  <2>6. SessionOwnsItsConn'
    BY <1>2, <2>3 DEF SessionOwnsItsConn, ThreadRunning, connVars
  <2>7. EndedNotKept'
    BY <1>2, <2>1 DEF EndedNotKept
  <2>8. QED
    BY <2>2, <2>4, <2>5, <2>6, <2>7
<1>3. QED
  BY <1>1, <1>2

LEMMA ServeStep == ASSUME IInv, ServeNext \/ AcceptFails PROVE IInv'
  BY AcceptStep, ReapStep, SpawnStep, PushStep, UnwindStep DEF ServeNext, AcceptFails

LEMMA KillStep == ASSUME IInv, Kill PROVE IInv'
<1> USE DEF IInv, Kill, connVars
<1>1. TypeOK'
  BY DEF TypeOK, ServePoints
<1>2. BacklogInv' /\ FreshInv'
  BY DEF BacklogInv, FreshInv, Owned
<1>3. CurrentInv' /\ EntriesInv' /\ EndedNotKept'
  BY DEF CurrentInv, EntriesInv, EndedNotKept
<1>4. SessionOwnsItsConn'
  BY DEF SessionOwnsItsConn, ThreadRunning, Owned
<1>5. QED
  BY <1>1, <1>2, <1>3, <1>4

LEMMA ExitStep == ASSUME IInv, Exit PROVE IInv'
<1>1. TypeOK'
  BY DEF IInv, Exit, TypeOK, serveVars, connVars
<1>2. QED
  BY <1>1, QuietStep DEF Exit, connVars

-----------------------------------------------------------------------------
\* The sessions: each step of a session is a SessionStep or a QuietStep.

LEMMA SetupStep == ASSUME IInv, NEW c \in Conns, Setup(c) PROVE IInv'
<1> USE DEF Setup, Session, Caught
<1>1. TypeOK'
  BY DEF IInv, TypeOK, serveVars, Proceed, SessionPoints, Cmds, Directions
<1>2. ThreadRunning(c) /\ UNCHANGED <<serveVars, peer>>
  BY DEF ThreadRunning
<1>3. \E next \in {"transfers", "ended"} : Proceed(c, next)
  OBVIOUS
<1>4. QED
  BY <1>1, <1>2, <1>3, SessionStep DEF SessionPoints

LEMMA CreateTransfersStep == ASSUME IInv, NEW c \in Conns, CreateTransfers(c) PROVE IInv'
<1> USE DEF CreateTransfers, Session, Caught
<1>1. TypeOK'
  BY DEF IInv, TypeOK, serveVars, Proceed, SessionPoints, Directions
<1>2. ThreadRunning(c) /\ UNCHANGED <<serveVars, peer>>
  BY DEF ThreadRunning
<1>3. \E next \in {"relay", "ended"} : Proceed(c, next)
  OBVIOUS
<1>4. QED
  BY <1>1, <1>2, <1>3, SessionStep DEF SessionPoints

LEMMA SessionNextStep == ASSUME IInv, NEW c \in Conns, SessionNext(c) PROVE IInv'
<1> USE DEF Session, Caught
<1>1. CASE Setup(c) \/ CreateTransfers(c)
  BY <1>1, SetupStep, CreateTransfersStep
<1>2. CASE RelayEnds(c) \/ Shutdown(c) \/ CheckCmd(c) \/ TerminateCmd(c) \/ WaitCmd(c)
  <2>1. \E next \in SessionPoints \ {"none"} : Proceed(c, next)
    BY <1>2 DEF RelayEnds, Shutdown, CheckCmd, TerminateCmd, WaitCmd, SessionPoints
  <2>2. ThreadRunning(c) /\ UNCHANGED <<serveVars, peer, relaying, process>>
    BY <1>2 DEF RelayEnds, Shutdown, CheckCmd, TerminateCmd, WaitCmd, ThreadRunning
  <2>3. cmd' = cmd \/ cmd' = [cmd EXCEPT ![c] = "dying"]
    BY <1>2 DEF RelayEnds, Shutdown, CheckCmd, TerminateCmd, WaitCmd
  <2>4. TypeOK'
    BY <2>1, <2>2, <2>3 DEF IInv, TypeOK, serveVars, Proceed, Cmds
  <2>5. QED
    BY <2>1, <2>2, <2>4, SessionStep
<1>3. QED
  BY <1>1, <1>2 DEF SessionNext

LEMMA EnvironmentStep == ASSUME IInv, NEW c \in Conns, Environment(c) \/ CmdDies(c) PROVE IInv'
<1>1. CASE Connect(c)
  BY <1>1, ConnectStep
<1>2. CASE Disconnect(c)
  BY <1>2, DisconnectStep
<1>3. CASE CmdExits(c) \/ CmdDies(c)
  <2>1. TypeOK'
    BY <1>3 DEF CmdExits, CmdDies, IInv, TypeOK, serveVars, Cmds, Exited
  <2>2. QED
    BY <1>3, <2>1, QuietStep DEF CmdExits, CmdDies
<1>4. CASE \E d \in Directions : DirectionEnds(c, d)
  <2>1. TypeOK'
    BY <1>4 DEF DirectionEnds, IInv, TypeOK, serveVars
  <2>2. QED
    BY <1>4, <2>1, QuietStep DEF DirectionEnds
<1>5. QED
  BY <1>1, <1>2, <1>3, <1>4 DEF Environment

LEMMA NextInv == IInv /\ [Next]_vars => IInv'
<1>1. ASSUME IInv, Next PROVE IInv'
  BY <1>1, ServeStep, KillStep, ExitStep, SessionNextStep, EnvironmentStep DEF Next
<1>2. ASSUME IInv, UNCHANGED vars PROVE IInv'
  <2>1. TypeOK'
    BY <1>2 DEF vars, IInv, TypeOK
  <2>2. QED
    BY <1>2, <2>1, QuietStep DEF vars, serveVars
<1>3. QED
  BY <1>1, <1>2

\* The inductive invariant holds of every behaviour of the server.
THEOREM Invariance == Spec => []IInv
  BY InitInv, NextInv, PTL DEF Spec

\* Every variable keeps its type, for any set of connections.
THEOREM TypeCorrect == Spec => []TypeOK
  BY Invariance, PTL DEF IInv

\* A session's thread never outlives the ClientConn it works on, however the
\* accept loop, the sessions and their clients interleave; only an exception
\* that leaves serve() can take it away (RemoteCMD.cpp:185-196).
THEOREM SessionOwnsItsConnThm == Spec => []SessionOwnsItsConn
  BY Invariance, PTL DEF IInv

\* Cleaning up at the next accept only, as RemoteCMD.cpp:182 argues, lets no
\* session that had ended by then stay in the vector.
THEOREM EndedNotKeptThm == Spec => []EndedNotKept
  BY Invariance, PTL DEF IInv

-----------------------------------------------------------------------------
\* A session that got past socket.shutdown() ends in two places only, and both
\* are reached with a cmd.exe that has exited (RemoteCMD.cpp:144-147).
THEOREM NoOrphanThm == Spec => NoOrphan
<1> DEFINE Leaves(c) ==
      session[c] \in {"check", "terminate", "wait"} /\ session'[c] = "ended"
<1>1. ASSUME TypeOK, [Next]_vars, NEW c \in Conns, Leaves(c) PROVE cmd'[c] \in Exited
  <2>1. CASE UNCHANGED session
    BY <1>1, <2>1
  <2>2. CASE ServeNext
    <3>1. session[c] \notin {"check", "terminate", "wait"} \/ session'[c] = session[c]
                                                           \/ session'[c] = "setup"
      BY <1>1, <2>2 DEF ServeNext, Accept, Reap, Spawn, Push, connVars, TypeOK
    <3>2. QED
      BY <1>1, <3>1
  <2>3. CASE \E d \in Conns : SessionNext(d)
    <3>1. PICK d \in Conns : SessionNext(d)
      BY <2>3
    <3>2. \E next \in SessionPoints : Proceed(d, next)
      BY <3>1 DEF SessionNext, Setup, CreateTransfers, RelayEnds, Shutdown, CheckCmd,
                  TerminateCmd, WaitCmd,
                  Caught, SessionPoints
    <3>3. d = c
      BY <1>1, <3>2 DEF TypeOK, Proceed
    <3>4. TerminateCmd(c) \/ WaitCmd(c)
      BY <1>1, <3>1, <3>3
      DEF SessionNext, Setup, CreateTransfers, RelayEnds, Shutdown, CheckCmd, Session, Proceed,
          TypeOK
    <3>5. QED
      BY <1>1, <3>4 DEF TerminateCmd, WaitCmd, Session, Proceed, TypeOK
  <2>4. QED
    BY <1>1, <2>1, <2>2, <2>3
    DEF vars, connVars, Next, AcceptFails, Kill, Exit, Environment, Connect, Disconnect, CmdExits,
        CmdDies, DirectionEnds
<1>2. TypeOK /\ [Next]_vars => [\A c \in Conns : Leaves(c) => cmd'[c] \in Exited]_vars
  BY <1>1
<1>3. QED
  BY <1>2, TypeCorrect, PTL DEF Spec, NoOrphan

-----------------------------------------------------------------------------
\* The server implements Sessions.

\* A shell exists once its session has been set up, and not before.
CmdInv ==
    \A c \in Conns :
        /\ session[c] \in {"none", "setup"} => cmd[c] = "none"
        /\ session[c] = "transfers" => cmd[c] # "none"

LEMMA CmdInvStep ==
    ASSUME IInv, CmdInv, [Next]_vars
    PROVE  CmdInv'
<1> SUFFICES ASSUME NEW c \in Conns
             PROVE  /\ session'[c] \in {"none", "setup"} => cmd'[c] = "none"
                    /\ session'[c] = "transfers" => cmd'[c] # "none"
  BY DEF CmdInv
<1>1. CASE Spawn
  <2>1. session'[c] = session[c] \/ (session[c] \in {"none", "setup"} /\ session'[c] = "setup")
    BY <1>1 DEF Spawn, IInv, TypeOK, CurrentInv, Serve
  <2>2. QED
    BY <1>1, <2>1 DEF Spawn, CmdInv
<1>2. CASE \E d \in Conns : SessionNext(d)
  <2>1. PICK d \in Conns : SessionNext(d)
    BY <1>2
  <2>2. CASE Setup(d)
    BY <2>2 DEF Setup, Caught, Proceed, CmdInv, IInv, TypeOK
  <2>3. CASE ~Setup(d)
    <3>1. \E next \in SessionPoints \ {"none", "setup", "transfers"} : Proceed(d, next)
      BY <2>1, <2>3
      DEF SessionNext, CreateTransfers, RelayEnds, Shutdown, CheckCmd, TerminateCmd, WaitCmd,
          Caught, SessionPoints
    <3>2. c # d => session'[c] = session[c] /\ cmd'[c] = cmd[c]
      BY <2>1, <2>3, <3>1
      DEF SessionNext, CreateTransfers, RelayEnds, Shutdown, CheckCmd, TerminateCmd, WaitCmd,
          Proceed, IInv, TypeOK
    <3>3. session'[d] \notin {"none", "setup", "transfers"}
      BY <3>1 DEF Proceed, IInv, TypeOK
    <3>4. QED
      BY <3>2, <3>3 DEF CmdInv
  <2>4. QED
    BY <2>2, <2>3
<1>3. CASE \E d \in Conns : CmdExits(d) \/ CmdDies(d)
  <2>1. PICK d \in Conns : CmdExits(d) \/ CmdDies(d)
    BY <1>3
  <2>2. session' = session /\ cmd[d] # "none"
    BY <2>1 DEF CmdExits, CmdDies
  <2>3. cmd'[d] # "none" /\ \A e \in Conns \ {d} : cmd'[e] = cmd[e]
    BY <2>1 DEF CmdExits, CmdDies, Exited, IInv, TypeOK
  <2>4. QED
    BY <2>2, <2>3 DEF CmdInv
<1>4. CASE UNCHANGED <<session, cmd>>
  BY <1>4 DEF CmdInv
<1>5. QED
  BY <1>1, <1>2, <1>3, <1>4
  DEF Next, ServeNext, Accept, Reap, Push, AcceptFails, Kill, Exit, Environment, Connect,
      Disconnect, DirectionEnds, vars, connVars

RInv == IInv /\ CmdInv

LEMMA RInvariance == Spec => []RInv
<1>1. Init => CmdInv
  BY DEF Init, CmdInv
<1>2. IInv /\ CmdInv /\ [Next]_vars => CmdInv'
  BY CmdInvStep
<1>3. QED
  BY <1>1, <1>2, Invariance, PTL DEF Spec, RInv

\* What Sessions calls held and reset.
Held == {c \in Conns : Owned(c)}
Lost == {c \in Conns : peer[c] = "reset"}

\* The abstract state changes at a connection as the connection does.
LEMMA PhaseMoves ==
    ASSUME NEW c \in Conns,
           \A d \in Conns \ {c} : session'[d] = session[d] /\ peer'[d] = peer[d]
    PROVE  Phase' = [Phase EXCEPT ![c] = Phase'[c]]
<1>1. \A d \in Conns \ {c} : Phase'[d] = Phase[d]
  BY DEF Phase, ThreadRunning
<1>2. /\ Phase \in [Conns -> {"none", "waiting", "opening", "served", "over"}]
      /\ Phase' \in [Conns -> {"none", "waiting", "opening", "served", "over"}]
  BY DEF Phase
<1>3. QED
  BY <1>1, <1>2

LEMMA PhaseStays ==
    ASSUME \A d \in Conns :
             /\ ThreadRunning(d)' = ThreadRunning(d)
             /\ (session'[d] = "ended") = (session[d] = "ended")
             /\ (session'[d] \in {"setup", "transfers"}) = (session[d] \in {"setup", "transfers"})
             /\ (peer'[d] = "none") = (peer[d] = "none")
    PROVE  Phase' = Phase
<1>1. \A d \in Conns : Phase'[d] = Phase[d]
  BY DEF Phase
<1>2. /\ Phase \in [Conns -> {"none", "waiting", "opening", "served", "over"}]
      /\ Phase' \in [Conns -> {"none", "waiting", "opening", "served", "over"}]
  BY DEF Phase
<1>3. QED
  BY <1>1, <1>2

LEMMA ShellMoves ==
    ASSUME NEW c \in Conns, \A d \in Conns \ {c} : cmd'[d] = cmd[d]
    PROVE  Shell' = [Shell EXCEPT ![c] = Shell'[c]]
<1>1. \A d \in Conns \ {c} : Shell'[d] = Shell[d]
  BY DEF Shell
<1>2. /\ Shell \in [Conns -> {"none", "running", "over"}]
      /\ Shell' \in [Conns -> {"none", "running", "over"}]
  BY DEF Shell
<1>3. QED
  BY <1>1, <1>2

-----------------------------------------------------------------------------
\* Each step of the server is a step of Sessions, or a stutter.

Abstract == <<Phase, Shell, Lost, Held, Mode>>

\* What serve() does between accept() and push_back().
LEMMA AcceptRefines == ASSUME RInv, Accept PROVE \E c \in Conns : Promise!Admit(c)
<1>1. PICK c \in backlog : current' = c /\ backlog' = backlog \ {c}
  BY DEF Accept
<1>2. c \in Conns /\ session[c] = "none" /\ peer[c] # "none" /\ current = None
  BY <1>1 DEF RInv, IInv, TypeOK, BacklogInv, CurrentInv, Accept, Serve
<1>3. /\ UNCHANGED <<session, peer, cmd, clients, process>>
      /\ serve = "accept" /\ serve' = "reap" /\ process = "alive"
  BY DEF Accept, Serve, connVars
<1>4. Phase[c] = "waiting" /\ Mode = "open" /\ Mode' = "open"
  BY <1>2, <1>3 DEF Phase, ThreadRunning, Mode
<1>5. UNCHANGED <<Phase, Shell, Lost>>
  BY <1>3 DEF Phase, ThreadRunning, Shell, Lost
<1>6. \A d \in Held : Phase[d] # "waiting"
  BY <1>2, NoneIsNoConn DEF Held, Owned, Phase, ThreadRunning, RInv, IInv, EntriesInv
<1>7. Held' = Held \cup {c}
  BY <1>1, <1>2, <1>3, NoneIsNoConn DEF Held, Owned
<1>8. QED
  BY <1>2, <1>4, <1>5, <1>6, <1>7 DEF Promise!Admit, Held, Lost

LEMMA ReapRefines == ASSUME RInv, Reap PROVE Promise!Release
<1>1. /\ UNCHANGED <<session, peer, cmd, current, process>>
      /\ serve = "reap" /\ serve' = "spawn" /\ process = "alive"
  BY DEF Reap, Serve, connVars
<1>2. Mode = "open" /\ Mode' = "open" /\ UNCHANGED <<Phase, Shell, Lost>>
  BY <1>1 DEF Phase, ThreadRunning, Shell, Lost, Mode
<1>3. current \in Conns /\ session[current] = "none"
  BY <1>1 DEF RInv, IInv, CurrentInv
<1>4. \A d \in Conns : d \in Held' <=> d \in Held /\ Phase[d] # "over"
  <2>1. SUFFICES ASSUME NEW d \in Conns PROVE d \in Held' <=> d \in Held /\ Phase[d] # "over"
    OBVIOUS
  <2>2. Phase[d] = "over" <=> session[d] = "ended"
    BY DEF Phase, ThreadRunning
  <2>3. d \in clients => session[d] # "none"
    BY DEF RInv, IInv, EntriesInv
  <2>4. d \in Held' <=> (d \in clients /\ ThreadRunning(d)) \/ d = current
    BY <1>1 DEF Held, Owned, Reap
  <2>5. QED
    BY <1>3, <2>2, <2>3, <2>4 DEF Held, Owned, ThreadRunning
<1>5. Held' = {d \in Held : Phase[d] # "over"}
  BY <1>4 DEF Held
<1>6. QED
  BY <1>2, <1>5 DEF Promise!Release, Held, Lost

\* An exception that leaves serve().
LEMMA UnwindRefines ==
    ASSUME RInv, Unwind, UNCHANGED connVars, process = "alive", serve \notin {"unwound", "killed"}
    PROVE  Promise!Close
<1>1. Mode = "open" /\ Mode' = "closing"
  BY DEF Mode, Unwind
<1>2. Held' = {}
  BY NoneIsNoConn DEF Held, Owned, Unwind
<1>3. UNCHANGED <<Phase, Shell, Lost>>
  BY DEF Phase, ThreadRunning, Shell, Lost, connVars
<1>4. QED
  BY <1>1, <1>2, <1>3 DEF Promise!Close, Held, Lost

LEMMA SpawnRefines == ASSUME RInv, Spawn PROVE Promise!Start(current) \/ Promise!Close
<1>1. serve = "spawn" /\ process = "alive" /\ UNCHANGED <<peer, relaying, cmd>>
  BY DEF Spawn, Serve
<1>2. CASE Unwind /\ UNCHANGED session
  BY <1>1, <1>2, UnwindRefines DEF connVars
<1>3. CASE /\ session' = [session EXCEPT ![current] = "setup"]
           /\ serve' = "push"
           /\ UNCHANGED <<current, clients, lastEnded, backlog, process>>
  <2>1. current \in Conns /\ session[current] = "none" /\ current \in Held
    BY <1>1 DEF RInv, IInv, CurrentInv, Held, Owned
  <2>2. peer[current] # "none"
    BY <2>1 DEF RInv, IInv, FreshInv, Held
  <2>3. session'[current] = "setup" /\ \A d \in Conns \ {current} : session'[d] = session[d]
    BY <1>3, <2>1 DEF RInv, IInv, TypeOK
  <2>4. Phase[current] = "waiting" /\ Phase'[current] = "opening"
    BY <2>1, <2>2, <2>3 DEF Phase, ThreadRunning
  <2>5. Phase' = [Phase EXCEPT ![current] = "opening"]
    BY <1>1, <2>1, <2>3, <2>4, PhaseMoves
  <2>6. UNCHANGED <<Shell, Lost, Held, Mode>> /\ Mode = "open"
    BY <1>1, <1>3 DEF Shell, Lost, Held, Owned, Mode
  <2>7. QED
    BY <2>1, <2>4, <2>5, <2>6 DEF Promise!Start, Held, Lost
<1>4. QED
  BY <1>2, <1>3 DEF Spawn

LEMMA PushRefines == ASSUME RInv, Push PROVE Promise!Close \/ UNCHANGED Abstract
<1>1. serve = "push" /\ process = "alive" /\ UNCHANGED connVars
  BY DEF Push, Serve
<1>2. CASE Unwind
  BY <1>1, <1>2, UnwindRefines
<1>3. CASE /\ clients' = clients \cup {current} /\ current' = None
           /\ serve' = "accept"
           /\ UNCHANGED <<lastEnded, backlog, process>>
  <2>1. UNCHANGED <<Phase, Shell, Lost, Mode>>
    BY <1>1, <1>3 DEF Phase, ThreadRunning, Shell, Lost, Mode, connVars
  <2>2. Held' = Held
    BY <1>3, NoneIsNoConn DEF Held, Owned
  <2>3. QED
    BY <2>1, <2>2 DEF Abstract
<1>4. QED
  BY <1>2, <1>3 DEF Push

LEMMA ServeRefines ==
    ASSUME RInv, ServeNext \/ AcceptFails \/ Kill \/ Exit
    PROVE  Promise!Next \/ UNCHANGED Abstract
<1>1. CASE Accept
  BY <1>1, AcceptRefines DEF Promise!Next
<1>2. CASE Reap
  BY <1>2, ReapRefines DEF Promise!Next
<1>3. CASE Spawn
  <2>1. current \in Conns
    BY <1>3 DEF Spawn, Serve, RInv, IInv, CurrentInv
  <2>2. QED
    BY <1>3, <2>1, SpawnRefines DEF Promise!Next
<1>4. CASE Push
  BY <1>4, PushRefines DEF Promise!Next
<1>5. CASE AcceptFails
  BY <1>5, UnwindRefines DEF AcceptFails, Serve, Promise!Next
<1>6. CASE Kill
  <2>1. Mode = "open" /\ Mode' = "closing" /\ UNCHANGED <<Phase, Shell, Lost, Held>>
    BY <1>6 DEF Kill, Mode, Phase, ThreadRunning, Shell, Lost, Held, Owned, connVars
  <2>2. QED
    BY <2>1 DEF Promise!Next, Promise!Close, Held, Lost
<1>7. CASE Exit
  <2>1. Mode = "closing" /\ Mode' = "closed" /\ UNCHANGED <<Phase, Shell, Lost, Held>>
    BY <1>7 DEF Exit, Mode, Phase, ThreadRunning, Shell, Lost, Held, Owned, connVars, serveVars
  <2>2. QED
    BY <2>1 DEF Promise!Next, Promise!End, Held, Lost
<1>8. QED
  BY <1>1, <1>2, <1>3, <1>4, <1>5, <1>6, <1>7 DEF ServeNext

\* The clients.
LEMMA ConnectRefines == ASSUME RInv, NEW c \in Conns, Connect(c) PROVE Promise!Arrive(c)
<1>1. /\ peer[c] = "none" /\ peer'[c] = "open" /\ \A d \in Conns \ {c} : peer'[d] = peer[d]
      /\ process = "alive" /\ UNCHANGED <<serve, current, clients, session, cmd, process>>
  BY DEF Connect, RInv, IInv, TypeOK
<1>2. session[c] = "none"
  BY <1>1 DEF RInv, IInv, FreshInv
<1>3. Phase[c] = "none" /\ Phase'[c] = "waiting"
  BY <1>1, <1>2 DEF Phase, ThreadRunning
<1>4. Phase' = [Phase EXCEPT ![c] = "waiting"]
  BY <1>1, <1>3, PhaseMoves
<1>5. UNCHANGED <<Shell, Lost, Held, Mode>> /\ Mode # "closed"
  BY <1>1 DEF Shell, Lost, Held, Owned, Mode
<1>6. QED
  BY <1>3, <1>4, <1>5 DEF Promise!Arrive, Held, Lost

LEMMA DisconnectRefines ==
    ASSUME RInv, NEW c \in Conns, Disconnect(c)
    PROVE  Promise!Reset(c) \/ UNCHANGED Abstract
<1>1. /\ peer[c] \in {"open", "closed"} /\ peer'[c] \in {"closed", "reset"}
      /\ \A d \in Conns \ {c} : peer'[d] = peer[d]
      /\ process = "alive" /\ UNCHANGED <<serve, current, clients, session, cmd, process>>
  BY DEF Disconnect, serveVars, RInv, IInv, TypeOK
<1>2. Phase' = Phase
  BY <1>1, PhaseStays DEF ThreadRunning
<1>3. Phase[c] # "none"
  BY <1>1 DEF Phase
<1>4. UNCHANGED <<Shell, Held, Mode>> /\ Mode # "closed"
  BY <1>1 DEF Shell, Held, Owned, Mode
<1>5. Lost' = IF peer'[c] = "reset" THEN Lost \cup {c} ELSE Lost
  BY <1>1 DEF Lost
<1>6. QED
  BY <1>2, <1>3, <1>4, <1>5 DEF Promise!Reset, Abstract, Held, Lost

\* A session that is being opened; one that relays, or comes to its end.
Opening(c) == session[c] \in {"setup", "transfers"}
Serving(c) == ThreadRunning(c) /\ ~Opening(c)

\* A session that could not be opened.
LEMMA AbandonRefines ==
    ASSUME RInv, NEW c \in Conns, process = "alive", Opening(c), Proceed(c, "ended"),
           UNCHANGED <<serveVars, peer, cmd, process>>
    PROVE  Promise!Abandon(c)
<1>1. session'[c] = "ended" /\ \A d \in Conns \ {c} : session'[d] = session[d]
  BY DEF Proceed, RInv, IInv, TypeOK
<1>2. Phase[c] = "opening" /\ Phase'[c] = "over"
  BY <1>1 DEF Phase, ThreadRunning, Opening
<1>3. Phase' = [Phase EXCEPT ![c] = "over"]
  BY <1>1, <1>2, PhaseMoves
<1>4. UNCHANGED <<Shell, Lost, Held, Mode>> /\ Mode # "closed"
  BY DEF Shell, Lost, Held, Owned, Mode, serveVars
<1>5. QED
  BY <1>2, <1>3, <1>4 DEF Promise!Abandon, Held, Lost

\* A session that ends without a running shell, or over a lost connection.
LEMMA EndRefines ==
    ASSUME RInv, NEW c \in Conns, process = "alive", Serving(c), Proceed(c, "ended"),
           UNCHANGED <<serveVars, peer, cmd, process>>,
           cmd[c] \notin {"running", "dying"} \/ peer[c] = "reset"
    PROVE  Promise!Finish(c)
<1>1. session'[c] = "ended" /\ \A d \in Conns \ {c} : session'[d] = session[d]
  BY DEF Proceed, RInv, IInv, TypeOK
<1>2. Phase[c] = "served" /\ Phase'[c] = "over"
  BY <1>1 DEF Phase, ThreadRunning, Serving, Opening
<1>3. Phase' = [Phase EXCEPT ![c] = "over"]
  BY <1>1, <1>2, PhaseMoves
<1>4. Shell[c] # "running" \/ c \in Lost
  BY DEF Shell, Lost, RInv, IInv, TypeOK, Cmds
<1>5. UNCHANGED <<Shell, Lost, Held, Mode>> /\ Mode # "closed"
  BY DEF Shell, Lost, Held, Owned, Mode, serveVars
<1>6. QED
  BY <1>2, <1>3, <1>4, <1>5 DEF Promise!Finish, Held, Lost

\* A session that goes on.
LEMMA GoesOn ==
    ASSUME RInv, NEW c \in Conns, Serving(c), NEW next \in {"shutdown", "check", "terminate", "wait"},
           Proceed(c, next), UNCHANGED <<serveVars, peer, process>>
    PROVE  UNCHANGED <<Phase, Lost, Held, Mode>>
<1>1. session'[c] = next /\ \A d \in Conns \ {c} : session'[d] = session[d]
  BY DEF Proceed, RInv, IInv, TypeOK
<1>2. Phase' = Phase
  BY <1>1, PhaseStays DEF ThreadRunning, Serving, Opening
<1>3. QED
  BY <1>2 DEF Lost, Held, Owned, Mode, serveVars

LEMMA SetupRefines ==
    ASSUME RInv, NEW c \in Conns, Setup(c)
    PROVE  Promise!OpenShell(c) \/ Promise!Abandon(c)
<1>1. /\ session[c] = "setup" /\ process = "alive" /\ Opening(c) /\ cmd[c] = "none"
      /\ UNCHANGED <<serveVars, peer, process>>
  BY DEF Setup, Session, Opening, RInv, CmdInv
<1>2. CASE cmd' = [cmd EXCEPT ![c] = "running"] /\ Proceed(c, "transfers")
  <2>1. UNCHANGED <<Phase, Lost, Held, Mode>>
    <3>1. session'[c] = "transfers" /\ \A d \in Conns \ {c} : session'[d] = session[d]
      BY <1>2 DEF Proceed, RInv, IInv, TypeOK
    <3>2. Phase' = Phase
      BY <1>1, <3>1, PhaseStays DEF ThreadRunning
    <3>3. QED
      BY <1>1, <3>2 DEF Lost, Held, Owned, Mode, serveVars
  <2>2. cmd'[c] = "running" /\ \A d \in Conns \ {c} : cmd'[d] = cmd[d]
    BY <1>2 DEF RInv, IInv, TypeOK
  <2>3. Shell[c] = "none" /\ Shell'[c] = "running"
    BY <1>1, <2>2 DEF Shell, Exited
  <2>4. Shell' = [Shell EXCEPT ![c] = "running"]
    BY <2>2, <2>3, ShellMoves
  <2>5. Phase[c] = "opening" /\ Mode # "closed"
    BY <1>1 DEF Phase, Mode
  <2>6. QED
    BY <2>1, <2>3, <2>4, <2>5 DEF Promise!OpenShell, Held, Lost
<1>3. CASE Caught(c) /\ UNCHANGED cmd
  BY <1>1, <1>3, AbandonRefines DEF Caught
<1>4. QED
  BY <1>2, <1>3 DEF Setup

LEMMA CreateTransfersRefines ==
    ASSUME RInv, NEW c \in Conns, CreateTransfers(c)
    PROVE  Promise!Serve(c) \/ Promise!Abandon(c)
<1>1. /\ session[c] = "transfers" /\ process = "alive" /\ Opening(c) /\ cmd[c] # "none"
      /\ UNCHANGED <<serveVars, peer, cmd, process>>
  BY DEF CreateTransfers, Session, Opening, RInv, CmdInv
<1>2. CASE Proceed(c, "relay")
  <2>1. session'[c] = "relay" /\ \A d \in Conns \ {c} : session'[d] = session[d]
    BY <1>2 DEF Proceed, RInv, IInv, TypeOK
  <2>2. Phase[c] = "opening" /\ Phase'[c] = "served" /\ Shell[c] # "none"
    BY <1>1, <2>1 DEF Phase, ThreadRunning, Shell
  <2>3. Phase' = [Phase EXCEPT ![c] = "served"]
    BY <1>1, <2>1, <2>2, PhaseMoves
  <2>4. UNCHANGED <<Shell, Lost, Held, Mode>> /\ Mode # "closed"
    BY <1>1 DEF Shell, Lost, Held, Owned, Mode, serveVars
  <2>5. QED
    BY <2>2, <2>3, <2>4 DEF Promise!Serve, Held, Lost
<1>3. CASE Caught(c)
  BY <1>1, <1>3, AbandonRefines DEF Caught
<1>4. QED
  BY <1>2, <1>3 DEF CreateTransfers

LEMMA ShutdownRefines ==
    ASSUME RInv, NEW c \in Conns, Shutdown(c)
    PROVE  Promise!Finish(c) \/ UNCHANGED Abstract
<1>1. Serving(c) /\ process = "alive" /\ UNCHANGED <<serveVars, peer, cmd, process>>
  BY DEF Shutdown, Session, ThreadRunning, Serving, Opening
<1>2. CASE Proceed(c, "check")
  <2>1. UNCHANGED <<Phase, Lost, Held, Mode>>
    BY <1>1, <1>2, GoesOn
  <2>2. QED
    BY <1>1, <2>1 DEF Abstract, Shell
<1>3. CASE peer[c] = "reset" /\ Caught(c)
  BY <1>1, <1>3, EndRefines DEF Caught
<1>4. QED
  BY <1>2, <1>3 DEF Shutdown

LEMMA TerminateRefines ==
    ASSUME RInv, NEW c \in Conns, TerminateCmd(c)
    PROVE  Promise!Finish(c) \/ UNCHANGED Abstract
<1>1. Serving(c) /\ process = "alive" /\ UNCHANGED <<serveVars, peer, process>>
  BY DEF TerminateCmd, Session, ThreadRunning, Serving, Opening
<1>2. CASE cmd[c] = "running" /\ cmd' = [cmd EXCEPT ![c] = "dying"] /\ Proceed(c, "wait")
  <2>1. UNCHANGED <<Phase, Lost, Held, Mode>>
    BY <1>1, <1>2, GoesOn
  <2>2. cmd'[c] = "dying" /\ \A d \in Conns \ {c} : cmd'[d] = cmd[d]
    BY <1>2 DEF RInv, IInv, TypeOK
  <2>3. \A d \in Conns : Shell'[d] = Shell[d]
    BY <1>2, <2>2 DEF Shell, Exited
  <2>4. Shell' = Shell
    BY <2>3 DEF Shell
  <2>5. QED
    BY <2>1, <2>4 DEF Abstract
<1>3. CASE cmd[c] \in Exited /\ Caught(c) /\ UNCHANGED cmd
  <2>1. cmd[c] \notin {"running", "dying"}
    BY <1>3 DEF Exited
  <2>2. QED
    BY <1>1, <1>3, <2>1, EndRefines DEF Caught
<1>4. QED
  BY <1>2, <1>3 DEF TerminateCmd

LEMMA SessionRefines ==
    ASSUME RInv, NEW c \in Conns, SessionNext(c)
    PROVE  Promise!Next \/ UNCHANGED Abstract
<1>1. CASE Setup(c) \/ CreateTransfers(c)
  BY <1>1, SetupRefines, CreateTransfersRefines DEF Promise!Next
<1>2. CASE RelayEnds(c) \/ CheckCmd(c)
  <2>1. /\ Serving(c) /\ UNCHANGED <<serveVars, peer, cmd, process>>
        /\ \E next \in {"shutdown", "terminate", "wait"} : Proceed(c, next)
    BY <1>2 DEF RelayEnds, CheckCmd, Session, ThreadRunning, Serving, Opening
  <2>2. UNCHANGED <<Phase, Lost, Held, Mode>>
    BY <2>1, GoesOn
  <2>3. QED
    BY <2>1, <2>2 DEF Abstract, Shell
<1>3. CASE Shutdown(c)
  BY <1>3, ShutdownRefines DEF Promise!Next
<1>4. CASE TerminateCmd(c)
  BY <1>4, TerminateRefines DEF Promise!Next
<1>5. CASE WaitCmd(c)
  <2>1. /\ Serving(c) /\ process = "alive" /\ cmd[c] \notin {"running", "dying"}
        /\ Proceed(c, "ended") /\ UNCHANGED <<serveVars, peer, cmd, process>>
    BY <1>5 DEF WaitCmd, Session, ThreadRunning, Serving, Opening, Exited
  <2>2. Promise!Finish(c)
    BY <2>1, EndRefines
  <2>3. QED
    BY <2>2 DEF Promise!Next
<1>6. QED
  BY <1>1, <1>2, <1>3, <1>4, <1>5 DEF SessionNext

\* The end of a cmd.exe, and what the relay does meanwhile.
LEMMA CmdRefines ==
    ASSUME RInv, NEW c \in Conns, CmdExits(c) \/ CmdDies(c)
    PROVE  Promise!EndShell(c)
<1>1. /\ process = "alive" /\ cmd[c] \in {"running", "dying"}
      /\ UNCHANGED <<serveVars, peer, session, process>>
  BY DEF CmdExits, CmdDies
<1>2. cmd'[c] \in Exited /\ \A d \in Conns \ {c} : cmd'[d] = cmd[d]
  BY DEF CmdExits, CmdDies, Exited, RInv, IInv, TypeOK
<1>3. Shell[c] = "running" /\ Shell'[c] = "over"
  BY <1>1, <1>2 DEF Shell, Exited
<1>4. Shell' = [Shell EXCEPT ![c] = "over"]
  BY <1>2, <1>3, ShellMoves
<1>5. UNCHANGED <<Phase, Lost, Held, Mode>> /\ Mode # "closed"
  BY <1>1 DEF Phase, ThreadRunning, Lost, Held, Owned, Mode, serveVars
<1>6. QED
  BY <1>3, <1>4, <1>5 DEF Promise!EndShell, Held, Lost

LEMMA StepRefines == ASSUME RInv, [Next]_vars PROVE Promise!Next \/ UNCHANGED Abstract
<1>1. CASE \E c \in Conns : SessionNext(c)
  BY <1>1, SessionRefines
<1>2. CASE \E c \in Conns : CmdExits(c) \/ CmdDies(c)
  BY <1>2, CmdRefines DEF Promise!Next
<1>3. CASE \E c \in Conns : Connect(c)
  BY <1>3, ConnectRefines DEF Promise!Next
<1>4. CASE \E c \in Conns : Disconnect(c)
  BY <1>4, DisconnectRefines DEF Promise!Next
<1>5. CASE UNCHANGED <<serveVars, peer, session, cmd, process>>
  BY <1>5 DEF Abstract, Phase, ThreadRunning, Shell, Lost, Held, Owned, Mode, serveVars
<1>6. QED
  BY <1>1, <1>2, <1>3, <1>4, <1>5, ServeRefines
  DEF Next, Environment, DirectionEnds, vars, serveVars

LEMMA InitRefines == Init => Promise!Init
<1> SUFFICES ASSUME Init PROVE Promise!Init
  OBVIOUS
<1>1. Phase = [c \in Conns |-> "none"] /\ Shell = [c \in Conns |-> "none"]
  BY DEF Init, Phase, Shell, ThreadRunning
<1>2. Lost = {} /\ Held = {} /\ Mode = "open"
  BY NoneIsNoConn DEF Init, Lost, Held, Owned, Mode
<1>3. QED
  BY <1>1, <1>2 DEF Promise!Init, Lost, Held

\* Threads, the vector and the local of serve() keep what Sessions promises:
\* who waits is served, nobody's session loses what it stands on while the
\* server is open, and a session leaves a running cmd.exe behind only if its
\* connection was reset, or if its transfers could not be created
\* (RemoteCMD.cpp:136-142, 185-196).
THEOREM ImplementsSessions == Spec => SessionsSpec
<1>1. RInv /\ [Next]_vars => [Promise!Next]_(Promise!vars)
  BY StepRefines DEF Abstract, Held, Lost, Promise!vars
<1>2. QED
  BY <1>1, InitRefines, RInvariance, PTL DEF Spec, SessionsSpec, Promise!Spec

-----------------------------------------------------------------------------
\* Liveness. The prover does not evaluate ENABLED: that the threads can go on is
\* WaitsForItsOwn, a hypothesis here that TLC checks.

\* cmd.exe has exited and the session is at p; it is over.
After(c, p) == process = "alive" /\ cmd[c] \in Exited /\ session[c] = p
Over(c) == session[c] = "ended" \/ process = "gone"

\* An exited cmd.exe stays so, and only the session's own steps move it on.
LEMMA Stays ==
    ASSUME RInv, [Next]_vars, NEW c \in Conns, NEW p \in SessionPoints, After(c, p)
    PROVE  After(c, p)' \/ Over(c)' \/ SessionNext(c)
<1>1. CASE \E d \in Conns : SessionNext(d)
  <2>1. PICK d \in Conns : SessionNext(d)
    BY <1>1
  <2>2. CASE d # c
    <3>1. process' = process
      BY <2>1 DEF SessionNext, Setup, CreateTransfers, RelayEnds, Shutdown, CheckCmd,
                  TerminateCmd, WaitCmd
    <3>2. \E next \in SessionPoints : Proceed(d, next)
      BY <2>1 DEF SessionNext, Setup, CreateTransfers, RelayEnds, Shutdown, CheckCmd,
                  TerminateCmd, WaitCmd,
                  Caught, SessionPoints
    <3>3. session'[c] = session[c]
      BY <2>2, <3>2 DEF Proceed, RInv, IInv, TypeOK
    <3>4. cmd'[c] = cmd[c]
      BY <2>1, <2>2 DEF SessionNext, Setup, CreateTransfers, RelayEnds, Shutdown, CheckCmd,
                        TerminateCmd, WaitCmd,
                        RInv, IInv, TypeOK
    <3>5. QED
      BY <3>1, <3>3, <3>4 DEF After
  <2>3. QED
    BY <2>1, <2>2
<1>2. CASE Spawn
  <2>1. serve = "spawn" /\ (session[c] = p /\ p = "none" => cmd[c] = "none")
    BY <1>2 DEF Spawn, Serve, RInv, CmdInv
  <2>2. p # "none"
    BY <2>1 DEF After, Exited
  <2>3. session'[c] = session[c]
    BY <1>2, <2>1, <2>2 DEF Spawn, RInv, IInv, TypeOK, CurrentInv, After
  <2>4. process' = process /\ cmd' = cmd
    BY <1>2 DEF Spawn, Unwind
  <2>5. QED
    BY <2>3, <2>4 DEF After
<1>3. CASE \E d \in Conns : CmdExits(d) \/ CmdDies(d)
  BY <1>3 DEF CmdExits, CmdDies, After, Exited, RInv, IInv, TypeOK
<1>4. CASE Exit
  BY <1>4 DEF Exit, Over
<1>5. CASE UNCHANGED <<session, cmd, process>>
  BY <1>5 DEF After
<1>6. QED
  BY <1>1, <1>2, <1>3, <1>4, <1>5
  DEF Next, ServeNext, Accept, Reap, Push, Unwind, AcceptFails, Kill, Environment, Connect,
      Disconnect, DirectionEnds, vars, connVars, serveVars

\* Where a session's step leads once its cmd.exe has exited.
LEMMA GoesTo ==
    ASSUME RInv, NEW c \in Conns, NEW p, After(c, p), SessionNext(c)
    PROVE  /\ p = "transfers" => After(c, "relay")' \/ Over(c)'
           /\ p = "relay" => After(c, "shutdown")'
           /\ p = "shutdown" => After(c, "check")' \/ Over(c)'
           /\ p = "check" => After(c, "terminate")' \/ After(c, "wait")'
           /\ p \in {"terminate", "wait"} => Over(c)'
<1>1. session \in [Conns -> SessionPoints] /\ cmd \in [Conns -> Cmds]
  BY DEF RInv, IInv, TypeOK
<1>2. process = "alive" /\ session[c] = p /\ cmd[c] \in Exited /\ cmd[c] # "running"
  BY DEF After, Exited
<1>3. CASE RelayEnds(c)
  BY <1>1, <1>2, <1>3 DEF RelayEnds, Session, Proceed, After
<1>4. CASE Shutdown(c)
  BY <1>1, <1>2, <1>4 DEF Shutdown, Session, Proceed, Caught, After, Over
<1>5. CASE CheckCmd(c)
  BY <1>1, <1>2, <1>5 DEF CheckCmd, Session, Proceed, After
<1>6. CASE TerminateCmd(c)
  BY <1>1, <1>2, <1>6 DEF TerminateCmd, Session, Proceed, Caught, Over
<1>7. CASE WaitCmd(c)
  BY <1>1, <1>2, <1>7 DEF WaitCmd, Session, Proceed, Over
<1>8. CASE Setup(c)
  BY <1>2, <1>8 DEF Setup, Session
<1>9. CASE CreateTransfers(c)
  BY <1>1, <1>2, <1>9 DEF CreateTransfers, Session, Proceed, Caught, After, Over
<1>10. QED
  BY <1>3, <1>4, <1>5, <1>6, <1>7, <1>8, <1>9 DEF SessionNext

\* A session ends once its cmd.exe has, however the client behaves and whatever
\* the exit code is, for any set of connections (RemoteCMD.cpp:139-147).
THEOREM SessionEndsThm == FairSpec /\ []WaitsForItsOwn => SessionEnds
<1> SUFFICES ASSUME NEW c \in Conns
             PROVE  FairSpec /\ []WaitsForItsOwn => (cmd[c] \in Exited ~> Over(c))
  BY DEF SessionEnds, Over
<1>1. Fairness => SessionRuns(c)
  BY DEF Fairness
<1>2. WaitsForItsOwn /\ ThreadRunning(c) /\ process = "alive" /\ cmd[c] \in Exited
        => ENABLED <<SessionNext(c)>>_vars
  BY DEF WaitsForItsOwn
<1>3. RInv /\ cmd[c] \in Exited
        => \/ Over(c) \/ After(c, "transfers") \/ After(c, "relay") \/ After(c, "shutdown") \/ After(c, "check")
           \/ After(c, "terminate") \/ After(c, "wait")
  BY DEF RInv, IInv, CmdInv, TypeOK, SessionPoints, After, Over, Exited
<1>4. RInv /\ After(c, "relay") /\ [Next]_vars
        => After(c, "relay")' \/ Over(c)' \/ After(c, "shutdown")'
  BY Stays, GoesTo DEF SessionPoints
<1>5. RInv /\ After(c, "relay") /\ <<SessionNext(c)>>_vars => After(c, "shutdown")'
  BY GoesTo
<1>6. RInv /\ After(c, "shutdown") /\ [Next]_vars
        => After(c, "shutdown")' \/ Over(c)' \/ After(c, "check")'
  BY Stays, GoesTo DEF SessionPoints
<1>7. RInv /\ After(c, "shutdown") /\ <<SessionNext(c)>>_vars => After(c, "check")' \/ Over(c)'
  BY GoesTo
<1>8. RInv /\ After(c, "check") /\ [Next]_vars
        => After(c, "check")' \/ Over(c)' \/ After(c, "terminate")' \/ After(c, "wait")'
  BY Stays, GoesTo DEF SessionPoints
<1>9. RInv /\ After(c, "check") /\ <<SessionNext(c)>>_vars
        => After(c, "terminate")' \/ After(c, "wait")'
  BY GoesTo
<1>10. RInv /\ (After(c, "terminate") \/ After(c, "wait")) /\ [Next]_vars
        => (After(c, "terminate") \/ After(c, "wait"))' \/ Over(c)'
  BY Stays, GoesTo DEF SessionPoints
<1>11. RInv /\ (After(c, "terminate") \/ After(c, "wait")) /\ <<SessionNext(c)>>_vars => Over(c)'
  BY GoesTo
<1>12. /\ After(c, "transfers") => ThreadRunning(c) /\ process = "alive" /\ cmd[c] \in Exited
       /\ After(c, "relay") => ThreadRunning(c) /\ process = "alive" /\ cmd[c] \in Exited
       /\ After(c, "shutdown") => ThreadRunning(c) /\ process = "alive" /\ cmd[c] \in Exited
       /\ After(c, "check") => ThreadRunning(c) /\ process = "alive" /\ cmd[c] \in Exited
       /\ After(c, "terminate") => ThreadRunning(c) /\ process = "alive" /\ cmd[c] \in Exited
       /\ After(c, "wait") => ThreadRunning(c) /\ process = "alive" /\ cmd[c] \in Exited
  BY DEF After, ThreadRunning
<1>13. FairSpec /\ []WaitsForItsOwn => (After(c, "terminate") \/ After(c, "wait") ~> Over(c))
  BY <1>1, <1>2, <1>10, <1>11, <1>12, RInvariance, PTL DEF FairSpec, Spec, SessionRuns
<1>14. FairSpec /\ []WaitsForItsOwn => (After(c, "check") ~> Over(c))
  BY <1>1, <1>2, <1>8, <1>9, <1>12, <1>13, RInvariance, PTL DEF FairSpec, Spec, SessionRuns
<1>15. FairSpec /\ []WaitsForItsOwn => (After(c, "shutdown") ~> Over(c))
  BY <1>1, <1>2, <1>6, <1>7, <1>12, <1>14, RInvariance, PTL DEF FairSpec, Spec, SessionRuns
<1>16. FairSpec /\ []WaitsForItsOwn => (After(c, "relay") ~> Over(c))
  BY <1>1, <1>2, <1>4, <1>5, <1>12, <1>15, RInvariance, PTL DEF FairSpec, Spec, SessionRuns
<1>17. RInv /\ After(c, "transfers") /\ [Next]_vars
        => After(c, "transfers")' \/ Over(c)' \/ After(c, "relay")'
  BY Stays, GoesTo DEF SessionPoints
<1>18. RInv /\ After(c, "transfers") /\ <<SessionNext(c)>>_vars => After(c, "relay")' \/ Over(c)'
  BY GoesTo
<1>19. FairSpec /\ []WaitsForItsOwn => (After(c, "transfers") ~> Over(c))
  BY <1>1, <1>2, <1>12, <1>16, <1>17, <1>18, RInvariance, PTL DEF FairSpec, Spec, SessionRuns
<1>20. QED
  BY <1>3, <1>13, <1>14, <1>15, <1>16, <1>19, RInvariance, PTL DEF FairSpec

\* serve() is in the round of its loop that follows an accept; or it has left it.
InRound == process = "alive" /\ serve \in {"reap", "spawn", "push"}
RoundOver == process = "gone" \/ serve \notin {"reap", "spawn", "push"}

\* The points of a round come in their order, and only serve() moves through them.
LEMMA Round ==
    ASSUME [Next]_vars, NEW p \in {"reap", "spawn", "push"}, serve = p, process = "alive"
    PROVE  \/ serve' = p /\ process' = "alive"
           \/ RoundOver'
           \/ p = "reap" /\ serve' = "spawn" /\ process' = "alive"
           \/ p = "spawn" /\ serve' = "push" /\ process' = "alive"
<1>1. CASE ServeNext
  BY <1>1 DEF ServeNext, Accept, Reap, Spawn, Push, Serve, Unwind, RoundOver
<1>2. CASE AcceptFails \/ Kill \/ Exit
  BY <1>2 DEF AcceptFails, Kill, Exit, Serve, Unwind, RoundOver
<1>3. CASE UNCHANGED <<serve, process>>
  BY <1>3
<1>4. QED
  BY <1>1, <1>2, <1>3
  DEF Next, SessionNext, Setup, CreateTransfers, RelayEnds, Shutdown, CheckCmd, TerminateCmd,
      WaitCmd,
      Environment, Connect, Disconnect, CmdExits, CmdDies, DirectionEnds, vars, serveVars

LEMMA RoundStep ==
    ASSUME ServeNext, NEW p \in {"reap", "spawn", "push"}, serve = p, process = "alive"
    PROVE  \/ RoundOver'
           \/ p = "reap" /\ serve' = "spawn" /\ process' = "alive"
           \/ p = "spawn" /\ serve' = "push" /\ process' = "alive"
  BY DEF ServeNext, Accept, Reap, Spawn, Push, Serve, Unwind, RoundOver

\* The accept loop always comes back to accept, or is left for good: erase_if and
\* the start of a thread wait for no session, however many there are and
\* whatever they do, and none of them is joined (RemoteCMD.cpp:182-196).
THEOREM AcceptsAgain == FairSpec /\ []WaitsForItsOwn => (InRound ~> RoundOver)
<1> DEFINE At(p) == serve = p /\ process = "alive"
<1>1. Fairness => ServeRuns
  BY DEF Fairness
<1>2. /\ WaitsForItsOwn /\ At("reap") => ENABLED <<ServeNext>>_vars
      /\ WaitsForItsOwn /\ At("spawn") => ENABLED <<ServeNext>>_vars
      /\ WaitsForItsOwn /\ At("push") => ENABLED <<ServeNext>>_vars
  BY DEF WaitsForItsOwn
<1>3. InRound => At("reap") \/ At("spawn") \/ At("push")
  BY DEF InRound
<1>4. /\ At("reap") /\ [Next]_vars => At("reap")' \/ RoundOver' \/ At("spawn")'
      /\ At("spawn") /\ [Next]_vars => At("spawn")' \/ RoundOver' \/ At("push")'
      /\ At("push") /\ [Next]_vars => At("push")' \/ RoundOver'
  BY Round
<1>5. /\ At("reap") /\ <<ServeNext>>_vars => RoundOver' \/ At("spawn")'
      /\ At("spawn") /\ <<ServeNext>>_vars => RoundOver' \/ At("push")'
      /\ At("push") /\ <<ServeNext>>_vars => RoundOver'
  BY RoundStep
<1> HIDE DEF At
<1>6. FairSpec /\ []WaitsForItsOwn => (At("push") ~> RoundOver)
  BY <1>1, <1>2, <1>4, <1>5, PTL DEF FairSpec, Spec, ServeRuns
<1>7. FairSpec /\ []WaitsForItsOwn => (At("spawn") ~> RoundOver)
  BY <1>1, <1>2, <1>4, <1>5, <1>6, PTL DEF FairSpec, Spec, ServeRuns
<1>8. FairSpec /\ []WaitsForItsOwn => (At("reap") ~> RoundOver)
  BY <1>1, <1>2, <1>4, <1>5, <1>7, PTL DEF FairSpec, Spec, ServeRuns
<1>9. QED
  BY <1>3, <1>6, <1>7, <1>8, PTL

===============================================================================
