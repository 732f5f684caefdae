------------------------------- MODULE Handles --------------------------------
(***************************************************************************)
(* Who owns which handle: OwningHandle and OwningSocket (Handle.hpp,       *)
(* Socket.hpp) in the hands of the accept loop and of the session threads. *)
(*                                                                         *)
(* An owning object is a slot: of the server, of a ClientConn, or a local  *)
(* of a session's thread. It holds the value of an open handle or Null;    *)
(* one that does not exist counts as Null. An action is one full           *)
(* expression of the code, with the temporaries it creates and destroys.   *)
(* A call that fails returns NULL or INVALID_HANDLE_VALUE: validate()      *)
(* throws, and the temporary that holds the value is destroyed (CloseHandle*)
(* of INVALID_HANDLE_VALUE, a pseudo handle, closes nothing).              *)
(*                                                                         *)
(* Windows gives the value of a closed handle away again, here at once: a  *)
(* handle that is closed twice, or used after it was closed, is somebody   *)
(* else's.                                                                 *)
(***************************************************************************)
EXTENDS Naturals

CONSTANTS
    Conns,      \* the connections that are accepted in a run
    Handles,    \* the values of open handles
    Null,       \* NULL, and INVALID_SOCKET for a socket
    Main        \* the accept loop, as an owner of slots

ASSUME HandlesAssumption == Null \notin Handles /\ Main \notin Conns

\* The members of a ClientConn; the locals of create_async (its `result`) and
\* of handle() (its `cmd`, and io_done_ in the AIOEnvs of its two transfers);
\* the server's own.
Members == {"socket", "thread", "outRead", "outWrite", "inRead", "inWrite"}
Events == {"outDone", "inDone"}
Locals == {"read", "write", "process", "mainThread"} \cup Events
Slots == (Conns \X (Members \cup Locals)) \cup ({Main} \X {"listen", "accepted"})

MembersOf(S) == S \X Members
LocalsOf(c) == {c} \X Locals
EventsOf(c) == {c} \X Events

\* What the transfers and until() of a session work on; each OVERLAPPED has a
\* copy of its event, too.
Relayed == {"outRead", "socket", "inWrite", "process"}
Borrowed == Relayed \cup Events

VARIABLES
    slot,       \* what each owning object holds
    opened,     \* the handles that are open in the process
    serve,      \* what the accept loop does next
    client,     \* the ClientConn in serve's local unique_ptr, or Main
    clients,    \* Server::clients
    session,    \* session[c]: what ClientConn::handle does next
    borrowed    \* borrowed[c]: the values in the transfers and envs of c

vars == <<slot, opened, serve, client, clients, session, borrowed>>

ServePoints == {"setup", "accept", "reap", "make", "start", "push", "unwound"}
SessionPoints ==
    {"none", "outRead", "outWrite", "outMove", "inRead", "inWrite", "inMove",
     "process", "transfers", "relay", "end", "ended"}

NothingBorrowed == [m \in Borrowed |-> Null]

Init ==
    /\ slot = [s \in Slots |-> Null] /\ opened = {}
    /\ serve = "setup" /\ client = Main /\ clients = {}
    /\ session = [c \in Conns |-> "none"]
    /\ borrowed = [c \in Conns |-> NothingBorrowed]

-----------------------------------------------------------------------------
\* The owning types.

\* Mutant: move assignment copies.
MoveAssignCopies(s, to, from) == [s EXCEPT ![to] = s[from]]

\* operator=(OwningHandle &&), operator=(OwningSocket &&): swap.
MoveAssign(s, to, from) == [s EXCEPT ![to] = s[from], ![from] = s[to]]

\* After the moves that led to s, the destructors of the objects in S run.
Destroy(s, S) ==
    /\ slot' = [t \in Slots |-> IF t \in S THEN Null ELSE s[t]]
    /\ opened' = opened \ {s[t] : t \in S}

\* The value that Windows gives to the next handle when those in S are taken.
Fresh(S) == CHOOSE h \in Handles : h \notin S

\* to = OwningHandle(call()).validate(): a call that succeeds opens a handle,
\* the temporary that holds it is swapped with `to` and closes what `to` held.
Acquire(to) ==
    /\ opened # Handles
    /\ slot' = [slot EXCEPT ![to] = Fresh(opened)]
    /\ opened' = (opened \cup {Fresh(opened)}) \ {slot[to]}

\* Two handles at once, for slots that hold none.
AcquireTwo(one, two) ==
    LET h == Fresh(opened)
        k == Fresh(opened \cup {h})
    IN /\ opened # Handles /\ opened \cup {h} # Handles
       /\ slot' = [slot EXCEPT ![one] = h, ![two] = k]
       /\ opened' = opened \cup {h, k}

-----------------------------------------------------------------------------
\* ClientConn::handle, in the thread of connection c. What the threads do after
\* main has unwound is not followed: the process ends.

Goes(c, from, to) ==
    /\ serve # "unwound" /\ session[c] = from
    /\ session' = [session EXCEPT ![c] = to]

OnlySession == UNCHANGED <<serve, client, clients>>

\* Pipe::create_async, one end after the other.
CreatePipeEnd(c) ==
    /\ \/ Goes(c, "outRead", "outWrite") /\ Acquire(<<c, "read">>)
       \/ Goes(c, "inRead", "inWrite") /\ Acquire(<<c, "read">>)
       \/ Goes(c, "outWrite", "outMove") /\ Acquire(<<c, "write">>)
       \/ Goes(c, "inWrite", "inMove") /\ Acquire(<<c, "write">>)
    /\ UNCHANGED borrowed /\ OnlySession

\* pipe = std::move(result), member by member; then result is destroyed.
MovePipe(c, read, write) ==
    Destroy(MoveAssign(MoveAssign(slot, <<c, read>>, <<c, "read">>), <<c, write>>, <<c, "write">>),
            {<<c, "read">>, <<c, "write">>})

AssignPipe(c) ==
    /\ \/ Goes(c, "outMove", "inRead") /\ MovePipe(c, "outRead", "outWrite")
       \/ Goes(c, "inMove", "process") /\ MovePipe(c, "inRead", "inWrite")
    /\ UNCHANGED borrowed /\ OnlySession

\* Process::create: CreateProcess opens two handles, which are wrapped and moved
\* into `cmd`.
CreateProcess(c) ==
    /\ Goes(c, "process", "transfers")
    /\ AcquireTwo(<<c, "process">>, <<c, "mainThread">>)
    /\ UNCHANGED borrowed /\ OnlySession

\* The frames of the transfers take what they are lent, and each gets an AIOEnv
\* with an event of its own.
CreateTransfers(c) ==
    /\ Goes(c, "transfers", "relay")
    /\ AcquireTwo(<<c, "outDone">>, <<c, "inDone">>)
    /\ borrowed' = [borrowed EXCEPT ![c] = [m \in Borrowed |-> slot'[<<c, m>>]]]
    /\ OnlySession

\* The frames of the transfers are destroyed.
EndTransfers(c) == borrowed' = [borrowed EXCEPT ![c] = NothingBorrowed]

\* run() returns, and the ParallelAIOs, a temporary, is destroyed with its envs;
\* what follows uses the session's own handles.
RelayReturns(c) ==
    /\ Goes(c, "relay", "end")
    /\ EndTransfers(c)
    /\ Destroy(slot, EventsOf(c))
    /\ OnlySession

\* The try block ends, or an exception leaves it, and the locals are destroyed.
LeaveTry(c) ==
    /\ \E p \in SessionPoints \ {"none", "ended"} : Goes(c, p, "ended")
    /\ EndTransfers(c)
    /\ Destroy(slot, LocalsOf(c))
    /\ OnlySession

-----------------------------------------------------------------------------
\* Server::setup and serve().

Serve(from, to) == serve = from /\ serve' = to

OnlyServe == UNCHANGED <<session, borrowed>>

\* Socket::listen.
Listen ==
    /\ Serve("setup", "accept")
    /\ Acquire(<<Main, "listen">>)
    /\ UNCHANGED <<client, clients>> /\ OnlyServe

Accept ==
    /\ Serve("accept", "reap")
    /\ Acquire(<<Main, "accepted">>)
    /\ UNCHANGED <<client, clients>> /\ OnlyServe

\* Mutant: every connection that is not at work yet is erased, too.
RunningEarly(c) == session[c] \in {"relay", "end"}

\* thread_running().
Running(c) == session[c] \notin {"none", "ended"}

\* erase_if: the ClientConns of ended threads are destroyed.
Reap ==
    /\ Serve("reap", "make")
    /\ clients' = {c \in clients : Running(c)}
    /\ Destroy(slot, MembersOf({c \in clients : ~Running(c)}))
    /\ UNCHANGED client /\ OnlyServe

\* make_unique<ClientConn>, client->socket = std::move(clientSocket).
Make ==
    /\ Serve("make", "start")
    /\ \E c \in Conns :
          /\ session[c] = "none"
          /\ client' = c
          /\ slot' = MoveAssign(slot, <<c, "socket">>, <<Main, "accepted">>)
    /\ UNCHANGED <<opened, clients>> /\ OnlyServe

\* Mutant: the handle is closed with the Thread that Thread::create returned.
StartBorrows ==
    /\ Serve("start", "push")
    /\ opened # Handles
    /\ session' = [session EXCEPT ![client] = "outRead"]
    /\ UNCHANGED <<slot, opened, client, clients, borrowed>>

\* client->thread = Thread::create(...).handle. The thread runs at once.
Start ==
    /\ Serve("start", "push")
    /\ Acquire(<<client, "thread">>)
    /\ session' = [session EXCEPT ![client] = "outRead"]
    /\ UNCHANGED <<client, clients, borrowed>>

\* push_back; clientSocket goes out of scope.
Push ==
    /\ Serve("push", "accept")
    /\ clients' = clients \cup {client} /\ client' = Main
    /\ Destroy(slot, {<<Main, "accepted">>})
    /\ OnlyServe

\* An exception leaves serve(): main destroys the server and what it owns.
Unwind ==
    /\ \E p \in ServePoints \ {"reap", "unwound"} : Serve(p, "unwound")
    /\ Destroy(slot, MembersOf(Conns) \cup ({Main} \X {"listen", "accepted"}))
    /\ clients' = {} /\ client' = Main
    /\ OnlyServe

ServeNext == Listen \/ Accept \/ Reap \/ Make \/ Start \/ Push \/ Unwind

SessionNext(c) ==
    \/ CreatePipeEnd(c) \/ AssignPipe(c) \/ CreateProcess(c)
    \/ CreateTransfers(c) \/ RelayReturns(c) \/ LeaveTry(c)

Next == ServeNext \/ \E c \in Conns : SessionNext(c)

Spec == Init /\ [][Next]_vars

-----------------------------------------------------------------------------
\* Properties.

TypeOK ==
    /\ slot \in [Slots -> Handles \cup {Null}]
    /\ opened \subseteq Handles
    /\ serve \in ServePoints
    /\ client \in Conns \cup {Main} /\ clients \subseteq Conns
    /\ session \in [Conns -> SessionPoints]
    /\ borrowed \in [Conns -> [Borrowed -> Handles \cup {Null}]]

\* Every open handle has one owner, and what an owner holds is open: nothing
\* leaks, whichever call fails, and nothing is closed twice (Handle.hpp:199).
OwnedOnce ==
    /\ opened = {slot[s] : s \in Slots} \ {Null}
    /\ \A s, t \in Slots : slot[s] = slot[t] /\ slot[s] # Null => s = t

\* While a session relays, the handles that its transfers borrowed are open and
\* still its own, although the accept loop frees other sessions and their
\* values are given away again (RemoteCMD.cpp:136).
BorrowedIsOwn ==
    serve # "unwound" =>
        \A c \in Conns : session[c] = "relay" =>
            \A m \in Borrowed :
                borrowed[c][m] = slot[<<c, m>>] /\ slot[<<c, m>>] \in opened

\* What the code calls a function with is open and its caller's: accept() on the
\* listening socket, thread_running() on the threads of `clients`, the pipe ends
\* that cmd.exe is given, and what a session uses until the end of its try block;
\* whatever failed before, and whatever values Windows gives away again
\* (RemoteCMD.cpp:118-147, 185-196).
UsesOpen ==
    serve # "unwound" =>
        /\ serve = "accept" => slot[<<Main, "listen">>] \in opened
        /\ serve = "make" => slot[<<Main, "accepted">>] \in opened
        /\ serve = "reap" => \A c \in clients : slot[<<c, "thread">>] \in opened
        /\ \A c \in Conns :
              /\ session[c] = "process" =>
                    \A m \in {"inRead", "outWrite"} : slot[<<c, m>>] \in opened
              /\ session[c] \in {"transfers", "relay", "end"} =>
                    \A m \in Relayed : slot[<<c, m>>] \in opened

=============================================================================
