------------------------------ MODULE Sessions --------------------------------
(***************************************************************************)
(* What the server promises to those who connect (RemoteCMD.cpp), without  *)
(* threads, vectors and pointers: who waits gets a session of his own with *)
(* a shell, nothing that a session stands on is released before it is over,*)
(* and a session that was served ends with its shell. Three things break   *)
(* the last two: the server closes, a connection was reset, or a session   *)
(* could not be opened to its end.                                         *)
(***************************************************************************)
CONSTANT Conns  \* the connections that clients make in a run

VARIABLES
    phase,      \* phase[c]: "none", "waiting", "opening", "served" or "over"
    shell,      \* shell[c]: "none", "running" or "over"
    reset,      \* the connections that were reset
    held,       \* the connections that the server keeps something for
    server      \* "open", "closing" or "closed"

vars == <<phase, shell, reset, held, server>>

Init ==
    /\ phase = [c \in Conns |-> "none"]
    /\ shell = [c \in Conns |-> "none"]
    /\ reset = {} /\ held = {}
    /\ server = "open"

\* A client connects. While the server closes, the system still lets it queue.
Arrive(c) ==
    /\ server # "closed" /\ phase[c] = "none"
    /\ phase' = [phase EXCEPT ![c] = "waiting"]
    /\ UNCHANGED <<shell, reset, held, server>>

Reset(c) ==
    /\ server # "closed" /\ phase[c] # "none"
    /\ reset' = reset \cup {c}
    /\ UNCHANGED <<phase, shell, held, server>>

\* One connection at a time is taken out of the queue.
Admit(c) ==
    /\ server = "open" /\ phase[c] = "waiting"
    /\ \A d \in held : phase[d] # "waiting"
    /\ held' = held \cup {c}
    /\ UNCHANGED <<phase, shell, reset, server>>

\* Whatever is over is released, and nothing else.
Release ==
    /\ server = "open"
    /\ held' = {c \in held : phase[c] # "over"}
    /\ UNCHANGED <<phase, shell, reset, server>>

Start(c) ==
    /\ server = "open" /\ c \in held /\ phase[c] = "waiting"
    /\ phase' = [phase EXCEPT ![c] = "opening"]
    /\ UNCHANGED <<shell, reset, held, server>>

OpenShell(c) ==
    /\ server # "closed" /\ phase[c] = "opening" /\ shell[c] = "none"
    /\ shell' = [shell EXCEPT ![c] = "running"]
    /\ UNCHANGED <<phase, reset, held, server>>

EndShell(c) ==
    /\ server # "closed" /\ shell[c] = "running"
    /\ shell' = [shell EXCEPT ![c] = "over"]
    /\ UNCHANGED <<phase, reset, held, server>>

\* Nobody is served without a shell.
Serve(c) ==
    /\ server # "closed" /\ phase[c] = "opening" /\ shell[c] # "none"
    /\ phase' = [phase EXCEPT ![c] = "served"]
    /\ UNCHANGED <<shell, reset, held, server>>

\* A session that cannot be opened is over, and may leave a shell behind.
Abandon(c) ==
    /\ server # "closed" /\ phase[c] = "opening"
    /\ phase' = [phase EXCEPT ![c] = "over"]
    /\ UNCHANGED <<shell, reset, held, server>>

\* A session ends with its shell. A shell that runs on is left behind only by a
\* connection that was reset.
Finish(c) ==
    /\ server # "closed" /\ phase[c] = "served"
    /\ shell[c] # "running" \/ c \in reset
    /\ phase' = [phase EXCEPT ![c] = "over"]
    /\ UNCHANGED <<shell, reset, held, server>>

\* The server stops to accept, and keeps or frees what it holds.
Close ==
    /\ server = "open"
    /\ server' = "closing" /\ held' \in {held, {}}
    /\ UNCHANGED <<phase, shell, reset>>

End ==
    /\ server = "closing"
    /\ server' = "closed"
    /\ UNCHANGED <<phase, shell, reset, held>>

Next ==
    \/ Release \/ Close \/ End
    \/ \E c \in Conns :
          \/ Arrive(c) \/ Reset(c) \/ Admit(c) \/ Start(c)
          \/ OpenShell(c) \/ Serve(c) \/ Abandon(c) \/ EndShell(c) \/ Finish(c)

Spec == Init /\ [][Next]_vars

===============================================================================
