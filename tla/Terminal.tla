------------------------------ MODULE Terminal --------------------------------
(***************************************************************************)
(* What a client and its session promise the user at the keyboard, without *)
(* buffers, transfers and processes (RemoteCMD.cpp:91, 136): cmd.exe reads *)
(* what was typed, its output is shown, it never runs further ahead of the *)
(* screen than Capacity, and who sees the session end in order misses no   *)
(* more than MaxLoss. Only keys that are typed as the session ends can     *)
(* turn that into a reset.                                                 *)
(***************************************************************************)
EXTENDS Naturals

CONSTANTS
    Capacity,   \* how far cmd.exe may be ahead of the screen
    MaxLoss     \* what the end of cmd.exe may lose

VARIABLES
    typed, read,    \* bytes typed, and bytes that cmd.exe has read
    written, shown, \* bytes that cmd.exe has written, and bytes on the screen
    shell,          \* "running" or "exited"
    session,        \* "running" or "over"
    user,           \* the client is "running" or "over"
    screen,         \* "open" or "closed"
    lost            \* the network has lost the connection

vars == <<typed, read, written, shown, shell, session, user, screen, lost>>

Init ==
    /\ typed = 0 /\ read = 0 /\ written = 0 /\ shown = 0
    /\ shell = "running" /\ session = "running" /\ user = "running"
    /\ screen = "open" /\ lost = FALSE

Type ==
    /\ user = "running"
    /\ typed' = typed + 1
    /\ UNCHANGED <<read, written, shown, shell, session, user, screen, lost>>

Read ==
    /\ shell = "running" /\ read < typed
    /\ read' = read + 1
    /\ UNCHANGED <<typed, written, shown, shell, session, user, screen, lost>>

Write ==
    /\ shell = "running" /\ written < shown + Capacity
    /\ written' = written + 1
    /\ UNCHANGED <<typed, read, shown, shell, session, user, screen, lost>>

\* Some of the output appears; never more than was written.
Show ==
    /\ user = "running" /\ screen = "open"
    /\ shown' \in (shown + 1)..written
    /\ UNCHANGED <<typed, read, written, shell, session, user, screen, lost>>

\* cmd.exe exits on its own only after it was told to.
Exit ==
    /\ shell = "running" /\ read > 0
    /\ shell' = "exited"
    /\ UNCHANGED <<typed, read, written, shown, session, user, screen, lost>>

\* Nobody can see the screen any more.
Unseen == user = "over" \/ lost

\* The session ends with cmd.exe, and takes it with it. Only when nobody sees
\* the screen it may end before, and leave cmd.exe behind.
SessionEnds ==
    /\ session = "running" /\ (shell = "exited" \/ Unseen)
    /\ session' = "over"
    /\ shell' = "exited" \/ (Unseen /\ shell' = shell)
    /\ UNCHANGED <<typed, read, written, shown, user, screen, lost>>

UserLeaves ==
    /\ user = "running"
    /\ user' = "over"
    /\ UNCHANGED <<typed, read, written, shown, shell, session, screen, lost>>

Lose ==
    /\ ~lost /\ lost' = TRUE
    /\ UNCHANGED <<typed, read, written, shown, shell, session, user, screen>>

\* The screen learns that the session is over: with nearly everything shown,
\* or with keys that nobody read, or as the connection is lost.
ScreenEnds ==
    /\ user = "running" /\ screen = "open"
    /\ \/ session = "over" /\ (written <= shown + MaxLoss \/ read < typed)
       \/ lost
    /\ screen' = "closed"
    /\ UNCHANGED <<typed, read, written, shown, shell, session, user, lost>>

Next ==
    \/ Type \/ Read \/ Write \/ Show \/ Exit
    \/ SessionEnds \/ UserLeaves \/ Lose \/ ScreenEnds

Spec == Init /\ [][Next]_vars

===============================================================================
