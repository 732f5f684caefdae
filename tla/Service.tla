------------------------------- MODULE Service --------------------------------
(***************************************************************************)
(* The Windows service of Service.hpp. Three threads share one Service     *)
(* object:                                                                 *)
(*                                                                         *)
(*    svc      the service thread, in init_: registers the handler,        *)
(*             starts the worker, waits, terminates the worker             *)
(*    handler  the thread of main(), in StartServiceCtrlDispatcher: runs   *)
(*             control_handler_ when the service manager sends a control   *)
(*    worker   runs T::work, that is Server::serve                         *)
(*                                                                         *)
(* svc and handler both call report_status, which fills the one `status`   *)
(* of the object field by field, without a lock, and hands it to           *)
(* SetServiceStatus. A report is therefore three steps here; the           *)
(* checkpoint and the wait hint are left out.                              *)
(***************************************************************************)
EXTENDS Naturals

VARIABLES
    svc,        \* what init_ does next
    handler,    \* what control_handler_ does next; "idle" outside of it
    phase,      \* phase[th]: steps done of th's report_status
    loaded,     \* the state the handler's second report will have
    status,     \* Service::status
    scm,        \* the status the service manager was handed last
    stopped,    \* history: STOPPED has been reported
    event,      \* stop_event: "none", "clear" or "set"
    worker,     \* "none", "running" or "terminated"
    erred,      \* init_ is in its catch block, or has been there
    process     \* "alive", "crashed" (std::terminate) or "exited"

vars == <<svc, handler, phase, loaded, status, scm, stopped, event, worker, erred, process>>

States == {"START_PENDING", "RUNNING", "STOP_PENDING", "STOPPED"}
Status == [state : States, exit : {0, 1}, accepts : BOOLEAN]
Threads == {"svc", "handler"}

Init ==
    /\ svc = "register" /\ handler = "idle"
    /\ phase = [th \in Threads |-> 0]
    /\ loaded = "START_PENDING"
    /\ status = [state |-> "START_PENDING", exit |-> 0, accepts |-> FALSE]
    /\ scm = status
    /\ stopped = FALSE
    /\ event = "none" /\ worker = "none"
    /\ erred = FALSE /\ process = "alive"

-----------------------------------------------------------------------------
\* report_status(state, exitCode), a step of thread th at a time.

\* dwControlsAccepted for a state.
Accepts(state) == state # "START_PENDING"

\* The fields of the shared struct are written, the state first.
Fill(th, state, exit) ==
    /\ process = "alive" /\ phase[th] \in {0, 1}
    /\ phase' = [phase EXCEPT ![th] = @ + 1]
    /\ status' = IF phase[th] = 0 THEN [status EXCEPT !.state = state]
                 ELSE [status EXCEPT !.exit = exit, !.accepts = Accepts(state)]
    /\ UNCHANGED <<svc, handler, loaded, scm, stopped, event, worker, erred, process>>

\* SetServiceStatus reads the struct as it is by then.
Set(th) ==
    /\ process = "alive" /\ phase[th] = 2
    /\ phase' = [phase EXCEPT ![th] = 0]
    /\ scm' = status
    /\ stopped' = (stopped \/ status.state = "STOPPED")
    /\ UNCHANGED <<loaded, status, event, worker, erred, process>>

\* It may fail; report_status throws.
SetFails(th) ==
    /\ process = "alive" /\ phase[th] = 2
    /\ phase' = [phase EXCEPT ![th] = 0]
    /\ UNCHANGED <<loaded, status, scm, stopped, event, worker>>

-----------------------------------------------------------------------------
\* init_.

\* The reports of init_: the state and the exit code.
Reports ==
    [startPending |-> [state |-> "START_PENDING", exit |-> 0],
     running      |-> [state |-> "RUNNING", exit |-> 0],
     stopped      |-> [state |-> "STOPPED", exit |-> 0],
     error        |-> [state |-> "STOPPED", exit |-> 1]]

\* The statements of init_ in their order; "error" is the catch block.
Order ==
    [register |-> "startPending", startPending |-> "createEvent", createEvent |-> "running",
     running |-> "createThread", createThread |-> "wait", wait |-> "terminate",
     terminate |-> "stopped", stopped |-> "returned", error |-> "returned"]

\* Mutant: RUNNING is reported before stop_event is created.
AfterReportsFirst(at) ==
    [Order EXCEPT !["startPending"] = "running", !["running"] = "createEvent",
                  !["createEvent"] = "createThread"][at]

\* Mutant: the worker is left to the kernel (Service.hpp:60).
AfterLeavesWorker(at) == [Order EXCEPT !["wait"] = "stopped"][at]

\* What init_ does after the statement `at`.
After(at) == Order[at]

Svc(at) == process = "alive" /\ svc = at

Proceed == svc' = After(svc) /\ UNCHANGED erred
Throw == svc' = "error" /\ erred' = TRUE

\* RegisterServiceCtrlHandlerA returns a handle or fails.
Register ==
    /\ Svc("register")
    /\ Proceed \/ Throw
    /\ UNCHANGED <<handler, phase, loaded, status, scm, stopped, event, worker, process>>

SvcFill ==
    /\ svc \in DOMAIN Reports
    /\ Fill("svc", Reports[svc].state, Reports[svc].exit)

SvcSet ==
    /\ svc \in DOMAIN Reports
    /\ Set("svc")
    /\ Proceed
    /\ UNCHANGED handler

\* Inside the try block the exception is caught; out of the catch block it
\* reaches the caller, which is not C++: std::terminate.
SvcSetFails ==
    /\ svc \in DOMAIN Reports
    /\ SetFails("svc")
    /\ IF svc = "error" THEN process' = "crashed" /\ UNCHANGED <<svc, erred>>
       ELSE Throw /\ UNCHANGED process
    /\ UNCHANGED handler

CreateEvent ==
    /\ Svc("createEvent")
    /\ \/ event' = "clear" /\ Proceed
       \/ event' = event /\ Throw
    /\ UNCHANGED <<handler, phase, loaded, status, scm, stopped, worker, process>>

CreateThread ==
    /\ Svc("createThread")
    /\ \/ worker' = "running" /\ Proceed
       \/ worker' = worker /\ Throw
    /\ UNCHANGED <<handler, phase, loaded, status, scm, stopped, event, process>>

\* Mutant: wait_multiple<true>, for both handles.
WakesAll == event = "set" /\ worker = "terminated"

\* wait_multiple(thread, stop_event) returns when either is signaled.
Wakes == event = "set" \/ worker = "terminated"

\* stop_event is an auto-reset event.
Wait ==
    /\ Svc("wait") /\ Wakes
    /\ event' = "clear" /\ Proceed
    /\ UNCHANGED <<handler, phase, loaded, status, scm, stopped, worker, process>>

WaitFails ==
    /\ Svc("wait") /\ Throw
    /\ UNCHANGED <<handler, phase, loaded, status, scm, stopped, event, worker, process>>

Terminate ==
    /\ Svc("terminate")
    /\ \/ worker' = "terminated" /\ Proceed
       \/ worker' = worker /\ Throw
    /\ UNCHANGED <<handler, phase, loaded, status, scm, stopped, event, process>>

-----------------------------------------------------------------------------
\* control_handler_.

Handler(at) == process = "alive" /\ handler = at

\* The service manager sends STOP to a registered handler of a service that it
\* knows as running and that accepts it; it sends one control at a time.
\* INTERROGATE and the others change nothing.
StopControl ==
    /\ Handler("idle") /\ svc # "register"
    /\ scm.state = "RUNNING" /\ scm.accepts
    /\ handler' = "stopPending"
    /\ UNCHANGED <<svc, phase, loaded, status, scm, stopped, event, worker, erred, process>>

\* Mutant: the second report restores the state the service had before.
HandlerStateRestored == IF handler = "stopPending" THEN "STOP_PENDING" ELSE "RUNNING"

\* The reports of the handler: STOP_PENDING, then what the state is by then.
HandlerState == IF handler = "stopPending" THEN "STOP_PENDING" ELSE loaded

HandlerFill ==
    /\ handler \in {"stopPending", "again"}
    /\ Fill("handler", HandlerState, 0)

HandlerSet ==
    /\ handler \in {"stopPending", "again"}
    /\ Set("handler")
    /\ handler' = IF handler = "stopPending" THEN "signal" ELSE "idle"
    /\ UNCHANGED svc

\* The exception is caught and logged; after a first report that fails the
\* stop request is forgotten.
HandlerSetFails ==
    /\ handler \in {"stopPending", "again"}
    /\ SetFails("handler")
    /\ handler' = "idle"
    /\ UNCHANGED <<svc, erred, process>>

\* stop_event.signal() throws when there is no event, or when SetEvent fails.
Signal ==
    /\ Handler("signal")
    /\ \/ event # "none" /\ event' = "set" /\ handler' = "load"
       \/ event' = event /\ handler' = "idle"
    /\ UNCHANGED <<svc, phase, loaded, status, scm, stopped, worker, erred, process>>

\* The argument of the second report is read from the shared struct.
Load ==
    /\ Handler("load")
    /\ loaded' = status.state /\ handler' = "again"
    /\ UNCHANGED <<svc, phase, status, scm, stopped, event, worker, erred, process>>

-----------------------------------------------------------------------------
\* The worker and the process.

\* work() never returns: it serves until an exception leaves the thread's
\* function, or its own command line asks for help.
WorkerEnds ==
    /\ process = "alive" /\ worker = "running"
    /\ process' \in {"crashed", "exited"}
    /\ UNCHANGED <<svc, handler, phase, loaded, status, scm, stopped, event, worker, erred>>

\* The dispatcher returns once the service is stopped, and main with it.
DispatcherReturns ==
    /\ Handler("idle") /\ stopped
    /\ process' = "exited"
    /\ UNCHANGED <<svc, handler, phase, loaded, status, scm, stopped, event, worker, erred>>

SvcNext ==
    \/ Register \/ SvcFill \/ SvcSet \/ SvcSetFails \/ CreateEvent \/ CreateThread
    \/ Wait \/ Terminate

HandlerNext ==
    HandlerFill \/ HandlerSet \/ HandlerSetFails \/ Signal \/ Load

Next == SvcNext \/ HandlerNext \/ StopControl \/ WaitFails \/ WorkerEnds \/ DispatcherReturns

Spec == Init /\ [][Next]_vars

\* Neither thread is ever kept from running. The worker may serve for ever, the
\* manager need not send STOP, and a wait need not fail.
SvcRuns == WF_vars(SvcNext)
HandlerRuns == WF_vars(HandlerNext)

FairSpec == Spec /\ SvcRuns /\ HandlerRuns

-----------------------------------------------------------------------------
\* Properties.

SvcPoints ==
    DOMAIN Reports \cup {"register", "createEvent", "createThread", "wait", "terminate", "returned"}

TypeOK ==
    /\ svc \in SvcPoints
    /\ handler \in {"idle", "stopPending", "signal", "load", "again"}
    /\ phase \in [Threads -> 0..2]
    /\ loaded \in States
    /\ status \in Status /\ scm \in Status
    /\ stopped \in BOOLEAN /\ erred \in BOOLEAN
    /\ event \in {"none", "clear", "set"}
    /\ worker \in {"none", "running", "terminated"}
    /\ process \in {"alive", "crashed", "exited"}

\* The handler never signals an event that does not exist yet: STOP is accepted
\* only after stop_event was created (Service.hpp:52, 79).
SignalsLiveEvent == handler = "signal" => event # "none"

\* Once a stop is on its way the service never reports RUNNING again, however
\* the two threads' reports interleave.
NeverRunningAgain == [][scm.state = "STOP_PENDING" => scm'.state # "RUNNING"]_vars

\* When the manager is told STOPPED no worker serves clients any more, unless
\* an API call of init_ failed (Service.hpp:61).
StoppedMeansNoWorker == scm.state = "STOPPED" /\ ~erred => worker # "running"

\* A stop request that was signaled gets the service thread out of its wait and
\* to the end of init_, unless the process ends first (Service.hpp:58).
StopEndsService == event = "set" ~> svc = "returned" \/ process # "alive"

\* "make stop_service" runs "sc stop" (Makefile:12-13): once the request was
\* signaled, STOPPED is reported, if no API call of init_ fails and the process
\* does not end first.
StopIsReported ==
    event = "set" /\ ~erred ~> stopped \/ erred \/ process # "alive"

=============================================================================
