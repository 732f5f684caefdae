---------------------------- MODULE ServiceProofs -----------------------------
(***************************************************************************)
(* Proofs about Service. The two threads fill one status struct without a  *)
(* lock; what saves them is that the handler is called only once RUNNING   *)
(* was reported, and that nothing after that statement of init_ reports    *)
(* RUNNING again. The invariant follows a state from the argument of       *)
(* report_status through the struct to the service manager.                *)
(***************************************************************************)
EXTENDS Service, TLAPS

\* init_ has reported RUNNING, or has given up.
PastRunning == svc \in {"createThread", "wait", "terminate", "stopped", "error", "returned"}

\* States that the handler may hand on once a stop is on its way.
Stopping == {"STOP_PENDING", "STOPPED"}

\* There is an event from the statement that creates it on; RUNNING is reported
\* after that, so that the handler finds it.
EventInv ==
    /\ svc \in {"running", "createThread", "wait", "terminate", "stopped"} => event # "none"
    /\ status.state = "RUNNING" => event # "none"
    /\ scm.state = "RUNNING" => event # "none"
    /\ loaded = "RUNNING" => event # "none"
    /\ handler # "idle" => event # "none"

\* STOPPED is reported after the worker was terminated, or after an error.
WorkerInv ==
    ~erred =>
        /\ svc # "error"
        /\ svc \in {"stopped", "returned"} => worker # "running"
        /\ "STOPPED" \in {status.state, scm.state, loaded} => svc \in {"stopped", "returned"}

\* Once STOP_PENDING has been filled in, no RUNNING is on its way any more.
StopInv ==
    /\ scm.state = "RUNNING" \/ handler # "idle" \/ status.state \in Stopping => PastRunning
    /\ status.state = "RUNNING" => svc = "running" \/ PastRunning
    /\ handler \in {"signal", "load", "again"} => status.state \in Stopping
    /\ handler = "stopPending" /\ phase["handler"] > 0 => status.state \in Stopping
    /\ handler = "again" => loaded \in Stopping
    /\ scm.state = "STOP_PENDING" => status.state \in Stopping

\* A thread that does not report has no report half done.
PhaseInv ==
    /\ handler \notin {"stopPending", "again"} => phase["handler"] = 0
    /\ svc \notin DOMAIN Reports => phase["svc"] = 0

IInv == TypeOK /\ PhaseInv /\ EventInv /\ WorkerInv /\ StopInv

-----------------------------------------------------------------------------
LEMMA ReportFacts ==
    /\ DOMAIN Reports = {"startPending", "running", "stopped", "error"}
    /\ Reports["startPending"].state = "START_PENDING" /\ Reports["running"].state = "RUNNING"
    /\ Reports["stopped"].state = "STOPPED" /\ Reports["error"].state = "STOPPED"
    /\ \A at \in DOMAIN Reports : Reports[at].exit \in {0, 1}
  BY DEF Reports

\* The statements of init_ follow each other.
LEMMA AfterFacts ==
    /\ After("register") = "startPending" /\ After("startPending") = "createEvent"
    /\ After("createEvent") = "running" /\ After("running") = "createThread"
    /\ After("createThread") = "wait" /\ After("wait") = "terminate"
    /\ After("terminate") = "stopped" /\ After("stopped") = "returned"
    /\ After("error") = "returned"
  BY DEF After, Order

LEMMA PointFacts ==
    SvcPoints = {"register", "startPending", "createEvent", "running", "createThread", "wait",
                 "terminate", "stopped", "error", "returned"}
  BY ReportFacts DEF SvcPoints

LEMMA InitInv == Init => IInv
<1> SUFFICES ASSUME Init PROVE IInv
  OBVIOUS
<1>1. TypeOK
  <2>1. svc \in SvcPoints
    BY PointFacts DEF Init
  <2>2. status \in Status /\ scm \in Status
    BY DEF Init, Status, States
  <2>3. phase \in [Threads -> 0..2]
    BY DEF Init
  <2>4. QED
    BY <2>1, <2>2, <2>3 DEF Init, TypeOK, States
<1>2. PhaseInv
  BY ReportFacts DEF Init, PhaseInv, Threads
<1>3. EventInv /\ WorkerInv /\ StopInv
  BY DEF Init, EventInv, WorkerInv, StopInv, Stopping, PastRunning
<1>4. QED
  BY <1>1, <1>2, <1>3 DEF IInv

-----------------------------------------------------------------------------
\* The reports.

\* A thread fills in a state that it may hand on.
LEMMA FillStep ==
    ASSUME IInv, NEW th \in Threads, NEW state \in States, NEW exit \in {0, 1}, Fill(th, state, exit),
           th = "svc" => svc \in DOMAIN Reports /\ state = Reports[svc].state,
           th = "handler" => handler \in {"stopPending", "again"} /\ state = HandlerState
    PROVE  IInv'
<1>1. \/ phase[th] = 0 /\ status' = [status EXCEPT !.state = state]
      \/ phase[th] = 1 /\ status' = [status EXCEPT !.exit = exit, !.accepts = Accepts(state)]
  BY DEF Fill
<1>2. UNCHANGED <<svc, handler, loaded, scm, event, worker, erred, process, stopped>>
  BY DEF Fill
<1>3. /\ phase' \in [Threads -> 0..2] /\ phase'[th] = phase[th] + 1
      /\ \A o \in Threads \ {th} : phase'[o] = phase[o]
  BY DEF Fill, IInv, TypeOK, Threads
<1>4. status' \in Status
  BY <1>1 DEF IInv, TypeOK, Status, Accepts
<1>5. status'.state = status.state \/ status'.state = state
  BY <1>1 DEF IInv, TypeOK, Status
<1>6. TypeOK'
  BY <1>2, <1>3, <1>4 DEF IInv, TypeOK
<1>7. PhaseInv'
  BY <1>2, <1>3 DEF IInv, PhaseInv, Threads
<1>8. CASE th = "svc"
  <2>1. EventInv'
    BY <1>2, <1>5, <1>8, ReportFacts DEF IInv, EventInv
  <2>2. WorkerInv'
    BY <1>2, <1>5, <1>8, ReportFacts DEF IInv, WorkerInv
  <2>3. StopInv'
    BY <1>2, <1>3, <1>5, <1>8, ReportFacts
    DEF IInv, StopInv, Stopping, PastRunning, Threads
  <2>4. QED
    BY <1>6, <1>7, <2>1, <2>2, <2>3 DEF IInv
<1>9. CASE th = "handler"
  <2>1. state \in Stopping /\ (state = "STOPPED" /\ ~erred => svc \in {"stopped", "returned"})
    BY <1>9 DEF IInv, StopInv, WorkerInv, Stopping, HandlerState
  <2>2. EventInv'
    BY <1>2, <1>5, <2>1 DEF IInv, EventInv, Stopping
  <2>3. WorkerInv'
    BY <1>2, <1>5, <2>1 DEF IInv, WorkerInv, Stopping
  <2>4. PastRunning
    BY <1>9 DEF IInv, StopInv
  <2>5. phase[th] = 0 => status'.state = state
    BY <1>1 DEF IInv, TypeOK, Status
  <2>6. StopInv'
    BY <1>1, <1>2, <1>3, <1>5, <1>9, <2>1, <2>4, <2>5
    DEF IInv, TypeOK, StopInv, Stopping, PastRunning
  <2>7. QED
    BY <1>6, <1>7, <2>2, <2>3, <2>6 DEF IInv
<1>10. QED
  BY <1>8, <1>9 DEF Threads

LEMMA SvcFillStep == IInv /\ SvcFill => IInv'
<1> SUFFICES ASSUME IInv, SvcFill PROVE IInv'
  OBVIOUS
<1>1. "svc" \in Threads /\ Reports[svc].state \in States /\ Reports[svc].exit \in {0, 1}
  BY ReportFacts DEF SvcFill, Threads, States
<1>2. QED
  BY <1>1, FillStep DEF SvcFill

LEMMA HandlerFillStep == IInv /\ HandlerFill => IInv'
<1> SUFFICES ASSUME IInv, HandlerFill PROVE IInv'
  OBVIOUS
<1>1. "handler" \in Threads /\ HandlerState \in States
  BY DEF Threads, HandlerState, States, IInv, TypeOK
<1>2. QED
  BY <1>1, FillStep DEF HandlerFill

\* init_ hands over what is in the struct, which may be the handler's.
LEMMA SvcSetStep ==
    ASSUME IInv, SvcSet
    PROVE  IInv'
<1>1. /\ svc \in DOMAIN Reports /\ svc' = After(svc) /\ scm' = status
      /\ UNCHANGED <<handler, loaded, status, event, worker, erred, process>>
  BY DEF SvcSet, Set, Proceed
<1>2. phase' \in [Threads -> 0..2] /\ phase'["svc"] = 0 /\ phase'["handler"] = phase["handler"]
  BY DEF SvcSet, Set, IInv, TypeOK, Threads
<1>3. svc' \in {"createEvent", "createThread", "returned"}
  BY <1>1, ReportFacts, AfterFacts
<1>4. stopped' \in BOOLEAN
  BY DEF SvcSet, Set, IInv, TypeOK
<1>5. TypeOK'
  BY <1>1, <1>2, <1>3, <1>4, PointFacts DEF IInv, TypeOK
<1>6. PhaseInv'
  BY <1>1, <1>2 DEF IInv, PhaseInv
<1>7. EventInv'
  BY <1>1, ReportFacts, AfterFacts DEF IInv, EventInv
<1>8. WorkerInv'
  BY <1>1, ReportFacts, AfterFacts DEF IInv, WorkerInv
<1>9. StopInv'
  BY <1>1, <1>2, ReportFacts, AfterFacts DEF IInv, StopInv, Stopping, PastRunning
<1>10. QED
  BY <1>5, <1>6, <1>7, <1>8, <1>9 DEF IInv

LEMMA SvcSetFailsStep ==
    ASSUME IInv, SvcSetFails
    PROVE  IInv'
<1>1. /\ svc \in DOMAIN Reports
      /\ \/ svc' = "error" /\ erred' = TRUE /\ process' = process
         \/ svc = "error" /\ svc' = svc /\ erred' = erred /\ process' = "crashed"
      /\ UNCHANGED <<handler, loaded, status, scm, stopped, event, worker>>
  BY DEF SvcSetFails, SetFails, Throw
<1>2. phase' \in [Threads -> 0..2] /\ phase'["svc"] = 0 /\ phase'["handler"] = phase["handler"]
  BY DEF SvcSetFails, SetFails, IInv, TypeOK, Threads
<1>3. TypeOK' /\ PhaseInv'
  BY <1>1, <1>2, PointFacts DEF IInv, TypeOK, PhaseInv
<1>4. EventInv' /\ WorkerInv'
  BY <1>1 DEF IInv, EventInv, WorkerInv
<1>5. StopInv'
  BY <1>1, <1>2 DEF IInv, StopInv, Stopping, PastRunning
<1>6. QED
  BY <1>3, <1>4, <1>5 DEF IInv

LEMMA HandlerSetStep ==
    ASSUME IInv, HandlerSet
    PROVE  IInv'
<1>1. /\ handler \in {"stopPending", "again"} /\ scm' = status
      /\ handler' = IF handler = "stopPending" THEN "signal" ELSE "idle"
      /\ UNCHANGED <<svc, loaded, status, event, worker, erred, process>>
  BY DEF HandlerSet, Set
<1>2. /\ phase["handler"] = 2
      /\ phase' \in [Threads -> 0..2] /\ phase'["handler"] = 0 /\ phase'["svc"] = phase["svc"]
  BY DEF HandlerSet, Set, IInv, TypeOK, Threads
<1>3. stopped' \in BOOLEAN
  BY DEF HandlerSet, Set, IInv, TypeOK
<1>4. TypeOK' /\ PhaseInv'
  BY <1>1, <1>2, <1>3 DEF IInv, TypeOK, PhaseInv
<1>5. EventInv' /\ WorkerInv'
  BY <1>1 DEF IInv, EventInv, WorkerInv
<1>6. StopInv'
  BY <1>1, <1>2 DEF IInv, StopInv, Stopping, PastRunning
<1>7. QED
  BY <1>4, <1>5, <1>6 DEF IInv

LEMMA HandlerSetFailsStep ==
    ASSUME IInv, HandlerSetFails
    PROVE  IInv'
<1>1. /\ handler' = "idle"
      /\ UNCHANGED <<svc, loaded, status, scm, stopped, event, worker, erred, process>>
  BY DEF HandlerSetFails, SetFails
<1>2. phase' \in [Threads -> 0..2] /\ phase'["handler"] = 0 /\ phase'["svc"] = phase["svc"]
  BY DEF HandlerSetFails, SetFails, IInv, TypeOK, Threads
<1>3. TypeOK' /\ PhaseInv'
  BY <1>1, <1>2 DEF IInv, TypeOK, PhaseInv
<1>4. EventInv' /\ WorkerInv'
  BY <1>1 DEF IInv, EventInv, WorkerInv
<1>5. StopInv'
  BY <1>1, <1>2 DEF IInv, StopInv, Stopping, PastRunning
<1>6. QED
  BY <1>3, <1>4, <1>5 DEF IInv

-----------------------------------------------------------------------------
\* The other statements of init_.

LEMMA SvcStep ==
    ASSUME IInv, Register \/ CreateEvent \/ CreateThread \/ Wait \/ Terminate \/ WaitFails
    PROVE  IInv'
<1>1. /\ svc \in {"register", "createEvent", "createThread", "wait", "terminate"}
      /\ \/ svc' = After(svc) /\ erred' = erred
         \/ svc' = "error" /\ erred' = TRUE
      /\ UNCHANGED <<handler, phase, loaded, status, scm, stopped, process>>
  BY DEF Register, CreateEvent, CreateThread, Wait, Terminate, WaitFails, Svc, Proceed, Throw
<1>2. event' \in {event, "clear"} /\ worker' \in {worker, "running", "terminated"}
  BY DEF Register, CreateEvent, CreateThread, Wait, Terminate, WaitFails
<1>3. svc = "createEvent" /\ svc' = "running" => event' = "clear"
  BY DEF Register, CreateEvent, CreateThread, Wait, Terminate, WaitFails, Svc, Throw
<1>4. svc' \in {"stopped", "returned"} => worker' = "terminated"
  BY AfterFacts
  DEF Register, CreateEvent, CreateThread, Wait, Terminate, WaitFails, Svc, Proceed, Throw
<1>5. TypeOK' /\ PhaseInv'
  <2>1. svc' \in SvcPoints
    BY <1>1, AfterFacts, PointFacts
  <2>2. erred' \in BOOLEAN
    BY <1>1 DEF IInv, TypeOK
  <2>3. phase["svc"] = 0
    BY <1>1, ReportFacts DEF IInv, PhaseInv
  <2>4. event' \in {"none", "clear", "set"} /\ worker' \in {"none", "running", "terminated"}
    BY <1>2 DEF IInv, TypeOK
  <2>5. QED
    BY <1>1, <2>1, <2>2, <2>3, <2>4 DEF IInv, TypeOK, PhaseInv
<1>6. EventInv'
  BY <1>1, <1>2, <1>3, AfterFacts DEF IInv, EventInv
<1>7. WorkerInv'
  BY <1>1, <1>4, AfterFacts DEF IInv, WorkerInv
<1>8. StopInv'
  BY <1>1, AfterFacts DEF IInv, StopInv, Stopping, PastRunning
<1>9. QED
  BY <1>5, <1>6, <1>7, <1>8 DEF IInv

\* What the handler does between its reports, and the ends of the process.
LEMMA OtherStep ==
    ASSUME IInv, StopControl \/ Signal \/ Load \/ WorkerEnds \/ DispatcherReturns \/ UNCHANGED vars
    PROVE  IInv'
<1>1. UNCHANGED <<svc, phase, status, scm, stopped, worker, erred>>
  BY DEF StopControl, Signal, Load, WorkerEnds, DispatcherReturns, vars
<1>2. /\ event' \in {event, "set"} /\ loaded' \in {loaded, status.state}
      /\ process' \in {process, "crashed", "exited"}
      /\ \/ handler' = handler /\ (handler = "again" => loaded' = loaded)
         \/ handler = "idle" /\ scm.state = "RUNNING" /\ handler' = "stopPending" /\ loaded' = loaded
         \/ handler = "signal" /\ handler' \in {"load", "idle"} /\ loaded' = loaded
         \/ handler = "load" /\ handler' = "again" /\ loaded' = status.state
  BY DEF StopControl, Signal, Load, WorkerEnds, DispatcherReturns, Handler, vars
<1>3. TypeOK' /\ PhaseInv'
  BY <1>1, <1>2 DEF IInv, TypeOK, Status, PhaseInv
<1>4. EventInv'
  BY <1>1, <1>2 DEF IInv, EventInv
<1>5. WorkerInv'
  BY <1>1, <1>2 DEF IInv, WorkerInv
<1>6. StopInv'
  BY <1>1, <1>2 DEF IInv, StopInv, PhaseInv, Stopping, PastRunning
<1>7. QED
  BY <1>3, <1>4, <1>5, <1>6 DEF IInv

LEMMA NextInv == IInv /\ [Next]_vars => IInv'
  BY SvcFillStep, SvcSetStep, SvcSetFailsStep, SvcStep, HandlerFillStep, HandlerSetStep,
     HandlerSetFailsStep, OtherStep
  DEF Next, SvcNext, HandlerNext

-----------------------------------------------------------------------------
\* The inductive invariant holds of every behaviour of the service.
THEOREM Invariance == Spec => []IInv
  BY InitInv, NextInv, PTL DEF Spec

\* Every variable keeps its type.
THEOREM TypeCorrect == Spec => []TypeOK
  BY Invariance, PTL DEF IInv

\* stop_event exists whenever the handler signals it (Service.hpp:52, 79).
THEOREM SignalsLiveEventThm == Spec => []SignalsLiveEvent
<1>1. IInv => SignalsLiveEvent
  BY DEF IInv, EventInv, SignalsLiveEvent
<1>2. QED
  BY <1>1, Invariance, PTL

\* STOPPED is never reported over a worker that serves on, without an error of
\* init_'s own, whoever hands the status over (Service.hpp:61).
THEOREM StoppedMeansNoWorkerThm == Spec => []StoppedMeansNoWorker
<1>1. IInv => StoppedMeansNoWorker
  BY DEF IInv, WorkerInv, StoppedMeansNoWorker
<1>2. QED
  BY <1>1, Invariance, PTL

\* No interleaving of the unlocked reports takes the service back from
\* STOP_PENDING to RUNNING (Service.hpp:75-83).
THEOREM NeverRunningAgainThm == Spec => NeverRunningAgain
<1>1. IInv /\ [Next]_vars => [scm.state = "STOP_PENDING" => scm'.state # "RUNNING"]_vars
  <2>1. \A th \in Threads : Set(th) => scm' = status
    BY DEF Set
  <2>2. ASSUME Next PROVE scm' \in {scm, status}
    BY <2>1, <2>2
    DEF Next, SvcNext, HandlerNext, SvcFill, SvcSet, SvcSetFails, HandlerFill, HandlerSet,
        HandlerSetFails, Fill, Set, SetFails, Register, CreateEvent, CreateThread, Wait, Terminate,
        WaitFails, StopControl, Signal, Load, WorkerEnds, DispatcherReturns
  <2>3. QED
    BY <2>2 DEF IInv, StopInv, Stopping
<1>2. QED
  BY <1>1, Invariance, PTL DEF Spec, NeverRunningAgain

-----------------------------------------------------------------------------
\* Liveness. A thread goes through the steps of its function one by one.

\* Weak fairness speaks of ENABLED, which the provers do not see into: here are
\* the guards of the two threads' steps written out. Either has one at every
\* statement but the wait of init_, which ends once the event is set. It is a
\* fact about the actions' definitions and says nothing of the code, so it is no
\* property of a run but the hypothesis []GuardsEnable of the theorems below.
GuardsEnable ==
    process = "alive" =>
        /\ svc \notin {"wait", "returned"} \/ (svc = "wait" /\ event = "set")
               => ENABLED <<SvcNext>>_vars
        /\ handler # "idle" => ENABLED <<HandlerNext>>_vars

\* Before its statement there is no event that could be set.
NoEventYet == svc \in {"register", "startPending", "createEvent"} => event = "none"

LEMMA NoEventYetInv == Spec => []NoEventYet
<1>1. Init => NoEventYet
  BY DEF Init, NoEventYet
<1>2. NoEventYet /\ [Next]_vars => NoEventYet'
  <2>1. ASSUME NoEventYet, SvcSet PROVE NoEventYet'
    BY <2>1, ReportFacts, AfterFacts DEF NoEventYet, SvcSet, Set, Proceed
  <2>2. ASSUME NoEventYet, Next, ~SvcSet PROVE NoEventYet'
    BY <2>2, AfterFacts
    DEF NoEventYet, Next, SvcNext, HandlerNext, SvcFill, SvcSetFails, Register, CreateEvent,
        CreateThread, Wait, Terminate, HandlerFill, HandlerSet, HandlerSetFails, Signal, Load,
        StopControl, WaitFails, WorkerEnds, DispatcherReturns, Fill, Set, SetFails, Proceed,
        Throw, Svc
  <2>3. QED
    BY <2>1, <2>2 DEF NoEventYet, vars
<1>3. QED
  BY <1>1, <1>2, PTL DEF Spec

\* The service thread is at step k of statement p; up to the wait with the
\* event set, which ends it.
At(p, k) ==
    /\ process = "alive" /\ svc = p /\ phase["svc"] = k
    /\ p \in {"running", "createThread", "wait"} => event = "set"

Ended == svc = "returned" \/ process # "alive"

\* Only its own steps move the service thread on, or clear the event.
LEMMA SvcStays ==
    ASSUME IInv, [Next]_vars, NEW p, NEW k, At(p, k)
    PROVE  At(p, k)' \/ Ended' \/ SvcNext \/ WaitFails
<1>1. CASE HandlerNext
  <2>1. svc' = svc /\ (process' = process) /\ phase'["svc"] = phase["svc"]
    BY <1>1
    DEF HandlerNext, HandlerFill, HandlerSet, HandlerSetFails, Signal, Load, Fill, Set, SetFails,
        IInv, TypeOK, Threads
  <2>2. event = "set" => event' = "set"
    BY <1>1
    DEF HandlerNext, HandlerFill, HandlerSet, HandlerSetFails, Signal, Load, Fill, Set, SetFails
  <2>3. QED
    BY <2>1, <2>2 DEF At
<1>2. CASE StopControl \/ WorkerEnds \/ DispatcherReturns \/ UNCHANGED vars
  BY <1>2 DEF StopControl, WorkerEnds, DispatcherReturns, vars, At, Ended
<1>3. QED
  BY <1>1, <1>2 DEF Next

\* Where its steps lead.
LEMMA SvcGoesOn ==
    ASSUME IInv, NEW p, NEW k \in 0..2, At(p, k), SvcNext \/ WaitFails
    PROVE  /\ p \in DOMAIN Reports /\ k < 2 => At(p, k + 1)'
           /\ p = "running" /\ k = 2 => At("createThread", 0)' \/ At("error", 0)'
           /\ p = "createThread" => At("wait", 0)' \/ At("error", 0)'
           /\ p = "wait" => At("terminate", 0)' \/ At("error", 0)'
           /\ p = "terminate" => At("stopped", 0)' \/ At("error", 0)'
           /\ p = "stopped" /\ k = 2 => At("error", 0)' \/ Ended'
           /\ p = "error" /\ k = 2 => Ended'
<1>1. /\ process = "alive" /\ svc = p /\ phase["svc"] = k
      /\ p \in {"running", "createThread", "wait"} => event = "set"
      /\ phase \in [Threads -> 0..2]
  BY DEF At, IInv, TypeOK
<1>2. p \notin DOMAIN Reports => k = 0
  BY <1>1 DEF IInv, PhaseInv
<1>3. CASE SvcFill
  BY <1>1, <1>3, ReportFacts DEF SvcFill, Fill, At, Threads
<1>4. CASE SvcSet
  BY <1>1, <1>4, ReportFacts, AfterFacts DEF SvcSet, Set, Proceed, At, Ended, Threads
<1>5. CASE SvcSetFails
  BY <1>1, <1>5, ReportFacts DEF SvcSetFails, SetFails, Throw, At, Ended, Threads
<1>6. CASE Register \/ CreateEvent \/ CreateThread \/ Wait \/ Terminate \/ WaitFails
  BY <1>1, <1>2, <1>6, ReportFacts, AfterFacts
  DEF Register, CreateEvent, CreateThread, Wait, Terminate, WaitFails, Svc, Proceed, Throw, At
<1>7. QED
  BY <1>3, <1>4, <1>5, <1>6 DEF SvcNext

\* The two together, for a step of anybody and for one of the thread.
LEMMA SvcChain ==
    /\ IInv /\ [Next]_vars /\ At("error", 2) => At("error", 2)' \/ Ended'
    /\ IInv /\ [Next]_vars /\ At("error", 1) => At("error", 1)' \/ Ended' \/ At("error", 2)'
    /\ IInv /\ [Next]_vars /\ At("error", 0) => At("error", 0)' \/ Ended' \/ At("error", 1)'
    /\ IInv /\ [Next]_vars /\ At("stopped", 2) => At("stopped", 2)' \/ Ended' \/ At("error", 0)'
    /\ IInv /\ [Next]_vars /\ At("stopped", 1) => At("stopped", 1)' \/ Ended' \/ At("stopped", 2)'
    /\ IInv /\ [Next]_vars /\ At("stopped", 0) => At("stopped", 0)' \/ Ended' \/ At("stopped", 1)'
    /\ IInv /\ [Next]_vars /\ At("terminate", 0)
           => At("terminate", 0)' \/ Ended' \/ At("error", 0)' \/ At("stopped", 0)'
    /\ IInv /\ [Next]_vars /\ At("wait", 0)
           => At("wait", 0)' \/ Ended' \/ At("error", 0)' \/ At("terminate", 0)'
    /\ IInv /\ [Next]_vars /\ At("createThread", 0)
           => At("createThread", 0)' \/ Ended' \/ At("error", 0)' \/ At("wait", 0)'
    /\ IInv /\ [Next]_vars /\ At("running", 2)
           => At("running", 2)' \/ Ended' \/ At("error", 0)' \/ At("createThread", 0)'
    /\ IInv /\ [Next]_vars /\ At("running", 1) => At("running", 1)' \/ Ended' \/ At("running", 2)'
    /\ IInv /\ [Next]_vars /\ At("running", 0) => At("running", 0)' \/ Ended' \/ At("running", 1)'
  BY SvcStays, SvcGoesOn, ReportFacts

LEMMA SvcChainRuns ==
    /\ IInv /\ <<SvcNext>>_vars /\ At("error", 2) => Ended'
    /\ IInv /\ <<SvcNext>>_vars /\ At("error", 1) => At("error", 2)'
    /\ IInv /\ <<SvcNext>>_vars /\ At("error", 0) => At("error", 1)'
    /\ IInv /\ <<SvcNext>>_vars /\ At("stopped", 2) => Ended' \/ At("error", 0)'
    /\ IInv /\ <<SvcNext>>_vars /\ At("stopped", 1) => At("stopped", 2)'
    /\ IInv /\ <<SvcNext>>_vars /\ At("stopped", 0) => At("stopped", 1)'
    /\ IInv /\ <<SvcNext>>_vars /\ At("terminate", 0) => At("error", 0)' \/ At("stopped", 0)'
    /\ IInv /\ <<SvcNext>>_vars /\ At("wait", 0) => At("error", 0)' \/ At("terminate", 0)'
    /\ IInv /\ <<SvcNext>>_vars /\ At("createThread", 0) => At("error", 0)' \/ At("wait", 0)'
    /\ IInv /\ <<SvcNext>>_vars /\ At("running", 2) => At("error", 0)' \/ At("createThread", 0)'
    /\ IInv /\ <<SvcNext>>_vars /\ At("running", 1) => At("running", 2)'
    /\ IInv /\ <<SvcNext>>_vars /\ At("running", 0) => At("running", 1)'
  BY SvcGoesOn, ReportFacts

\* A thread that has not returned can go on, once the event is set.
LEMMA SvcCanRun ==
    ASSUME GuardsEnable, NEW p, NEW k, At(p, k), p # "returned"
    PROVE  ENABLED <<SvcNext>>_vars
  BY DEF At, GuardsEnable

\* A signaled stop request brings init_ to its end, whichever calls fail on the
\* way and whatever the handler and the worker do (Service.hpp:40-68).
THEOREM StopEndsServiceThm == FairSpec /\ []GuardsEnable => StopEndsService
<1>1. IInv /\ NoEventYet /\ event = "set" =>
        \/ Ended \/ At("running", 0) \/ At("running", 1) \/ At("running", 2)
        \/ At("createThread", 0) \/ At("wait", 0) \/ At("terminate", 0)
        \/ At("stopped", 0) \/ At("stopped", 1) \/ At("stopped", 2)
        \/ At("error", 0) \/ At("error", 1) \/ At("error", 2)
  <2> SUFFICES ASSUME IInv, NoEventYet, event = "set", ~Ended
               PROVE  \/ \E k \in 0..2 : At("running", k) \/ At("stopped", k) \/ At("error", k)
                      \/ At("createThread", 0) \/ At("wait", 0) \/ At("terminate", 0)
    BY SMT
  <2>1. svc \in {"running", "createThread", "wait", "terminate", "stopped", "error"}
    BY PointFacts DEF IInv, TypeOK, NoEventYet, Ended
  <2>2. phase["svc"] \in 0..2 /\ (svc \notin DOMAIN Reports => phase["svc"] = 0)
    BY DEF IInv, TypeOK, PhaseInv, Threads
  <2>3. QED
    BY <2>1, <2>2, ReportFacts DEF At, Ended
<1>2. /\ GuardsEnable /\ At("error", 0) => ENABLED <<SvcNext>>_vars
      /\ GuardsEnable /\ At("error", 1) => ENABLED <<SvcNext>>_vars
      /\ GuardsEnable /\ At("error", 2) => ENABLED <<SvcNext>>_vars
      /\ GuardsEnable /\ At("stopped", 0) => ENABLED <<SvcNext>>_vars
      /\ GuardsEnable /\ At("stopped", 1) => ENABLED <<SvcNext>>_vars
      /\ GuardsEnable /\ At("stopped", 2) => ENABLED <<SvcNext>>_vars
      /\ GuardsEnable /\ At("terminate", 0) => ENABLED <<SvcNext>>_vars
      /\ GuardsEnable /\ At("wait", 0) => ENABLED <<SvcNext>>_vars
      /\ GuardsEnable /\ At("createThread", 0) => ENABLED <<SvcNext>>_vars
      /\ GuardsEnable /\ At("running", 0) => ENABLED <<SvcNext>>_vars
      /\ GuardsEnable /\ At("running", 1) => ENABLED <<SvcNext>>_vars
      /\ GuardsEnable /\ At("running", 2) => ENABLED <<SvcNext>>_vars
  BY SvcCanRun
<1>3. FairSpec /\ []GuardsEnable => (At("error", 2) ~> Ended)
  BY <1>2, SvcChain, SvcChainRuns, Invariance, PTL DEF FairSpec, Spec, SvcRuns
<1>4. FairSpec /\ []GuardsEnable => (At("error", 1) ~> Ended)
  BY <1>2, <1>3, SvcChain, SvcChainRuns, Invariance, PTL DEF FairSpec, Spec, SvcRuns
<1>5. FairSpec /\ []GuardsEnable => (At("error", 0) ~> Ended)
  BY <1>2, <1>4, SvcChain, SvcChainRuns, Invariance, PTL DEF FairSpec, Spec, SvcRuns
<1>6. FairSpec /\ []GuardsEnable => (At("stopped", 2) ~> Ended)
  BY <1>2, <1>5, SvcChain, SvcChainRuns, Invariance, PTL DEF FairSpec, Spec, SvcRuns
<1>7. FairSpec /\ []GuardsEnable => (At("stopped", 1) ~> Ended)
  BY <1>2, <1>6, SvcChain, SvcChainRuns, Invariance, PTL DEF FairSpec, Spec, SvcRuns
<1>8. FairSpec /\ []GuardsEnable => (At("stopped", 0) ~> Ended)
  BY <1>2, <1>7, SvcChain, SvcChainRuns, Invariance, PTL DEF FairSpec, Spec, SvcRuns
<1>9. FairSpec /\ []GuardsEnable => (At("terminate", 0) ~> Ended)
  BY <1>2, <1>5, <1>8, SvcChain, SvcChainRuns, Invariance, PTL DEF FairSpec, Spec, SvcRuns
<1>10. FairSpec /\ []GuardsEnable => (At("wait", 0) ~> Ended)
  BY <1>2, <1>5, <1>9, SvcChain, SvcChainRuns, Invariance, PTL DEF FairSpec, Spec, SvcRuns
<1>11. FairSpec /\ []GuardsEnable => (At("createThread", 0) ~> Ended)
  BY <1>2, <1>5, <1>10, SvcChain, SvcChainRuns, Invariance, PTL DEF FairSpec, Spec, SvcRuns
<1>12. FairSpec /\ []GuardsEnable => (At("running", 2) ~> Ended)
  BY <1>2, <1>5, <1>11, SvcChain, SvcChainRuns, Invariance, PTL DEF FairSpec, Spec, SvcRuns
<1>13. FairSpec /\ []GuardsEnable => (At("running", 1) ~> Ended)
  BY <1>2, <1>12, SvcChain, SvcChainRuns, Invariance, PTL DEF FairSpec, Spec, SvcRuns
<1>14. FairSpec /\ []GuardsEnable => (At("running", 0) ~> Ended)
  BY <1>2, <1>13, SvcChain, SvcChainRuns, Invariance, PTL DEF FairSpec, Spec, SvcRuns
<1>15. Ended => svc = "returned" \/ process # "alive"
  BY DEF Ended
<1>16. FairSpec /\ []GuardsEnable => (event = "set" ~> Ended)
  BY <1>1, <1>3, <1>4, <1>5, <1>6, <1>7, <1>8, <1>9, <1>10, <1>11, <1>12, <1>13, <1>14,
     Invariance, NoEventYetInv, PTL DEF FairSpec
<1>17. QED
  BY <1>15, <1>16, PTL DEF StopEndsService

\* The handler is at step k of statement p of control_handler_.
In(p, k) == process = "alive" /\ handler = p /\ phase["handler"] = k

Back == handler = "idle" \/ process # "alive"

LEMMA HandlerStays ==
    ASSUME IInv, [Next]_vars, NEW p, NEW k, In(p, k), p # "idle"
    PROVE  In(p, k)' \/ Back' \/ HandlerNext
<1>1. CASE SvcNext \/ WaitFails
  <2>1. handler' = handler /\ phase'["handler"] = phase["handler"]
    BY <1>1
    DEF SvcNext, SvcFill, SvcSet, SvcSetFails, Register, CreateEvent, CreateThread, Wait,
        Terminate, WaitFails, Fill, Set, SetFails, IInv, TypeOK, Threads
  <2>2. QED
    BY <2>1, <1>1 DEF In, Back
<1>2. CASE StopControl \/ WorkerEnds \/ DispatcherReturns \/ UNCHANGED vars
  BY <1>2 DEF StopControl, WorkerEnds, DispatcherReturns, Handler, vars, In, Back
<1>3. QED
  BY <1>1, <1>2 DEF Next

LEMMA HandlerGoesOn ==
    ASSUME IInv, NEW p, NEW k \in 0..2, In(p, k), HandlerNext
    PROVE  /\ p \in {"stopPending", "again"} /\ k < 2 => In(p, k + 1)'
           /\ p = "stopPending" /\ k = 2 => In("signal", 0)' \/ Back'
           /\ p = "signal" => In("load", 0)' \/ Back'
           /\ p = "load" => In("again", 0)'
           /\ p = "again" /\ k = 2 => Back'
<1>1. /\ process = "alive" /\ handler = p /\ phase["handler"] = k
      /\ phase \in [Threads -> 0..2]
      /\ p \in {"signal", "load"} => k = 0
  BY DEF In, IInv, TypeOK, PhaseInv
<1>2. CASE HandlerFill
  BY <1>1, <1>2 DEF HandlerFill, Fill, In, Threads
<1>3. CASE HandlerSet
  BY <1>1, <1>3 DEF HandlerSet, Set, In, Back, Threads
<1>4. CASE HandlerSetFails
  BY <1>1, <1>4 DEF HandlerSetFails, SetFails, In, Back
<1>5. CASE Signal \/ Load
  BY <1>1, <1>5 DEF Signal, Load, Handler, In, Back
<1>6. QED
  BY <1>2, <1>3, <1>4, <1>5 DEF HandlerNext

LEMMA HandlerChain ==
    /\ IInv /\ [Next]_vars /\ In("again", 2) => In("again", 2)' \/ Back'
    /\ IInv /\ [Next]_vars /\ In("again", 1) => In("again", 1)' \/ Back' \/ In("again", 2)'
    /\ IInv /\ [Next]_vars /\ In("again", 0) => In("again", 0)' \/ Back' \/ In("again", 1)'
    /\ IInv /\ [Next]_vars /\ In("load", 0) => In("load", 0)' \/ Back' \/ In("again", 0)'
    /\ IInv /\ [Next]_vars /\ In("signal", 0) => In("signal", 0)' \/ Back' \/ In("load", 0)'
    /\ IInv /\ [Next]_vars /\ In("stopPending", 2)
           => In("stopPending", 2)' \/ Back' \/ In("signal", 0)'
    /\ IInv /\ [Next]_vars /\ In("stopPending", 1)
           => In("stopPending", 1)' \/ Back' \/ In("stopPending", 2)'
    /\ IInv /\ [Next]_vars /\ In("stopPending", 0)
           => In("stopPending", 0)' \/ Back' \/ In("stopPending", 1)'
  BY HandlerStays, HandlerGoesOn

LEMMA HandlerChainRuns ==
    /\ IInv /\ <<HandlerNext>>_vars /\ In("again", 2) => Back'
    /\ IInv /\ <<HandlerNext>>_vars /\ In("again", 1) => In("again", 2)'
    /\ IInv /\ <<HandlerNext>>_vars /\ In("again", 0) => In("again", 1)'
    /\ IInv /\ <<HandlerNext>>_vars /\ In("load", 0) => In("again", 0)'
    /\ IInv /\ <<HandlerNext>>_vars /\ In("signal", 0) => In("load", 0)' \/ Back'
    /\ IInv /\ <<HandlerNext>>_vars /\ In("stopPending", 2) => In("signal", 0)' \/ Back'
    /\ IInv /\ <<HandlerNext>>_vars /\ In("stopPending", 1) => In("stopPending", 2)'
    /\ IInv /\ <<HandlerNext>>_vars /\ In("stopPending", 0) => In("stopPending", 1)'
  BY HandlerGoesOn

LEMMA HandlerCanRun ==
    ASSUME GuardsEnable, NEW p, NEW k, In(p, k), p # "idle"
    PROVE  ENABLED <<HandlerNext>>_vars
  BY DEF In, GuardsEnable

\* The control handler always returns to the service manager, which sends no
\* other control before it has: it takes no lock and waits for neither init_ nor
\* the worker (Service.hpp:70-91).
THEOREM HandlerReturns == FairSpec /\ []GuardsEnable => (handler # "idle" ~> Back)
<1>1. IInv /\ handler # "idle" =>
        \/ Back \/ In("stopPending", 0) \/ In("stopPending", 1) \/ In("stopPending", 2)
        \/ In("signal", 0) \/ In("load", 0)
        \/ In("again", 0) \/ In("again", 1) \/ In("again", 2)
  BY DEF IInv, TypeOK, PhaseInv, In, Back, Threads
<1>2. /\ GuardsEnable /\ In("again", 0) => ENABLED <<HandlerNext>>_vars
      /\ GuardsEnable /\ In("again", 1) => ENABLED <<HandlerNext>>_vars
      /\ GuardsEnable /\ In("again", 2) => ENABLED <<HandlerNext>>_vars
      /\ GuardsEnable /\ In("load", 0) => ENABLED <<HandlerNext>>_vars
      /\ GuardsEnable /\ In("signal", 0) => ENABLED <<HandlerNext>>_vars
      /\ GuardsEnable /\ In("stopPending", 0) => ENABLED <<HandlerNext>>_vars
      /\ GuardsEnable /\ In("stopPending", 1) => ENABLED <<HandlerNext>>_vars
      /\ GuardsEnable /\ In("stopPending", 2) => ENABLED <<HandlerNext>>_vars
  BY HandlerCanRun
<1>3. FairSpec /\ []GuardsEnable => (In("again", 2) ~> Back)
  BY <1>2, HandlerChain, HandlerChainRuns, Invariance, PTL DEF FairSpec, Spec, HandlerRuns
<1>4. FairSpec /\ []GuardsEnable => (In("again", 1) ~> Back)
  BY <1>2, <1>3, HandlerChain, HandlerChainRuns, Invariance, PTL DEF FairSpec, Spec, HandlerRuns
<1>5. FairSpec /\ []GuardsEnable => (In("again", 0) ~> Back)
  BY <1>2, <1>4, HandlerChain, HandlerChainRuns, Invariance, PTL DEF FairSpec, Spec, HandlerRuns
<1>6. FairSpec /\ []GuardsEnable => (In("load", 0) ~> Back)
  BY <1>2, <1>5, HandlerChain, HandlerChainRuns, Invariance, PTL DEF FairSpec, Spec, HandlerRuns
<1>7. FairSpec /\ []GuardsEnable => (In("signal", 0) ~> Back)
  BY <1>2, <1>6, HandlerChain, HandlerChainRuns, Invariance, PTL DEF FairSpec, Spec, HandlerRuns
<1>8. FairSpec /\ []GuardsEnable => (In("stopPending", 2) ~> Back)
  BY <1>2, <1>7, HandlerChain, HandlerChainRuns, Invariance, PTL DEF FairSpec, Spec, HandlerRuns
<1>9. FairSpec /\ []GuardsEnable => (In("stopPending", 1) ~> Back)
  BY <1>2, <1>8, HandlerChain, HandlerChainRuns, Invariance, PTL DEF FairSpec, Spec, HandlerRuns
<1>10. FairSpec /\ []GuardsEnable => (In("stopPending", 0) ~> Back)
  BY <1>2, <1>9, HandlerChain, HandlerChainRuns, Invariance, PTL DEF FairSpec, Spec, HandlerRuns
<1>11. QED
  BY <1>1, <1>3, <1>4, <1>5, <1>6, <1>7, <1>8, <1>9, <1>10, Invariance, PTL DEF FairSpec

===============================================================================
