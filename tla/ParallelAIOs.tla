---------------------------- MODULE ParallelAIOs ----------------------------
(***************************************************************************)
(* The coroutine runtime of Concurrency.hpp/.cpp with the coroutines the   *)
(* program runs on it: N tasks, each an async_transfer (IOBase.hpp) from   *)
(* one handle to another, driven by one thread in ParallelAIOs::run().     *)
(*                                                                         *)
(* A task is a stack of coroutines (Roles):                                *)
(*                                                                         *)
(*    transfer -+-> read              src.read_async_into                  *)
(*              +-> full --> write    dst.write_async_full_from, and in it *)
(*                                    dst.write_async_from                 *)
(*                                                                         *)
(* and owns one AIOEnv: a manual-reset event, one OVERLAPPED that every    *)
(* operation of the task reuses, an optional non-I/O handle to wait for,   *)
(* and current_, the coroutine that the scheduler is to resume.            *)
(*                                                                         *)
(* An action of the thread runs one coroutine from a suspension point to   *)
(* the next transfer of control (co_await, co_return, throw).  Windows     *)
(* interleaves its own steps: overlapped operations complete, keys are     *)
(* pressed, the process given to until() ends.                             *)
(*                                                                         *)
(* Bytes are numbered by their place in the source's stream.               *)
(***************************************************************************)
EXTENDS Naturals, Sequences

CONSTANTS
    N,          \* number of tasks
    Src, Dst,   \* kind of handle each task reads from and writes to
    Until,      \* whether a cancellation handle was given with until()
    BufSize,    \* async_transfer's buf_size (4096 in the code)
    MaxBytes    \* bound: bytes a source hands out over its life

Tasks == 1..N
Kinds == {"socket", "pipe", "console"}

ASSUME ParallelAIOsAssumption ==
    /\ N \in Nat \ {0}
    /\ Src \in [Tasks -> Kinds]
    /\ Dst \in [Tasks -> Kinds]
    /\ Until \in BOOLEAN
    /\ BufSize \in Nat \ {0}
    /\ MaxBytes \in Nat

Roles == {"transfer", "read", "full", "write"}

\* Mutant: a coroutine two levels down records the root as its parent.
ParentIsRoot(c) == IF c = "transfer" THEN "none" ELSE "transfer"

\* promise.parent: the coroutine whose co_await started c.
Parent(c) == IF c = "transfer" THEN "none"
             ELSE IF c = "write" THEN "full" ELSE "transfer"

\* Where a coroutine is suspended: before its first statement, at one of the
\* two event awaits, in a co_await of the named child, or with no code left to
\* run (never created, or at its final suspend point).
Points == {"start", "io", "event", "done", "read", "full", "write"}

\* What a callee hands to its caller: eof<size_t>, or the exception that
\* await_resume rethrows.
Outcomes == [n : Nat, eof : BOOLEAN, exc : BOOLEAN]

Got(k) == [n |-> k, eof |-> (k = 0), exc |-> FALSE]
Typed(k) == [n |-> k, eof |-> FALSE, exc |-> FALSE]
PeerReset == [n |-> 0, eof |-> TRUE, exc |-> FALSE]
Thrown == [n |-> 0, eof |-> FALSE, exc |-> TRUE]

VARIABLES
    pc,         \* run(): "check" the loop condition, "wait", "step", "returned"
    cursor,     \* the task whose AIOEnv::step() is next or in progress
    running,    \* the coroutine of task `cursor` that has the thread, or "none"
    nest,       \* activations of coroutine_handle::resume() on the thread's stack
    progress,   \* history: the last pass over the tasks resumed one of them
    aborted,    \* update_current threw out of its noexcept: std::terminate
    current,    \* AIOEnv::current_, a role or "none"
    ioDone,     \* AIOEnv::io_done_ is signaled
    nonIo,      \* AIOEnv::non_io_event_ is set (to the console's input handle)
    at,         \* at[t][c]: the point where coroutine c of task t is suspended
    op,         \* the OVERLAPPED: "idle", in flight, or how it ended
    xfer,       \* bytes it transmitted
    ready,      \* the console input handle is signaled: its queue is not empty
    cancel,     \* the handle given to until() is signaled
    result,     \* outcome of the callee that returned last
    left,       \* buf.size() in write_async_full_from
    taken,      \* bytes the transfer has read
    out,        \* the bytes it has written, in order
    failed      \* an exception rests in the promise of the root coroutine

thread == <<pc, cursor, running, nest, progress>>
env == <<current, ioDone, nonIo>>
kernel == <<op, xfer, ready, cancel>>
data == <<left, taken, out>>
vars == <<pc, cursor, running, nest, progress, aborted, current, ioDone, nonIo,
          at, op, xfer, ready, cancel, result, left, taken, out, failed>>

InFlight == {"recv", "send"}
Ended == {"ok", "reset", "error"}

-----------------------------------------------------------------------------
\* The ParallelAIOs constructor attaches one env to each task; the io_done_
\* event is created signaled, which makes the first step() start the task.
Init ==
    /\ pc = "check" /\ cursor = 1 /\ running = "none" /\ nest = 0
    /\ progress = TRUE
    /\ aborted = FALSE
    /\ current = [t \in Tasks |-> "transfer"]
    /\ ioDone = [t \in Tasks |-> TRUE]
    /\ nonIo = [t \in Tasks |-> FALSE]
    /\ at = [t \in Tasks |-> [c \in Roles |-> IF c = "transfer" THEN "start" ELSE "done"]]
    /\ op = [t \in Tasks |-> "idle"]
    /\ xfer = [t \in Tasks |-> 0]
    /\ ready = FALSE /\ cancel = FALSE
    /\ result = [t \in Tasks |-> Got(0)]
    /\ left = [t \in Tasks |-> 0]
    /\ taken = [t \in Tasks |-> 0]
    /\ out = [t \in Tasks |-> <<>>]
    /\ failed = [t \in Tasks |-> FALSE]

-----------------------------------------------------------------------------
\* Control flow between coroutines, all within task `cursor`.

\* Coroutine c has the thread and goes on from point p.
In(c, p) ==
    /\ pc = "step" /\ ~aborted
    /\ running = c
    /\ at[cursor][c] = p

\* AIOEnv::update_current: it fails, inside a noexcept function, unless the
\* caller is the coroutine on record.
UpdateCurrent(prev, coro) ==
    /\ current' = [current EXCEPT ![cursor] = coro]
    /\ aborted' = (current[cursor] # prev)

\* The loop of ParallelAIOs::step goes to the next env.
NextTask ==
    IF cursor < N THEN cursor' = cursor + 1 /\ pc' = pc
                  ELSE cursor' = 1 /\ pc' = "check"

\* Every await_suspend on the stack returns: control is back in AIOEnv::step.
BackToStep == running' = "none" /\ nest' = 0 /\ NextTask /\ UNCHANGED progress

\* co_await io_done_signaled{} or event_signaled{...}.
Suspend(c, p) ==
    /\ at' = [at EXCEPT ![cursor][c] = p]
    /\ UpdateCurrent(c, c)
    /\ BackToStep

\* co_await of a child: AIO::await_suspend resumes it on top of the caller.
Call(m, c) ==
    /\ at' = [at EXCEPT ![cursor][m] = c, ![cursor][c] = "start"]
    /\ UpdateCurrent(m, c)
    /\ running' = c
    /\ nest' = nest + 1
    /\ UNCHANGED <<pc, cursor, progress>>

\* Mutant: the final awaiter leaves current_ alone.
FinalSuspendForgets(c) ==
    running' = Parent(c) /\ UNCHANGED <<nest, current, aborted>>

\* Mutant: the final awaiter calls parent.resume() instead of returning parent.
FinalSuspendResumes(c) ==
    UpdateCurrent(c, Parent(c)) /\ running' = Parent(c) /\ nest' = nest + 1

\* final_suspend of a child: control goes to the parent without growing the
\* stack (symmetric transfer).
FinalSuspend(c) ==
    UpdateCurrent(c, Parent(c)) /\ running' = Parent(c) /\ UNCHANGED nest

\* co_return or an exception leaves c.
Return(c, r) ==
    /\ at' = [at EXCEPT ![cursor][c] = "done"]
    /\ result' = [result EXCEPT ![cursor] = r]
    /\ FinalSuspend(c)
    /\ UNCHANGED <<pc, cursor, progress>>

\* The root coroutine ends. Its exception, if any, stays in its promise.
TransferEnd(exc) ==
    /\ at' = [at EXCEPT ![cursor]["transfer"] = "done"]
    /\ failed' = [failed EXCEPT ![cursor] = exc]
    /\ UpdateCurrent("transfer", "none")
    /\ BackToStep

-----------------------------------------------------------------------------
\* The scheduler: ParallelAIOs::run, done, wait_any, step and AIOEnv::step.

\* Mutant: the handles of the tasks after the first never enter the wait set.
EventDoneFirstOnly(t) == t = 1 /\ (IF nonIo[t] THEN ready ELSE ioDone[t])

\* What wait_any puts in the wait set for t: event_done().
EventDone(t) == IF nonIo[t] THEN ready ELSE ioDone[t]

Cancelled == Until /\ cancel

\* Mutants: one finished task ends the loop; the cancellation is not looked at.
RunDoneAny == Cancelled \/ \E t \in Tasks : current[t] = "none"
RunDoneUncancelled == \A t \in Tasks : current[t] = "none"

\* ParallelAIOs::done().
RunDone == Cancelled \/ \A t \in Tasks : current[t] = "none"

\* The loop condition of run(). When it ends the loop, the temporary
\* ParallelAIOs is destroyed with its coroutine frames and envs.
Check ==
    /\ pc = "check" /\ ~aborted
    /\ pc' = IF RunDone THEN "returned" ELSE "wait"
    /\ UNCHANGED <<cursor, running, nest, progress, aborted, env, at, kernel,
                   result, data, failed>>

\* wait_any() blocks until one of the handles is signaled.
WaitAny ==
    /\ pc = "wait" /\ ~aborted
    /\ Cancelled \/ \E t \in Tasks : EventDone(t)
    /\ pc' = "step" /\ progress' = FALSE
    /\ UNCHANGED <<cursor, running, nest, aborted, env, at, kernel, result,
                   data, failed>>

\* Mutant: step() resumes without looking at the events.
ResumableAlways(t) == current[t] # "none" /\ at[t][current[t]] # "done"

\* AIOEnv::step() resumes current_ on its non-I/O handle or its io_done_ event.
Resumable(t) ==
    /\ current[t] # "none" /\ at[t][current[t]] # "done"
    /\ (nonIo[t] /\ ready) \/ ioDone[t]

\* Mutant: io_done_.reset() is missing.
ConsumeEventNoReset(t) ==
    IF nonIo[t] /\ ready
      THEN nonIo' = [nonIo EXCEPT ![t] = FALSE] /\ UNCHANGED ioDone
      ELSE UNCHANGED <<ioDone, nonIo>>

\* It clears what it woke on, the handle before the event.
ConsumeEvent(t) ==
    IF nonIo[t] /\ ready
      THEN nonIo' = [nonIo EXCEPT ![t] = FALSE] /\ UNCHANGED ioDone
      ELSE ioDone' = [ioDone EXCEPT ![t] = FALSE] /\ UNCHANGED nonIo

EnvSkip ==
    /\ pc = "step" /\ running = "none" /\ ~aborted
    /\ ~Resumable(cursor)
    /\ BackToStep
    /\ UNCHANGED <<aborted, env, at, kernel, result, data, failed>>

EnvResume ==
    /\ pc = "step" /\ running = "none" /\ ~aborted
    /\ Resumable(cursor)
    /\ ConsumeEvent(cursor)
    /\ running' = current[cursor] /\ nest' = 1 /\ progress' = TRUE
    /\ UNCHANGED <<pc, cursor, aborted, current, at, kernel, result, data, failed>>

-----------------------------------------------------------------------------
\* Overlapped operations, as a leaf coroutine sees them.

\* Mutant: the result is assumed without co_await io_done_signaled{}.
SubmitNoAwait(c, dir) ==
    /\ op' = [op EXCEPT ![cursor] = dir]
    /\ ioDone' = [ioDone EXCEPT ![cursor] = FALSE]
    /\ Return(c, [n |-> left[cursor], eof |-> FALSE, exc |-> FALSE])
    /\ UNCHANGED <<nonIo, xfer, ready, cancel, data, failed>>

\* ReadFile, WriteFile, WSARecv or WSASend accepts the operation and resets
\* the event; even one that completes at once reports through the event.
Submit(c, dir) ==
    /\ op' = [op EXCEPT ![cursor] = dir]
    /\ ioDone' = [ioDone EXCEPT ![cursor] = FALSE]
    /\ Suspend(c, "io")
    /\ UNCHANGED <<nonIo, xfer, ready, cancel, result, data, failed>>

\* The call fails at once: WSAECONNRESET and WSAEDISCON of a socket are its
\* end of file, any other error is thrown by fail().
Refused(c, kind) ==
    /\ \E r \in {PeerReset, Thrown} :
          /\ r = PeerReset => kind = "socket"
          /\ Return(c, r)
    /\ UNCHANGED <<ioDone, nonIo, kernel, data, failed>>

\* (WSA)GetOverlappedResult without waiting: an operation that is still in
\* flight is an error too.
OverlappedResult(t) ==
    IF op[t] = "ok" THEN Got(xfer[t])
    ELSE IF op[t] = "reset" THEN PeerReset ELSE Thrown

\* The leaf takes the result and the OVERLAPPED is free again.
Collect(c) ==
    /\ op' = [op EXCEPT ![cursor] = IF @ \in Ended THEN "idle" ELSE @]
    /\ Return(c, OverlappedResult(cursor))
    /\ UNCHANGED <<ioDone, nonIo, xfer, ready, cancel, left, failed>>

-----------------------------------------------------------------------------
\* src.read_async_into.

\* Handle and Socket start an overlapped read; the console waits for its queue.
ReadStart ==
    /\ In("read", "start") /\ Src[cursor] # "console"
    /\ Submit("read", "recv") \/ Refused("read", Src[cursor])

ReadAwaitConsole ==
    /\ In("read", "start") /\ Src[cursor] = "console"
    /\ nonIo' = [nonIo EXCEPT ![cursor] = TRUE]
    /\ Suspend("read", "event")
    /\ UNCHANGED <<ioDone, kernel, result, data, failed>>

ReadDone ==
    /\ In("read", "io")
    /\ Collect("read")
    /\ taken' = [taken EXCEPT ![cursor] = @ + OverlappedResult(cursor).n]
    /\ UNCHANGED out

\* ConsoleAsyncIO::read_async_into drains the input queue: none or some text,
\* never an end of file. An event that does not fit, or that arrives
\* meanwhile, leaves the handle signaled. Console calls may fail.
ReadConsole ==
    /\ In("read", "event")
    /\ \/ \E n \in 0..BufSize :
             /\ n > 0 => ready
             /\ taken[cursor] + n <= MaxBytes
             /\ Return("read", Typed(n))
             /\ taken' = [taken EXCEPT ![cursor] = @ + n]
             /\ ready' \in (IF ready THEN BOOLEAN ELSE {FALSE})
       \/ Return("read", Thrown) /\ UNCHANGED <<taken, ready>>
    /\ UNCHANGED <<ioDone, nonIo, op, xfer, cancel, left, out, failed>>

-----------------------------------------------------------------------------
\* dst.write_async_from.

\* The next bytes of the buffer.
Chunk(from, n) == [i \in 1..n |-> from + i]

Deliver(n) ==
    out' = [out EXCEPT ![cursor] = @ \o Chunk(taken[cursor] - left[cursor], n)]

WriteStart ==
    /\ In("write", "start") /\ Dst[cursor] # "console"
    /\ Submit("write", "send") \/ Refused("write", Dst[cursor])

WriteDone ==
    /\ In("write", "io")
    /\ Collect("write")
    /\ Deliver(OverlappedResult(cursor).n)
    /\ UNCHANGED taken

\* ConsoleAsyncIO::write_async_from is synchronous: write_from writes the whole
\* buffer or fails, and the coroutine never suspends.
WriteConsole ==
    /\ In("write", "start") /\ Dst[cursor] = "console"
    /\ \/ Return("write", Got(left[cursor])) /\ Deliver(left[cursor])
       \/ Return("write", Thrown) /\ UNCHANGED out
    /\ UNCHANGED <<ioDone, nonIo, kernel, left, taken, failed>>

-----------------------------------------------------------------------------
\* write_async_full_from: write until the buffer is empty or the stream ends.

\* Mutant: subspan is missing.
RestNotAdvanced(r) == left[cursor] - 0 * r.n

\* buf.subspan(result.value): what is left after r was written.
Rest(r) == left[cursor] - r.n

\* Mutant: if instead of while, one write only.
WriteMoreOnce(rest, eof) == rest > 0 /\ ~eof /\ rest = left[cursor]

\* The condition of the while loop.
WriteMore(rest, eof) == rest > 0 /\ ~eof

FullGo(rest, eof) ==
    /\ left' = [left EXCEPT ![cursor] = rest]
    /\ IF WriteMore(rest, eof) THEN Call("full", "write") /\ UNCHANGED result
       ELSE IF eof /\ rest > 0 THEN Return("full", Thrown)
       ELSE Return("full", [n |-> 0, eof |-> eof, exc |-> FALSE])
    /\ UNCHANGED <<ioDone, nonIo, kernel, taken, out, failed>>

FullStart == In("full", "start") /\ FullGo(left[cursor], FALSE)

FullWrote ==
    /\ In("full", "write") /\ ~result[cursor].exc
    /\ FullGo(Rest(result[cursor]), result[cursor].eof)

FullThrow ==
    /\ In("full", "write") /\ result[cursor].exc
    /\ Return("full", Thrown)
    /\ UNCHANGED <<ioDone, nonIo, kernel, data, failed>>

-----------------------------------------------------------------------------
\* async_transfer.

TransferStart ==
    /\ In("transfer", "start")
    /\ Call("transfer", "read")
    /\ UNCHANGED <<ioDone, nonIo, kernel, result, data, failed>>

\* The read returned data: write all of it.
TransferRead ==
    /\ In("transfer", "read") /\ ~result[cursor].exc /\ ~result[cursor].eof
    /\ left' = [left EXCEPT ![cursor] = result[cursor].n]
    /\ Call("transfer", "full")
    /\ UNCHANGED <<ioDone, nonIo, kernel, result, taken, out, failed>>

\* All of it is written: read again.
TransferWrote ==
    /\ In("transfer", "full") /\ ~result[cursor].exc /\ ~result[cursor].eof
    /\ Call("transfer", "read")
    /\ UNCHANGED <<ioDone, nonIo, kernel, result, data, failed>>

\* End of either stream, or the callee's exception: the root coroutine is over.
TransferStop ==
    /\ \E p \in {"read", "full"} : In("transfer", p)
    /\ result[cursor].exc \/ result[cursor].eof
    /\ TransferEnd(result[cursor].exc)
    /\ UNCHANGED <<ioDone, nonIo, kernel, result, data>>

-----------------------------------------------------------------------------
\* Windows.

\* The operation of t ends. A read that transmits nothing is the end of its
\* stream; MaxBytes bounds what a source hands out.
Complete(t) ==
    /\ pc # "returned" /\ op[t] \in InFlight
    /\ ioDone' = [ioDone EXCEPT ![t] = TRUE]
    /\ \/ \E n \in 0..BufSize :
             /\ IF op[t] = "recv" THEN taken[t] + n <= MaxBytes ELSE n \in 1..left[t]
             /\ op' = [op EXCEPT ![t] = "ok"] /\ xfer' = [xfer EXCEPT ![t] = n]
       \/ \E e \in {"reset", "error"} :
             /\ e = "reset" => (IF op[t] = "recv" THEN Src[t] ELSE Dst[t]) = "socket"
             /\ op' = [op EXCEPT ![t] = e] /\ xfer' = [xfer EXCEPT ![t] = 0]
    /\ UNCHANGED <<thread, aborted, current, nonIo, at, ready, cancel, result,
                   data, failed>>

\* A key is pressed, or the mouse moves, in the console.
ConsoleInput ==
    /\ pc # "returned" /\ ~ready
    /\ \E t \in Tasks : Src[t] = "console"
    /\ ready' = TRUE
    /\ UNCHANGED <<thread, aborted, env, at, op, xfer, cancel, result, data, failed>>

\* The process given to until() ends.
Cancel ==
    /\ pc # "returned" /\ Until /\ ~cancel
    /\ cancel' = TRUE
    /\ UNCHANGED <<thread, aborted, env, at, op, xfer, ready, result, data, failed>>

-----------------------------------------------------------------------------
\* The thread that called run(). Its coroutine steps are those of one task.
Coroutine ==
    \/ ReadStart \/ ReadAwaitConsole \/ ReadDone \/ ReadConsole
    \/ WriteStart \/ WriteDone \/ WriteConsole
    \/ FullStart \/ FullWrote \/ FullThrow
    \/ TransferStart \/ TransferRead \/ TransferWrote \/ TransferStop

Thread == Check \/ WaitAny \/ EnvSkip \/ EnvResume \/ Coroutine

Kernel == (\E t \in Tasks : Complete(t)) \/ ConsoleInput \/ Cancel

\* run() has returned.
Returned == pc = "returned" /\ UNCHANGED vars

Next == Thread \/ Kernel \/ Returned

Spec == Init /\ [][Next]_vars

\* The operating system goes on running a thread that is not blocked.
ThreadRuns == WF_vars(Thread)

FairSpec == Spec /\ ThreadRuns

-----------------------------------------------------------------------------
\* Properties.

TypeOK ==
    /\ pc \in {"check", "wait", "step", "returned"}
    /\ cursor \in Tasks
    /\ running \in Roles \cup {"none"}
    /\ nest \in Nat
    /\ progress \in BOOLEAN /\ aborted \in BOOLEAN
    /\ current \in [Tasks -> Roles \cup {"none"}]
    /\ ioDone \in [Tasks -> BOOLEAN] /\ nonIo \in [Tasks -> BOOLEAN]
    /\ at \in [Tasks -> [Roles -> Points]]
    /\ op \in [Tasks -> InFlight \cup Ended \cup {"idle"}]
    /\ xfer \in [Tasks -> 0..BufSize]
    /\ ready \in BOOLEAN /\ cancel \in BOOLEAN
    /\ result \in [Tasks -> Outcomes]
    /\ left \in [Tasks -> 0..BufSize]
    /\ taken \in [Tasks -> 0..MaxBytes]
    /\ out \in [Tasks -> Seq(1..MaxBytes)]
    /\ failed \in [Tasks -> BOOLEAN]

\* The runtime's own assertion never fires: whoever calls update_current is the
\* coroutine on record, through every chain of nested and symmetric transfers
\* ("Nonlinear use of AIOEnv detected", Concurrency.cpp:7).
NeverAborts == ~aborted

\* Task t has the thread.
Active(t) == running # "none" /\ cursor = t

\* What step() resumes is a live coroutine at a suspension point of its own, and
\* every other coroutine of the task is an ancestor of it that awaits the next
\* one down. To resume an ancestor, or one at its final suspend point, would be
\* undefined behaviour (Concurrency.cpp:24).
SafeResume ==
    \A t \in Tasks :
        /\ ~Active(t) /\ current[t] # "none" => at[t][current[t]] \in {"start", "io", "event"}
        /\ ~Active(t) => \A c \in Roles :
              /\ at[t][c] \in Roles => at[t][at[t][c]] # "done" /\ Parent(at[t][c]) = c
              /\ at[t][c] \in {"start", "io", "event"} => c = current[t]

\* A task starts an operation only when its one OVERLAPPED is free: the task
\* has collected the previous operation's result (Handle.cpp:66, Socket.cpp:97).
OneOverlapped ==
    \A c \in {"read", "write"} : In(c, "start") => op[cursor] = "idle"

\* A coroutine that waits for its operation runs again only after the operation
\* has ended, so the non-waiting GetOverlappedResult never finds it in flight
\* (Handle.cpp:83, Socket.cpp:127).
ResumeAfterCompletion ==
    \A c \in {"read", "write"} : In(c, "io") => op[cursor] \in Ended

\* No busy waiting: whenever wait_any returned, the pass over the envs resumed
\* some coroutine, or run() is about to stop. No event is left signaled that
\* step() ignores (Concurrency.cpp:19-23).
NoSpuriousPass == pc = "check" => progress \/ Cancelled

\* Whatever the chunks and partial writes, the destination holds a prefix of
\* the source's stream: no byte twice, missing or out of order (IOBase.hpp:131).
InOrder == \A t \in Tasks : \A i \in 1..Len(out[t]) : out[t][i] = i

\* A transfer that ends without an exception has written all it has read
\* (IOBase.hpp:163).
CleanEndDeliversAll ==
    \A t \in Tasks :
        current[t] = "none" /\ ~failed[t] => Len(out[t]) = taken[t]

\* However long a transfer goes on, one step() of the scheduler nests at most
\* four resume() calls: the coroutine awaits that complete synchronously do not
\* pile up on the thread's stack (Concurrency.hpp:307).
NestBounded == nest <= 4

\* run() leaves no operation in flight - one that could write to a buffer or an
\* OVERLAPPED that is destroyed next - unless it was cut short by until().
PendingOnlyIfCancelled ==
    pc = "returned" /\ ~Cancelled => \A t \in Tasks : op[t] \notin InFlight

\* The thread is blocked in wait_any only, and there only while nothing has
\* happened: an operation of any task that ended, a key, or the end of the
\* process given to until() lets it go on (Concurrency.cpp:37-49).
RunsOn ==
    \/ pc \in {"check", "step"}
    \/ pc = "wait" /\ (Cancelled \/ \E t \in Tasks : op[t] \in Ended \/ (nonIo[t] /\ ready))
    => ENABLED <<Thread>>_vars

\* Once the handle given to until() is signaled, run() returns, whatever the
\* tasks wait for (Concurrency.cpp:57).
CancelReturns == Cancelled ~> pc = "returned"

\* No wakeup is lost: a completed operation is collected by its task, unless
\* run() returns first.
CompletionCollected ==
    \A t \in Tasks : op[t] \in Ended ~> op[t] \notin Ended \/ pc = "returned"

\* The transfers implement the abstract relay.
Status(t) ==
    IF at[t]["transfer"] # "done" THEN "open"
    ELSE IF failed[t] THEN "failed" ELSE "closed"

R == INSTANCE Relay WITH
        got <- taken, put <- out, status <- [t \in Tasks |-> Status(t)]

RelaySpec == R!Spec

\* Error.hpp:9 says of fail() "Stops the program with a message": run() never
\* returns to its caller as if nothing had happened after a task has failed.
FailStops == pc = "returned" => \A t \in Tasks : ~failed[t]

=============================================================================
