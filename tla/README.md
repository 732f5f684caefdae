# RemoteCMD in TLA+

RemoteCMD is a Windows program that gives a remote user a `cmd.exe`: a server accepts TCP
connections and starts a shell for each, a client connects a console to it, and the server can
run as a Windows service. This directory holds TLA+ models of it, the TLC runs that check them
and TLAPS proofs about them. Paths below are relative to the repository's root (`src/` here).

## The system

| Component | Where | State | Operations |
|---|---|---|---|
| Coroutine runtime | `Concurrency.hpp/.cpp` | per task: `AIOEnv` (manual-reset `io_done_` event, one `OVERLAPPED`, `non_io_event_`, `current_`), a stack of coroutine frames with promises (result, parent) | `co_await` of children and events, `final_suspend`, `AIOEnv::step`, `ParallelAIOs::run/done/wait_any/step`, `until` |
| Async I/O | `Handle.cpp:64-132`, `Socket.cpp:95-200`, `Handle.cpp:322-416` (console) | the operation in flight (in Windows) | `read_async_into`, `write_async_from` |
| Transfers | `IOBase.hpp` | a buffer, what is left of it | `write_async_full_from`, `async_transfer` |
| Sessions | `RemoteCMD.cpp:100-200` | listening socket, vector of `ClientConn` (socket, thread, two pipes), `cmd.exe` | `serve`: accept, reap, spawn, push; `ClientConn::handle` |
| Client | `RemoteCMD.cpp:52-96` | socket | `connect`, `run` |
| Service | `Service.hpp` | status struct, `stop_event`, worker thread | `init_`, `control_handler_`, `report_status`, `startup` |
| Command line | `ArgParse.*`, `RemoteCMD.cpp:18-50, 224-261` | words, cursor, `Args` | `parse`, the handlers, dispatch in `main` and `ServerSvc::work` |
| Console queue | `Handle.cpp:281-409` | Windows' queue of input records | peek, reject, consume |
| Ownership types | `Handle.hpp:176`, `Socket.hpp:92`, `Owning.hpp` | one handle | move, swap, close |
| Pipes, processes, threads | `Pipe.cpp`, `Process.cpp`, `Thread.*` | handles; a counter for pipe names | `create` |
| Errors | `Error.hpp` | - | `fail`: throws |

How they interact. `main` parses the command line and becomes a client, a server or a service.
A service runs the server's accept loop in a worker thread, beside the service thread and the
thread of the control handler. The accept loop starts one thread per connection and shares the
vector of `ClientConn`s with it only through ownership. Every session thread, and the client's
main thread, drives two `async_transfer`s on its own `ParallelAIOs`; Windows completes their
operations, and the end of `cmd.exe` cancels a session's pair.

What is hard in this code: control moves between coroutines by nested resume and by symmetric
transfer under an assertion that ends the process; one `OVERLAPPED` is reused by every operation
of a task; events are reset between the wakeup and the next operation; `run()` destroys frames
whose operations may be in flight; exceptions end in three different places (a promise nobody
reads, a catch block that prints, `std::terminate`); a thread is started before its object is
in the vector that owns it; two threads fill one status struct without a lock.
`PROJECT.json` lists each of these under `hazards`, at its line.

## The modules

| Module | Models | State and actions |
|---|---|---|
| `ParallelAIOs` | runtime, async I/O, transfers | One action per stretch of a coroutine between two transfers of control, one per step of `run()`, and Windows' completions, key presses and the end of the process. `at[t][c]` is where a frame is suspended, `current`, `ioDone`, `nonIo`, `op` are the fields of an `AIOEnv`, `nest` counts the `resume()` calls on the stack, `out` is the delivered stream. |
| `Relay` | what transfers promise | `Take` a chunk into an empty buffer, `Put` the next bytes, `Close` with an empty buffer, `Fail`. |
| `MCParallelAIOs` | instances | The tasks of `Client::run` and of `ClientConn::handle`. |
| `ParallelAIOsProofs` | - | Proofs of the invariants and of what the thread's fairness brings about. |
| `ParallelAIOsRelay` | - | `ParallelAIOs` implements `Relay`. |
| `Server` | sessions | `serve` is the program counter of the accept loop, `session[c]` that of the thread of connection `c`; `current` and `clients` are the two owners of a `ClientConn`. The relay is reduced to which directions still run; `RelayDone` is the `done()` that `ParallelAIOs` models in full. `Setup` is the pipes and the process, `CreateTransfers` the frames and envs of the relay: each may fail, the second with `cmd.exe` running. |
| `Sessions` | what the server promises those who connect | `phase[c]` (waiting, opening, served, over), `shell[c]`, what is `held`, and whether the server is open: `Admit` one at a time, `Start`, `OpenShell`, `Serve`, `EndShell`, `Release` of what is over and of nothing else. A session that could not be opened (`Abandon`) may leave a shell behind; one that was served (`Finish`) only after a reset. |
| `ServerProofs` | - | Proofs of invariants, an action property and liveness, and that `Server` implements `Sessions`. |
| `Service` | the service | The program counters of `init_` and of `control_handler_`, `phase` for the three steps of a report, `status` for the shared struct, `scm` for what the service manager was handed. |
| `CommandLine` | command line and dispatch | One action per kind of option, per error, per end of the parse, and per branch of `main`. |
| `MCCommandLine` | instance | Nine words. |
| `Console` | the console's queue, `ConsoleAsyncIO::read_async_into` and the write between two reads | `typed` is all that came into the queue, `taken` how much of it was read out; `queueSize`, `turn` (the loop's `i`) and `buf` are the coroutine's. `Peek` and `Consume` are the constructor and the destructor of `ConsoleEventPeek`; `AfterPeek` decides between `reject` and going on. `Write` is a part of the buffer that the socket takes, `WriteFails` the loss of the connection. |
| `MCConsole` | instance | Seven records. |
| `Handles` | `OwningHandle`, `OwningSocket`, `Pipe`, `Process`, `Thread` | Every owning object is a `slot`; one action per full expression of `serve` and `ClientConn::handle`, with the temporaries it creates, swaps and destroys. `borrowed[c]` is what the frames of a session's transfers and their `OVERLAPPED`s hold. |
| `MCHandles` | instance | Two connections, 16 handles. |
| `Session` | a client, its session, the connection, the pipes and `cmd.exe` | The four transfers are those of `Relay`, tied together by `Given` and `Drained`: what one puts is what the next may take. `Breaks` loses the connection (`broken`), at any time while a process runs. |
| `Terminal` | what a client and its session promise the user | Counts of bytes `typed`, `read` by `cmd.exe`, `written` by it and `shown`, and who is still there; `Unseen` when the user or the connection (`lost`) is gone. `Write` stays within `Capacity` of the screen, `ScreenEnds` within `MaxLoss` of what was written unless the connection is lost or keys are left unread. No buffers, transfers or processes. |
| `ConsoleProofs`, `HandlesProofs`, `SessionProofs`, `ServiceProofs`, `CommandLineProofs` | - | Proofs about these modules: invariants, liveness, and that `Session` implements `Terminal`. |

How they fit together. `ParallelAIOs` is proved to implement `Relay`, and `Session` composes four
instances of `Relay`: what is checked of a session rests on the coroutines through that theorem.
`Server` abstracts a session's relay to the directions that still run; `Handles` follows the same
`serve` and `handle` with their handles and without the bytes. `Console` is what `ParallelAIOs`
calls a console source: there a read hands out any text, here it is shown which.

Choices that a reader of the code should know:

* Bytes are numbered by their place in the source's stream, so "in order" means `out[i] = i`.
* A read or write may be refused, complete with any count, with end of file, with a reset (for
  sockets, which `Socket.cpp` turns into an end of file) or with an error. A socket's graceful
  end is a read of 0 bytes.
* The console as a source hands out any text, none included, and never an end of file; as a
  destination it is synchronous. Its queue is the one bit that the wait looks at; the records
  are in `Console`, where a byte carries the record it comes from and its number among that
  record's repetitions.
* In `Handles` Windows gives the value of a closed handle to the next one that is opened, so that
  a second close or a late use of it hits another owner. A failing `validate()` closes
  INVALID_HANDLE_VALUE, which is the pseudo handle of the process: nothing happens.
* In `Session`, `cmd.exe` reads a byte only when it has written what it owes for the last one. Each
  pipe holds `PipeSize` bytes: the program asks for pipes of size 0, which Windows treats as advice;
  the byte of a write that waits counts as in the pipe. `cmd.exe` may go on while it is there,
  which is one more thing than a write that waits allows. A connection is reset when its closed
  end has unread bytes, or when it breaks: a read of it then ends at any time, with bytes under
  way or without, and a send fails, at once or after it has gone into the void.
* `socket.shutdown()` throws on a connection that was reset, which skips the end of `cmd.exe`
  (`ShutdownFails`, as in `Server`). What that `cmd.exe` does without its session is not followed.
* `progress` (`ParallelAIOs`), `stopped` (`Service`; it also stands for what the dispatcher waits
  for) and `lastEnded` (`Server`) are histories.
* `cmd.exe` never sees the end of its input: it inherits both ends of its own pipes
  (`Process::create` with `inheritHandles`), and the session keeps its ends too.
* Calls that create, send, receive, accept, connect or report may fail wherever the code calls
  them. In `ParallelAIOs` and `Server`, calls that only wait on, query, reset or terminate through
  a handle that is valid and open do not; `TerminateProcess` fails on a process that has exited.
  `Service` lets each call of `init_` fail, as its catch block expects. An allocation that
  fails is part of the step that asks for it, as in `Push` and `CreateTransfers`.
* When the events or the buffers of a session's transfers cannot be had, `cmd.exe` runs already
  (`RemoteCMD.cpp:136`): the session ends by its catch block and leaves `cmd.exe` behind.
* In `Console` the socket takes what was read in parts of any size, whenever it likes: it may take
  nothing for ever, and the write may fail, which ends the transfer (`IOBase.hpp:131-143, 172`).
* A report to the service manager is three steps: the state, the other fields, the call. The
  checkpoint and the wait hint are left out.
* Words of the command line are opaque; `Numeral` gives the value of those made of digits.

## The runs

| Run | Bounds | States | Shows |
|---|---|---|---|
| `ServerRelay` | 2 tasks, buffer 2, 3 bytes per source, cancellation | 77,735 | `RunsOn`, `OneOverlapped`, `ResumeAfterCompletion`, `CleanEndDeliversAll`, `PendingOnlyIfCancelled`; `CancelReturns`, `CompletionCollected` |
| `ClientRelay` | the same, console on one side, no cancellation | 33,227 | `NeverAborts`, `SafeResume`, `NoSpuriousPass`, `NestBounded`; implements `Relay` |
| `Server` | 2 connections | 201,072 | `WaitsForItsOwn`, `SessionOwnsItsConn`, `EndedNotKept`; `NoOrphan`; `SessionEnds`, `Served`; implements `Sessions` |
| `Service` | none needed | 1,455 | `SignalsLiveEvent`, `StoppedMeansNoWorker`; `NeverRunningAgain`; `StopEndsService` |
| `CommandLine` | 4 words, 2 for the service, 9 different | 66,641 | `TypeOK`, `ParsesWhatIsMeant`, `StopsAtFirst`; `ParseEnds` |
| `Console` | buffer 3, 4 records of 7 kinds | 300,404 | `ReadsOn`, `NothingLost`, `ReadIsDefined`, `NoSpin`; `TypedIsRead` |
| `Handles` | 2 connections, 16 handles | 761,087 | `OwnedOnce`, `BorrowedIsOwn`, `UsesOpen` |
| `Session` | buffers, connection and pipes of 1 byte, 4 keys, answers of up to 1 byte | 73,107 | `LossBounded`; `NoRing`, `KeptByShellOrUser`; implements `Terminal` |
| `ServerFailStops` | as `ServerRelay` | - | violated: see findings |
| `SvcRequiresServer`, `ListensAtPort` | as `CommandLine` | - | violated |
| `StopIsReported` | as `Service` | - | violated |

The type invariants (`TypeOK`) of the modules are theorems (`TypeCorrect` in each proof module); the
one of `CommandLine` is also checked, since it says that a port fits 16 bits.

`RunsOn`, `WaitsForItsOwn` and `ReadsOn` say, for each point of a thread or coroutine, what alone
can block it there. They are invariants about ENABLED: in these states a step of the fair action
exists. TLC checks them, and the liveness proofs of their modules start from them.

Why the bounds are enough. A buffer of 2 gives full and partial reads, and writes in one and in
two parts; 3 bytes give a second chunk after a full one, that is the reuse of the buffer and of
the `OVERLAPPED`. Two tasks are what the program ever runs. Two connections give a session that
ends before, during and after the accept of another; sessions share nothing else, and the
proofs hold for any number. Four words hold two options with values, an option in a value's
place, a repeated option, and help or an error before and after another. `Service` has no
parameter: its run covers it whole.
In `Console`, keys of 1, 2, 3 and 4 repetitions against a buffer of 3 fit, fit exactly, fit no
longer and never fit; four records fill a buffer, leave one behind and arrive during the loop.
In `Handles` a session that relays has ten handles, and the listening socket is one more. 16 values
let one session relay while another comes up to its last pipe end; it gets further once the first
has ended, with values that the first had. The proofs hold for any number of connections and
handles.
In `Session` buffers of one byte are full at once, which is the worst case for waiting in a ring;
four keys fill the two buffers, the connection and the pipe on their way, and an answer of one
byte that finds the last one in the pipe blocks the shell; the proofs hold for any sizes, keys and
answers.

Deadlock is checked for the relays and the command line, whose final states are named by a
stuttering action (`Returned`, `Settled`). The others may really stop: a process ends, the
server waits in `accept` when nobody else connects, a console when nobody types, and a session
when its `cmd.exe` waits for a key.

### Fairness

Only what the operating system's scheduler gives: a thread that can run does. `ParallelAIOs` has
weak fairness of the one thread; completions, key presses and the end of a process need not come.
`Server` has it for the accept loop, for each session's thread, for the end of a process that was
terminated and for the end of a server process whose `serve` is over. `Service` has it for its two
threads, not for a failing wait, not for the worker and not for the stop request.
`CommandLine` has it for the parse, `Console` for what the client's thread does between two waits:
nobody has to type, and the socket need not take what was read. `TypedIsRead` names the
connection that takes nothing for ever as an exception. `Session` has it for each transfer, which
`CompletionCollected` of `ParallelAIOs` justifies: an operation that has ended is collected; for `cmd.exe`'s reads and writes, and for what follows
`run()` in both processes; not for typing, quitting, the exit of `cmd.exe` or the loss of the
connection. Each of these has a name of its own in its module (`ThreadRuns`, `ServeRuns`,
`SessionRuns(c)`, `ProcessEnds`, `CmdEnds(c)`, `SvcRuns`, `HandlerRuns`, `ReadRuns`,
`TransferRuns(t)`, `CmdRuns`, `EndsRun`), which is what the liveness proofs cite. Choices within a
step (a call succeeds or fails) are never fair.

### What the violated properties show

* `FailStops`: `Error.hpp:9` says of `fail()` "Stops the program with a message". An exception in a
  transfer stays in the root coroutine's promise; nobody asks for it, and `run()` returns as after
  a normal end.
* `SvcRequiresServer`: the usage text (`RemoteCMD.cpp:33`) says that `--svc` "Requires server mode";
  `--svc -c` is accepted and serves.
* `ListensAtPort`: the usage text (`RemoteCMD.cpp:37`) and the installer's command line
  (`Makefile:1`) give a service its port; `ServerSvc::work` parses the words of the start request,
  and listens at the default port.
* `StopIsReported`: after it signaled the stop event, the handler reports the state again from
  the shared struct (`Service.hpp:80`). It can put STOP_PENDING over the service thread's STOPPED,
  before or after the call: `sc stop` (`Makefile:12-13`) then waits for a service that never reports
  its end.

### What a session can do at its end

Nothing in the repository promises more, so these are properties that hold, with the exceptions
they name.

* `LossBounded`: when `cmd.exe` exits, `done()` looks at its handle before anything else, and what
  is in the pipe or in the buffer is dropped. The user misses at most that.
* `KeptByShellOrUser`: a session whose client or whose connection is gone ends, unless `cmd.exe`
  is idle (`CmdIdle`: nothing is written that could fail) or blocked (`CmdBlocked`: the "output"
  direction has failed and nobody reads `pipe_out`, while "input" goes on filling `pipe_in` or
  waits for a connection that has ended in order). In both the session, its thread and `cmd.exe`
  stay until the server ends. A client whose session or connection is gone stays until a key is
  pressed (`UserIdle`), since only a send tells it.
* `NoSpin` and `TypedIsRead` name their exception too: a key held for longer than the buffer is
  put back for ever.
* `SessionsSpec`: a session leaves its `cmd.exe` running in two cases, both through the catch block.
  `socket.shutdown()` fails after a reset, or the relay could not be set up once `cmd.exe` ran.

## The proofs

TLAPS (Z3, Zenon and the PTL translation) checks every step; the only assumptions are the named
ones on the constants: `ParallelAIOsAssumption` (at least one task, a kind for each end, a
positive buffer), `NoneIsNoConn`, `ConsoleAssumption` (a positive buffer), `HandlesAssumption`
(Null is no handle, the accept loop no connection), `SessionAssumption` (positive sizes) and
`CommandLineAssumption` (numerals are words, the empty word is none).

**Runtime.** `ParallelAIOsProofs` proves each safety invariant of the two relay runs for any
number of tasks, mixture of handles, buffer size and stream length. None of them is inductive: that
the assertion of `update_current` holds depends on the shape of the whole coroutine stack, which
depends on which event each frame waits for, which depends on the operation. `IInv` therefore
describes, for each task, whether it has the thread or not:

* `StackInv`: the frames form a chain from the root, each awaiting the next, and `current` is
  the leaf of the chain (or the running coroutine);
* `EventInv` and `OpInv`: a leaf at an I/O await has an operation in flight and a reset event,
  or an ended one and a signaled event; elsewhere the operation is idle;
* `DataInv`: what is delivered plus what is left is what was read, for each point of the write
  loop, and a chunk in the result is within the buffer;
* `NestInv`: how deep the running coroutine can be nested, by its role;
* `WakeInv`: while a pass has not resumed anything yet, some env not yet looked at will be.

There is one lemma per action; the frame condition, that a step of task `cursor` leaves the other
tasks alone, is a lemma used by all of them.

`NothingHoldsUpThm` draws from `IInv` what can hold the thread up, for any number of tasks: an
operation that has ended, or a key for a task that waits for keys, is in the wait set of
`wait_any`, and what `step()` has resumed is at a point from which it goes on. These are the guards
of `RunsOn`; what is left of it is that a step whose guard holds is enabled.

**Refinement.** `ParallelAIOsRelay` proves `Spec => RelaySpec`: `got <- taken`, `put <- out`, and
the status read off the root frame. A collected read is `Take`, a collected write is `Put`, the
end of the root is `Close` or `Fail`, everything else stutters; that a `Take` finds an empty
buffer and a `Close` leaves none is `DataInv`. What `Relay` says of the bytes, that the delivered
stream is a prefix of the source's (`InOrder`), is a theorem of its own, `InOrderThm`.

**Server.** `ServerProofs` proves, for any set of connections, the type invariant,
`SessionOwnsItsConn` and `EndedNotKept` from an invariant that says what `serve` knows of the
connection it holds at each point (`CurrentInv`), that a queued connection has no session and no
owner yet (`BacklogInv`, `FreshInv`), and that what is in the vector was started (`EntriesInv`);
and the action property `NoOrphan`. `ImplementsSessions` proves `Spec => SessionsSpec`: the phase of
a connection is read off its thread and its client's end, `held` is who has an owner, and `push`,
the relay's directions and the start of a termination stutter. Besides `IInv` it needs that a
session has no `cmd.exe` before its `Setup` and has one when its transfers are created (`CmdInv`).

**Console.** `ConsoleProofs` proves all four invariants for any records, buffer size and number of
records. Why a peek finds a record is `QueueInv`: `queueSize - turn` never exceeds what is in the
queue, since the queue only grows from outside and a turn that does not end the loop takes
exactly one. `NothingLost` is the invariant `Exact` over `delivered \o buf`, which a write of any
part of the buffer leaves as it is; its proof adds the repetitions of one record at a time.

**Handles.** `HandlesProofs` proves `OwnedOnce`, `BorrowedIsOwn` and `UsesOpen` for any number of
connections and handles. Moves are swaps, so that they keep the one-to-one map between slots and
open handles; a destruction removes from both sides; what makes it inductive is which slots hold a handle and
which are empty at each program point (`SessionInv`, `ServeInv`), and that the connections in
`clients` that are erased have ended. `UsesOpen` says what ownership is for: `accept()`,
`thread_running()` in the clean-up, `CreateProcess` and everything a session does until the end of
its `try` block are called on handles that are open and the caller's own. It needs besides that
every `ClientConn` in `clients`, or about to be, has its thread (`KeptInv`).

**Session.** `SessionProofs` proves `LossBounded` for any sizes: every stage of the chain has
passed on at most what it was given and holds back at most its buffer (`FlowInv`), and a screen
that closed in order has shown all that "output" has put (`ClosedInv`). `NoDeadlockThm` and
`UnravelsThm` say what can go on, for any sizes. While all run and a key or output is under way,
some transfer or `cmd.exe` can, which is where a ring of full buffers would show. Once the client,
the session or the connection is gone, the other end can move or end a transfer, or waits for
`cmd.exe` or the user and for nobody else (`KindInv`: which way each transfer can end).

**Service.** `ServiceProofs` proves its three safety properties. The service thread's and the
handler's steps interleave freely over the unlocked struct; the invariant says what each of the
three copies of the state (the struct, the handler's, the manager's) can be at each pair of
program counters.

**Command line.** `CommandLineProofs` proves that the cursor computes what the line means, for
lines of any length over any words. The reference definition knows no cursor: the places of
options are the least set that holds the first place and is closed under "the place after the
option and its value" (`Places`). `Walked` and `MeansUpTo` say that the cursor has visited exactly
the places up to it.

**Terminal.** `SessionProofs` proves `Spec => TerminalSpec` for any buffers. `shown` is what
"screen" has put, `Capacity` what the pipe and the buffers of "output", the connection and
"screen" hold together, `MaxLoss` what is dropped when `done()` sees the end of `cmd.exe`
(`LossBounded`). Beyond `IInv` the refinement needs that no stage holds more than it has room for
(`RoomInv`) and what each end knows of the other (`PeerInv`). A lost connection ends the screen
with anything unshown, and only then, or when the user has left, may a session end before its
shell.

**Liveness.** The prover has no induction in temporal logic and does not see into ENABLED, so each
of these theorems has two hypotheses: the fair specification, and `[]` of a formula that says where
the fair action is enabled. In `ParallelAIOs`, `Server` and `Console` that is the invariant TLC
checks (`RunsOn`, `WaitsForItsOwn`, `ReadsOn`). In `ServiceProofs` and `SessionProofs` it is
`GuardsEnable`, the guards of the fair actions written out: a fact about the actions' definitions,
which says nothing of the code and is therefore no property of a run. What the prover then
does is the rule for weak fairness: a state predicate that every step keeps or resolves, that a
step of the fair action resolves, and in which this action is enabled, is resolved in the end.

* `PassGoesOn` (any number of tasks): the turn of a task comes to its end. `Rank` says how many
  steps of the thread that takes at the most, nine: a read that was woken goes through the
  transfer and the write loop to at most one write, and from there through one read to a
  suspension; the partial write that would go round the loop again suspends first. `ThreadNears`
  proves that each step of each coroutine lowers it.
* `CancelReturnsThm`, `CompletionCollectedThm`: `CancelReturns` and `CompletionCollected` for any
  handles, buffers and streams, and two tasks, which is what both uses in the program have
  (`RemoteCMD.cpp:91, 136`); for any number the pass over the tasks would be an induction.
* `SessionEndsThm`: `SessionEnds`, for any set of connections. `AcceptsAgain`: `serve` comes back
  to `accept` from every round, which is the step of `Served`; that a queue of any length is
  worked off is an induction.
* `StopEndsServiceThm`: `StopEndsService`. `HandlerReturns`: so does each call of the control
  handler.
* `TakesNext`: the record at the head of the console's queue is taken, for any records and buffer,
  unless a call fails, the connection is lost or no buffer holds it; seven stages at most (`Rank`),
  through a read that puts it back, the write that empties the buffer, and the next read. A third
  hypothesis, `[]<>(pc # "write")`, says that the socket goes on taking what was read: scheduling
  does not give that. It is the step of `TypedIsRead`.
* `OutputMoves`, `KeysMove`: output that is not on the screen moves on, and while a key is under
  way some byte does, for any buffers. They are the step of `NoRing`; the safety half is
  `NoDeadlockThm`.
* `SessionUnravels`, `ClientUnravels`: the step of the two halves of `KeptByShellOrUser`. With `d`
  bytes moved and transfers ended, a session whose client or connection is gone ends, moves or
  ends one more, or is kept by an idle or blocked `cmd.exe`; a client whose session or connection
  is gone ends, moves or ends one more, or is kept by an idle user. The safety half is
  `UnravelsThm`.

`WorkBoundedThm` bounds the counts that these steps of `Session` raise: `cmd.exe` writes at most one
answer at the start and one for each byte it reads, and no stage moves more bytes than were typed
and written. A step can therefore repeat only finitely often, and the conclusions `NoRing` and
`KeptByShellOrUser` follow by induction over the count. That last step is not proved: PTL knows no
arithmetic, the library's induction theorems take an operator as a parameter, and SANY refuses a
temporal formula for the parameter of an instantiated module. TLC checks the conclusions.

Two more results bear on this. `NobodyStrandedThm`: `run()` waits only while a task is unfinished,
and each unfinished task has something to be woken by. `ParseAdvancesThm`: a turn of `parse` goes
forward on the line and not past its end, the step of `ParseEnds`.

Only model-checked, then:

* the invariants about ENABLED (`RunsOn`, `WaitsForItsOwn`, `ReadsOn`), of which
  `NothingHoldsUpThm` proves for `RunsOn` what can be said without ENABLED;
* the conclusions of the liveness properties that need an induction over data (`Served`,
  `ParseEnds`, `TypedIsRead`, `NoRing`, `KeptByShellOrUser`), of which the steps are proved.

The run of `Service`, which has no parameter, is exhaustive as well.

## Not modelled

* Names of pipes (`Pipe.cpp`), wording, the event log, console modes, the echo of typed text
  (`WriteConsole`, whose result is ignored).
* What an orphaned `cmd.exe` does after the server process has ended, or after a failed shutdown or
  a failed set-up of the relay has made its session leave it behind, and which handles of other
  sessions it has inherited: no direction of a session ends with a pipe in either case.
* A client whose transfers cannot be created: the exception ends it before it has sent anything.
* `Owning<T>`, mutexes, `Handle::clone` and the synchronous I/O variants: no caller in the program.
* The handles of `Service` and of the worker thread: `Service` follows whether the event exists.
* Build files: no behaviour.

## Plan

Done, in this order: `ParallelAIOs` with `Relay` and the proofs, `CommandLine`, `Service`, `Server`
with its proofs; `Console`, `Handles`, `Session` with theirs, and the proofs of `Service` and
`CommandLine`; `Sessions` and its refinement by `Server`; `Terminal` and its refinement by
`Session`, and the liveness proofs; the loss of the connection in `Session` and `Terminal`, and how
a session comes apart. What a session leaves behind when its relay cannot be set up is in `Server`,
`Sessions` and `Handles`; `Session` and `Terminal` begin after it.

Open: a proof that the relay of `Server` (which directions run) abstracts the server's half of
`Session`. Both stand beside the same lines (`RemoteCMD.cpp:136-147`), and
nothing but reading compares them so far.
