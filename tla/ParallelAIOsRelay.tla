-------------------------- MODULE ParallelAIOsRelay --------------------------
(***************************************************************************)
(* The proof that the coroutines implement the abstract relay: every step  *)
(* of ParallelAIOs takes a chunk from a source (a read returns), puts some *)
(* of it to the destination (a write returns), ends a transfer, or is      *)
(* invisible.                                                              *)
(***************************************************************************)
EXTENDS ParallelAIOsProofs

\* R's status variable.
Statuses == [t \in Tasks |-> Status(t)]

\* A step that keeps the bytes and the root coroutines is invisible.
LEMMA Invisible ==
    ASSUME taken' = taken, out' = out, failed' = failed,
           \A t \in Tasks : (at'[t]["transfer"] = "done") <=> (at[t]["transfer"] = "done")
    PROVE  UNCHANGED R!vars
BY DEF R!vars, Status

\* The three control transfers of a live task keep its root coroutine.
LEMMA RootStays ==
    ASSUME IInv, NEW c \in Roles, pc = "step", running = c,
           \/ \E p \in Points \ {"done"} : Suspend(c, p)
           \/ \E d \in Roles \ {"transfer", c} : Call(c, d)
           \/ c # "transfer" /\ \E r \in Outcomes : Return(c, r)
    PROVE  \A t \in Tasks : (at'[t]["transfer"] = "done") <=> (at[t]["transfer"] = "done")
<1>1. CtlType /\ ThreadInv /\ cursor \in Tasks /\ TaskInv(cursor) /\ current[cursor] = c /\ c # "none"
  BY TypeSplit DEF IInv, CtlType, ThreadInv, Roles
<1>2. at[cursor]["transfer"] # "done" BY <1>1 DEF TaskInv, StackInv, Roles
<1>3. "transfer" \in Roles BY DEF Roles
<1>4. CASE \E p \in Points \ {"done"} : Suspend(c, p)
  BY <1>1, <1>2, <1>3, <1>4 DEF Suspend, CtlType
<1>5. CASE \E d \in Roles \ {"transfer", c} : Call(c, d)
  BY <1>1, <1>2, <1>3, <1>5 DEF Call, CtlType, Roles
<1>6. CASE c # "transfer" /\ \E r \in Outcomes : Return(c, r)
  BY <1>1, <1>2, <1>3, <1>6 DEF Return, CtlType
<1> QED BY <1>4, <1>5, <1>6

\* A read that returns n bytes takes them from the source.
LEMMA TakeStep ==
    ASSUME IInv, NEW r \in Outcomes, running = "read", pc = "step", Return("read", r),
           r.n <= BufSize, taken' = [taken EXCEPT ![cursor] = @ + r.n],
           UNCHANGED <<out, failed>>
    PROVE  [R!Next]_R!vars
<1>1. /\ CtlType /\ DataType /\ cursor \in Tasks /\ TaskInv(cursor) /\ current[cursor] = "read"
      /\ r.n \in Nat
  BY TypeSplit DEF IInv, CtlType, ThreadInv, Outcomes
<1>2. \A t \in Tasks : (at'[t]["transfer"] = "done") <=> (at[t]["transfer"] = "done")
  BY RootStays DEF Roles
<1>3. CASE r.n = 0
  <2>1. taken' = taken BY <1>1, <1>3, ParallelAIOsAssumption DEF DataType
  <2> QED BY <2>1, <1>2, Invisible
<1>4. CASE r.n # 0
  <2>1. Statuses' = Statuses BY <1>2 DEF Statuses, Status
  <2>2. Statuses[cursor] = "open" BY <1>1 DEF Statuses, Status, TaskInv, StackInv
  <2>3. Len(out[cursor]) = taken[cursor] BY <1>1 DEF TaskInv, DataInv
  <2>4. r.n \in 1..BufSize BY <1>1, <1>4, ParallelAIOsAssumption
  <2>5. R!Take(cursor) BY <2>1, <2>2, <2>3, <2>4 DEF R!Take, Statuses
  <2> QED BY <2>5, <1>1 DEF R!Next
<1> QED BY <1>3, <1>4

\* A write that returns n bytes puts them to the destination.
LEMMA PutStep ==
    ASSUME IInv, NEW r \in Outcomes, running = "write", pc = "step", Return("write", r),
           r.n <= left[cursor], Deliver(r.n), UNCHANGED <<taken, failed>>
    PROVE  [R!Next]_R!vars
<1>1. /\ CtlType /\ DataType /\ cursor \in Tasks /\ TaskInv(cursor) /\ current[cursor] = "write"
      /\ r.n \in Nat
  BY TypeSplit DEF IInv, CtlType, ThreadInv, Outcomes
<1>2. \A t \in Tasks : (at'[t]["transfer"] = "done") <=> (at[t]["transfer"] = "done")
  BY RootStays DEF Roles
<1>3. /\ Len(out[cursor]) + left[cursor] = taken[cursor] /\ left[cursor] \in 0..BufSize
      /\ taken[cursor] \in Nat /\ Len(out[cursor]) \in Nat
  BY <1>1, ParallelAIOsAssumption DEF TaskInv, DataInv, DataType
<1>4. Len(out[cursor]) = taken[cursor] - left[cursor]
  BY <1>3, ParallelAIOsAssumption
<1>5. out' = [out EXCEPT ![cursor] = @ \o R!Chunk(Len(out[cursor]), r.n)]
  BY <1>4 DEF Deliver, Chunk, R!Chunk
<1>6. CASE r.n = 0
  <2>1. R!Chunk(Len(out[cursor]), r.n) = <<>> BY <1>6 DEF R!Chunk
  <2>2. out[cursor] \o <<>> = out[cursor] BY <1>1, ConcatEmptySeq DEF DataType
  <2>3. out' = out BY <1>1, <1>5, <2>1, <2>2 DEF DataType
  <2> QED BY <2>3, <1>2, Invisible
<1>7. CASE r.n # 0
  <2>1. Statuses' = Statuses BY <1>2 DEF Statuses, Status
  <2>2. Statuses[cursor] = "open" BY <1>1 DEF Statuses, Status, TaskInv, StackInv
  <2>3. r.n \in 1..BufSize /\ Len(out[cursor]) + r.n <= taken[cursor]
    BY <1>1, <1>3, <1>7, ParallelAIOsAssumption
  <2>4. R!Put(cursor) BY <2>1, <2>2, <2>3, <1>5 DEF R!Put, Statuses
  <2> QED BY <2>4, <1>1 DEF R!Next
<1> QED BY <1>6, <1>7

\* The end of the root coroutine closes the transfer or fails it.
LEMMA StopStep == ASSUME IInv, TransferStop PROVE [R!Next]_R!vars
<1>1. PICK p \in {"read", "full"} : In("transfer", p) BY DEF TransferStop
<1>2. /\ CtlType /\ DataType /\ cursor \in Tasks /\ TaskInv(cursor)
      /\ current[cursor] = "transfer" /\ result[cursor] \in Outcomes
  BY <1>1, CallerFacts DEF Points
<1>3. /\ TransferEnd(result[cursor].exc)
      /\ result[cursor].exc \/ result[cursor].eof
      /\ taken' = taken /\ out' = out
  BY DEF TransferStop, data
<1>4. /\ at' = [at EXCEPT ![cursor]["transfer"] = "done"]
      /\ failed' = [failed EXCEPT ![cursor] = result[cursor].exc]
  BY <1>3 DEF TransferEnd
<1>5. Statuses[cursor] = "open" BY <1>1, <1>2 DEF In, Statuses, Status
<1>6. Statuses' = [Statuses EXCEPT ![cursor] = IF result[cursor].exc THEN "failed" ELSE "closed"]
  BY <1>2, <1>4 DEF Statuses, Status, CtlType, DataType, Roles, Outcomes
<1>7. CASE result[cursor].exc
  BY <1>2, <1>3, <1>5, <1>6, <1>7 DEF R!Next, R!Fail, Statuses
<1>8. CASE ~result[cursor].exc
  <2>1. Len(out[cursor]) = taken[cursor]
    BY <1>1, <1>2, <1>3, <1>8 DEF In, TaskInv, DataInv, DataType, Stopped, Outcomes
  <2> QED BY <1>2, <1>3, <1>5, <1>6, <1>8, <2>1 DEF R!Next, R!Close, Statuses
<1> QED BY <1>7, <1>8

-----------------------------------------------------------------------------
\* The remaining steps are invisible.

\* A step outside the coroutines.
LEMMA OutsideStep ==
    ASSUME Check \/ WaitAny \/ EnvSkip \/ EnvResume \/ Kernel \/ Returned \/ UNCHANGED vars
    PROVE  UNCHANGED R!vars
<1>1. UNCHANGED <<at, taken, out, failed>>
  BY DEF Check, WaitAny, EnvSkip, EnvResume, Kernel, Complete, ConsoleInput, Cancel, Returned, vars, data
<1> QED BY <1>1, Invisible

\* A coroutine submits an operation, waits for the console, calls or returns.
LEMMA InnerStep ==
    ASSUME IInv,
           ReadAwaitConsole \/ FullStart \/ FullWrote \/ FullThrow
           \/ TransferStart \/ TransferRead \/ TransferWrote
    PROVE  UNCHANGED R!vars
<1>1. UNCHANGED <<taken, out, failed>>
  BY DEF ReadAwaitConsole, FullStart, FullWrote, FullThrow, FullGo, TransferStart, TransferRead,
         TransferWrote, data
<1>2. CASE ReadAwaitConsole
  BY <1>1, <1>2, RootStays, Invisible DEF ReadAwaitConsole, In, Points, Roles
<1>3. CASE TransferStart \/ TransferRead \/ TransferWrote
  <2>1. \E d \in {"read", "full"} : Call("transfer", d)
    BY <1>3 DEF TransferStart, TransferRead, TransferWrote
  <2>2. pc = "step" /\ running = "transfer"
    BY <1>3 DEF TransferStart, TransferRead, TransferWrote, In
  <2> QED BY <1>1, <2>1, <2>2, RootStays, Invisible DEF Roles
<1>4. CASE FullThrow
  BY <1>1, <1>4, RootStays, Invisible, OutcomeFacts DEF FullThrow, In, Roles
<1>5. CASE FullStart \/ FullWrote
  <2>1. PICK rest, eof : FullGo(rest, eof) /\ eof \in BOOLEAN /\ pc = "step" /\ running = "full"
    <3>1. CASE FullStart BY <3>1 DEF FullStart, In
    <3>2. CASE FullWrote
      <4>1. In("full", "write") BY <3>2 DEF FullWrote
      <4>2. result[cursor].eof \in BOOLEAN BY <4>1, CallerFacts DEF Points, Outcomes
      <4> QED BY <3>2, <4>2 DEF FullWrote, In
    <3> QED BY <1>5, <3>1, <3>2
  <2>2. [n |-> 0, eof |-> eof, exc |-> FALSE] \in Outcomes BY <2>1 DEF Outcomes
  <2>3. Call("full", "write") \/ \E r \in Outcomes : Return("full", r)
    BY <2>1, <2>2, OutcomeFacts DEF FullGo
  <2> QED BY <1>1, <2>1, <2>3, RootStays, Invisible DEF Roles
<1> QED BY <1>2, <1>3, <1>4, <1>5

\* A leaf submits its operation, or is refused.
LEMMA LeafStartStep ==
    ASSUME IInv, ReadStart \/ WriteStart
    PROVE  UNCHANGED R!vars
<1>1. PICK c \in {"read", "write"} :
        In(c, "start") /\ \E d, k : Submit(c, d) \/ Refused(c, k)
  BY DEF ReadStart, WriteStart
<1>2. UNCHANGED <<taken, out, failed>> BY <1>1 DEF Submit, Refused, data
<1>3. Suspend(c, "io") \/ \E r \in Outcomes : Return(c, r)
  BY <1>1, OutcomeFacts DEF Submit, Refused
<1> QED BY <1>1, <1>2, <1>3, RootStays, Invisible DEF In, Points, Roles

\* The reads and the writes that return.
LEMMA ReadStep == ASSUME IInv, ReadDone \/ ReadConsole PROVE [R!Next]_R!vars
<1>1. CASE ReadDone
  <2> DEFINE r == OverlappedResult(cursor)
  <2>1. /\ In("read", "io") /\ Collect("read") /\ out' = out
        /\ taken' = [taken EXCEPT ![cursor] = @ + r.n]
    BY <1>1 DEF ReadDone
  <2>2. /\ DataType /\ cursor \in Tasks /\ Return("read", r) /\ r \in Outcomes
        /\ r.n = IF op[cursor] = "ok" THEN xfer[cursor] ELSE 0
    BY <2>1, CollectFacts
  <2> HIDE DEF r
  <2>3. r.n <= BufSize BY <2>2, ParallelAIOsAssumption DEF DataType
  <2>4. failed' = failed BY <2>1 DEF Collect
  <2> QED BY <2>1, <2>2, <2>3, <2>4, TakeStep DEF In
<1>2. CASE ReadConsole
  <2>1. In("read", "event") /\ UNCHANGED <<out, failed>> BY <1>2 DEF ReadConsole
  <2>2. CASE Return("read", Thrown) /\ taken' = taken
    BY <2>1, <2>2, OutcomeFacts, RootStays, Invisible DEF In, Roles
  <2>3. CASE \E n \in 0..BufSize : Return("read", Typed(n)) /\ taken' = [taken EXCEPT ![cursor] = @ + n]
    <3>1. PICK n \in 0..BufSize : Return("read", Typed(n)) /\ taken' = [taken EXCEPT ![cursor] = @ + n]
      BY <2>3
    <3>2. Typed(n) \in Outcomes /\ Typed(n).n = n BY OutcomeFacts, ParallelAIOsAssumption
    <3>3. Typed(n).n <= BufSize BY <3>2, ParallelAIOsAssumption
    <3> QED BY <2>1, <3>1, <3>2, <3>3, TakeStep DEF In
  <2> QED BY <1>2, <2>2, <2>3 DEF ReadConsole
<1> QED BY <1>1, <1>2

LEMMA WriteStep == ASSUME IInv, WriteDone \/ WriteConsole PROVE [R!Next]_R!vars
<1>1. CASE WriteDone
  <2> DEFINE r == OverlappedResult(cursor)
  <2>1. In("write", "io") /\ Collect("write") /\ Deliver(r.n) /\ taken' = taken BY <1>1 DEF WriteDone
  <2>2. /\ DataType /\ cursor \in Tasks /\ TaskInv(cursor) /\ Return("write", r) /\ r \in Outcomes
        /\ r.n = IF op[cursor] = "ok" THEN xfer[cursor] ELSE 0
    BY <2>1, CollectFacts
  <2> HIDE DEF r
  <2>3. r.n <= left[cursor] BY <2>1, <2>2, ParallelAIOsAssumption DEF TaskInv, OpInv, DataType, In
  <2>4. failed' = failed BY <2>1 DEF Collect
  <2> QED BY <2>1, <2>2, <2>3, <2>4, PutStep DEF In
<1>2. CASE WriteConsole
  <2>1. In("write", "start") /\ UNCHANGED <<taken, failed>> BY <1>2 DEF WriteConsole
  <2>2. DataType /\ cursor \in Tasks BY TypeSplit DEF IInv, CtlType
  <2>3. left[cursor] \in Nat BY <2>2, ParallelAIOsAssumption DEF DataType
  <2>4. CASE Return("write", Got(left[cursor])) /\ Deliver(left[cursor])
    <3>1. Got(left[cursor]) \in Outcomes /\ Got(left[cursor]).n = left[cursor] BY <2>3, OutcomeFacts
    <3> QED BY <2>1, <2>3, <2>4, <3>1, PutStep DEF In
  <2>5. CASE Return("write", Thrown) /\ out' = out
    BY <2>1, <2>5, OutcomeFacts, RootStays, Invisible DEF In, Roles
  <2> QED BY <1>2, <2>4, <2>5 DEF WriteConsole
<1> QED BY <1>1, <1>2

-----------------------------------------------------------------------------
\* Whatever their interleaving, chunks, partial writes and failures, the
\* transfers that run() drives copy their streams as the relay promises.
THEOREM Implements == Spec => RelaySpec
<1>1. Init => R!Init
  BY DEF Init, R!Init, Status, Roles
<1>2. IInv /\ [Next]_vars => [R!Next]_R!vars
  BY OutsideStep, InnerStep, LeafStartStep, ReadStep, WriteStep, StopStep
     DEF Next, Thread, Coroutine
<1> QED BY <1>1, <1>2, Invariance, PTL DEF Spec, RelaySpec, R!Spec

=============================================================================
