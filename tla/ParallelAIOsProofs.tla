------------------------- MODULE ParallelAIOsProofs --------------------------
(***************************************************************************)
(* Proofs of the safety properties of ParallelAIOs for every number of     *)
(* tasks, every kind of handle, every buffer size and stream length; and   *)
(* of its liveness, for the two tasks that the program has.                *)
(*                                                                         *)
(* None of the properties is inductive: each depends on which coroutines   *)
(* of a task exist, and on what the events, the OVERLAPPED and the byte    *)
(* counts are while a given coroutine is on record. IInv says that, task   *)
(* by task.                                                                *)
(***************************************************************************)
EXTENDS ParallelAIOs, SequenceTheorems, TLAPS

-----------------------------------------------------------------------------
\* The inductive invariant.

\* The thread runs a coroutine only inside step(), and runs the one on record.
ThreadInv ==
    /\ ~aborted
    /\ pc # "step" => running = "none" /\ cursor = 1
    /\ running # "none" => current[cursor] = running /\ progress
    /\ pc = "returned" => Cancelled \/ \A t \in Tasks : current[t] = "none"

\* The coroutines of t that are done.
Done(t, S) == \A c \in S : at[t][c] = "done"

\* The stack of t, for each coroutine that can be on record.
StackInv(t) ==
    \/ /\ current[t] = "none" /\ ~Active(t)
       /\ Done(t, Roles)
    \/ /\ current[t] = "transfer"
       /\ at[t]["transfer"] \in {"start", "read", "full"}
       /\ ~Active(t) => at[t]["transfer"] = "start"
       /\ Done(t, {"read", "full", "write"})
    \/ /\ current[t] = "read"
       /\ at[t]["transfer"] = "read"
       /\ at[t]["read"] \in {"start", "io", "event"}
       /\ ~Active(t) => at[t]["read"] # "start"
       /\ Done(t, {"full", "write"})
    \/ /\ current[t] = "full" /\ Active(t)
       /\ at[t]["transfer"] = "full"
       /\ at[t]["full"] \in {"start", "write"}
       /\ Done(t, {"read", "write"})
    \/ /\ current[t] = "write"
       /\ at[t]["transfer"] = "full" /\ at[t]["full"] = "write"
       /\ at[t]["write"] \in {"start", "io"}
       /\ ~Active(t) => at[t]["write"] # "start"
       /\ Done(t, {"read"})

\* A leaf of t waits for its operation, or has been resumed after it.
AtIo(t) == at[t]["read"] = "io" \/ at[t]["write"] = "io"

\* What is signaled for t is exactly what its coroutine on record waits for.
EventInv(t) ==
    /\ ioDone[t] <=> ~Active(t) /\ (current[t] = "transfer" \/ (AtIo(t) /\ op[t] \in Ended))
    /\ nonIo[t] <=> ~Active(t) /\ at[t]["read"] = "event"

\* The OVERLAPPED is in use exactly while a leaf is at its await, and an
\* operation that succeeded moved no more than was asked for.
OpInv(t) ==
    /\ ~AtIo(t) => op[t] = "idle"
    /\ at[t]["read"] = "io" => op[t] \in Ended \cup {"recv"}
    /\ at[t]["write"] = "io" => op[t] \in Ended \cup {"send"}
    /\ AtIo(t) /\ Active(t) => op[t] \in Ended
    /\ at[t]["read"] = "io" /\ op[t] = "ok" => taken[t] + xfer[t] <= MaxBytes
    /\ at[t]["write"] = "io" /\ op[t] = "ok" => xfer[t] \in 1..left[t]

Stopped(r) == r.exc \/ r.eof

\* Every byte taken is delivered, in the buffer, or about to be taken from it.
DataInv(t) ==
    /\ \A i \in 1..Len(out[t]) : out[t][i] = i
    /\ current[t] = "transfer" /\ at[t]["transfer"] = "start" => Len(out[t]) = taken[t]
    /\ current[t] = "transfer" /\ at[t]["transfer"] = "read" =>
          /\ Len(out[t]) + result[t].n = taken[t]
          /\ result[t].n <= BufSize
          /\ Stopped(result[t]) => result[t].n = 0
    /\ current[t] = "transfer" /\ at[t]["transfer"] = "full" =>
          (~result[t].exc => Len(out[t]) = taken[t])
    /\ current[t] = "read" => Len(out[t]) = taken[t]
    /\ current[t] = "full" /\ at[t]["full"] = "start" => Len(out[t]) + left[t] = taken[t]
    /\ current[t] = "full" /\ at[t]["full"] = "write" =>
          /\ Len(out[t]) + left[t] = taken[t] + result[t].n
          /\ result[t].n <= left[t]
    /\ current[t] = "write" => Len(out[t]) + left[t] = taken[t] /\ left[t] > 0
    /\ current[t] = "none" /\ ~failed[t] => Len(out[t]) = taken[t]

\* The depth of the thread's stack while a coroutine of t runs. Only a read
\* that fails at once is reached with four activations, and it ends the task.
NestInv(t) ==
    Active(t) =>
    /\ current[t] = "transfer" /\ at[t]["transfer"] = "start" => nest = 1
    /\ current[t] = "transfer" /\ at[t]["transfer"] = "read" =>
          nest = 1 \/ (nest <= 4 /\ Stopped(result[t]))
    /\ current[t] = "transfer" /\ at[t]["transfer"] = "full" => nest <= 3
    /\ current[t] = "read" /\ at[t]["read"] = "start" => nest <= 4
    /\ current[t] = "read" /\ at[t]["read"] # "start" => nest = 1
    /\ current[t] = "full" /\ at[t]["full"] = "start" => nest = 2
    /\ current[t] = "full" /\ at[t]["full"] = "write" =>
          nest = 1 \/ (nest <= 3 /\ (Stopped(result[t]) \/ result[t].n = left[t]))
    /\ current[t] = "write" /\ at[t]["write"] = "start" => nest <= 3
    /\ current[t] = "write" /\ at[t]["write"] = "io" => nest = 1

TaskInv(t) == StackInv(t) /\ EventInv(t) /\ OpInv(t) /\ DataInv(t) /\ NestInv(t)

\* What woke the thread is still ahead of it, until it has resumed some task.
WakeInv ==
    /\ pc = "check" => progress \/ Cancelled
    /\ pc = "step" /\ ~progress =>
          Cancelled \/ \E t \in Tasks : t >= cursor /\ Resumable(t)
    /\ running = "none" => nest = 0

IInv == TypeOK /\ ThreadInv /\ (\A t \in Tasks : TaskInv(t)) /\ WakeInv

-----------------------------------------------------------------------------
\* Lemmas.

\* Delivering the n bytes that follow the k first ones keeps a stream in order.
LEMMA InOrderAppend ==
    ASSUME NEW s \in Seq(1..MaxBytes), NEW k \in Nat, NEW n \in Nat,
           Len(s) = k, k + n <= MaxBytes, MaxBytes \in Nat,
           \A i \in 1..Len(s) : s[i] = i
    PROVE  /\ s \o Chunk(k, n) \in Seq(1..MaxBytes)
           /\ Len(s \o Chunk(k, n)) = k + n
           /\ \A i \in 1..Len(s \o Chunk(k, n)) : (s \o Chunk(k, n))[i] = i
<1> DEFINE c == Chunk(k, n)
<1>1. c \in Seq(1..MaxBytes) /\ Len(c) = n /\ \A i \in 1..n : c[i] = k + i
  BY DEF Chunk
<1> HIDE DEF c
<1>2. /\ s \o c \in Seq(1..MaxBytes) /\ Len(s \o c) = k + n
      /\ \A i \in 1..k + n : (s \o c)[i] = IF i <= k THEN s[i] ELSE c[i - k]
  BY <1>1, ConcatProperties
<1>3. ASSUME NEW i \in 1..k + n PROVE (s \o c)[i] = i
  BY <1>1, <1>2, <1>3
<1> QED BY <1>2, <1>3 DEF c

\* A step that leaves a task alone, and does not give it or take from it the
\* thread, preserves its invariant.
LEMMA OtherTask ==
    ASSUME NEW t \in Tasks, TaskInv(t),
           current'[t] = current[t], ioDone'[t] = ioDone[t], nonIo'[t] = nonIo[t],
           at'[t] = at[t], op'[t] = op[t], xfer'[t] = xfer[t],
           result'[t] = result[t], left'[t] = left[t], taken'[t] = taken[t],
           out'[t] = out[t], failed'[t] = failed[t],
           Active(t)' <=> Active(t), Active(t) => nest' = nest
    PROVE  TaskInv(t)'
<1>1. StackInv(t)' BY DEF TaskInv, StackInv, Done
<1>2. EventInv(t)' BY DEF TaskInv, EventInv, AtIo
<1>3. OpInv(t)' BY DEF TaskInv, OpInv, AtIo
<1>4. DataInv(t)' BY DEF TaskInv, DataInv
<1>5. NestInv(t)' BY DEF TaskInv, NestInv
<1> QED BY <1>1, <1>2, <1>3, <1>4, <1>5 DEF TaskInv

-----------------------------------------------------------------------------
\* TypeOK in two parts: what a control transfer writes, and everything else.

CtlType ==
    /\ pc \in {"check", "wait", "step", "returned"}
    /\ cursor \in Tasks
    /\ running \in Roles \cup {"none"}
    /\ nest \in Nat
    /\ progress \in BOOLEAN /\ aborted \in BOOLEAN
    /\ current \in [Tasks -> Roles \cup {"none"}]
    /\ at \in [Tasks -> [Roles -> Points]]

DataType ==
    /\ ioDone \in [Tasks -> BOOLEAN] /\ nonIo \in [Tasks -> BOOLEAN]
    /\ op \in [Tasks -> InFlight \cup Ended \cup {"idle"}]
    /\ xfer \in [Tasks -> 0..BufSize]
    /\ ready \in BOOLEAN /\ cancel \in BOOLEAN
    /\ result \in [Tasks -> Outcomes]
    /\ left \in [Tasks -> 0..BufSize]
    /\ taken \in [Tasks -> 0..MaxBytes]
    /\ out \in [Tasks -> Seq(1..MaxBytes)]
    /\ failed \in [Tasks -> BOOLEAN]

LEMMA TypeSplit == (TypeOK <=> CtlType /\ DataType) /\ (TypeOK' <=> CtlType' /\ DataType')
BY DEF TypeOK, CtlType, DataType

\* A step of a coroutine of task `cursor` leaves cur on record and gives the
\* thread to run, without touching the other tasks.
Moves(cur, run) ==
    /\ current'[cursor] = cur
    /\ running' = run
    /\ run # "none" => cursor' = cursor /\ pc' = pc
    /\ \A t \in Tasks \ {cursor} : at'[t] = at[t] /\ current'[t] = current[t]

LEMMA BackToStepControl ==
    ASSUME CtlType, pc = "step", BackToStep
    PROVE  /\ pc' \in {"step", "check"} /\ cursor' \in Tasks
           /\ pc' = "check" => cursor' = 1
           /\ running' = "none" /\ nest' = 0 /\ progress' = progress
BY ParallelAIOsAssumption DEF CtlType, BackToStep, NextTask, Tasks

LEMMA SuspendControl ==
    ASSUME IInv, NEW c \in Roles, NEW p \in Points, pc = "step", running = c, Suspend(c, p)
    PROVE  /\ CtlType' /\ ThreadInv' /\ WakeInv'
           /\ Moves(c, "none")
           /\ \A x \in Roles : at'[cursor][x] = IF x = c THEN p ELSE at[cursor][x]
<1>0. CtlType /\ ThreadInv /\ running # "none" BY TypeSplit DEF IInv, Roles
<1>1. current[cursor] = c /\ progress BY <1>0 DEF ThreadInv
<1>2. /\ pc' \in {"step", "check"} /\ cursor' \in Tasks
      /\ pc' = "check" => cursor' = 1
      /\ running' = "none" /\ nest' = 0 /\ progress' = progress
  BY <1>0, BackToStepControl DEF Suspend
<1>3. at' \in [Tasks -> [Roles -> Points]] BY <1>0 DEF Suspend, CtlType
<1>4. current' \in [Tasks -> Roles \cup {"none"}] /\ current'[cursor] = c /\ ~aborted'
  BY <1>0, <1>1 DEF Suspend, UpdateCurrent, CtlType
<1>5. aborted' \in BOOLEAN BY <1>0, <1>1 DEF Suspend, UpdateCurrent
<1>6. CtlType' BY <1>0, <1>2, <1>3, <1>4, <1>5 DEF CtlType
<1>7. ThreadInv' BY <1>2, <1>4 DEF ThreadInv
<1>8. WakeInv' BY <1>1, <1>2 DEF WakeInv
<1>9. Moves(c, "none") BY <1>0, <1>2, <1>4 DEF Moves, Suspend, UpdateCurrent, CtlType
<1>10. \A x \in Roles : at'[cursor][x] = IF x = c THEN p ELSE at[cursor][x]
  BY <1>0 DEF Suspend, CtlType
<1> QED BY <1>6, <1>7, <1>8, <1>9, <1>10

LEMMA CallControl ==
    ASSUME IInv, NEW m \in Roles, NEW c \in Roles \ {"transfer", m},
           pc = "step", running = m, Call(m, c)
    PROVE  /\ CtlType' /\ ThreadInv' /\ WakeInv'
           /\ Moves(c, c) /\ nest' = nest + 1
           /\ \A x \in Roles : at'[cursor][x] =
                 IF x = m THEN c ELSE IF x = c THEN "start" ELSE at[cursor][x]
<1>0. CtlType /\ ThreadInv /\ m # "none" /\ c # "none" BY TypeSplit DEF IInv, Roles
<1>1. current[cursor] = m /\ progress BY <1>0 DEF ThreadInv
<1>2. c \in Points /\ "start" \in Points BY DEF Roles, Points
<1>3. at' \in [Tasks -> [Roles -> Points]] BY <1>0, <1>2 DEF Call, CtlType
<1>4. \A x \in Roles : at'[cursor][x] =
        IF x = m THEN c ELSE IF x = c THEN "start" ELSE at[cursor][x]
  BY <1>0 DEF Call, CtlType
<1>5. CtlType' BY <1>0, <1>1, <1>3 DEF Call, UpdateCurrent, CtlType
<1>6. ThreadInv' /\ WakeInv' BY <1>0, <1>1 DEF Call, UpdateCurrent, CtlType, ThreadInv, WakeInv
<1>7. Moves(c, c) /\ nest' = nest + 1
  BY <1>0 DEF Call, UpdateCurrent, CtlType, Moves
<1> QED BY <1>4, <1>5, <1>6, <1>7

LEMMA ReturnControl ==
    ASSUME IInv, NEW c \in Roles, NEW r, c # "transfer", pc = "step", running = c, Return(c, r)
    PROVE  /\ CtlType' /\ ThreadInv' /\ WakeInv'
           /\ Moves(Parent(c), Parent(c)) /\ nest' = nest
           /\ \A x \in Roles : at'[cursor][x] = IF x = c THEN "done" ELSE at[cursor][x]
<1>0. CtlType /\ ThreadInv /\ c # "none" BY TypeSplit DEF IInv, Roles
<1>1. current[cursor] = c /\ progress BY <1>0 DEF ThreadInv
<1>2. Parent(c) \in Roles /\ Parent(c) # "none" BY DEF Parent, Roles
<1>3. "done" \in Points BY DEF Points
<1> QED BY <1>0, <1>1, <1>2, <1>3 DEF Return, FinalSuspend, UpdateCurrent, CtlType, ThreadInv, WakeInv, Moves

LEMMA EndControl ==
    ASSUME IInv, NEW exc, pc = "step", running = "transfer", TransferEnd(exc)
    PROVE  /\ CtlType' /\ ThreadInv' /\ WakeInv'
           /\ Moves("none", "none")
           /\ \A x \in Roles : at'[cursor][x] = IF x = "transfer" THEN "done" ELSE at[cursor][x]
<1>0. CtlType /\ ThreadInv /\ "transfer" \in Roles BY TypeSplit DEF IInv, Roles
<1>1. current[cursor] = "transfer" /\ progress BY <1>0 DEF ThreadInv
<1>2. /\ pc' \in {"step", "check"} /\ cursor' \in Tasks
      /\ pc' = "check" => cursor' = 1
      /\ running' = "none" /\ nest' = 0 /\ progress' = progress
  BY <1>0, BackToStepControl DEF TransferEnd
<1>3. at' \in [Tasks -> [Roles -> Points]] BY <1>0 DEF TransferEnd, CtlType, Points
<1>4. current' \in [Tasks -> Roles \cup {"none"}] /\ current'[cursor] = "none" /\ aborted' = FALSE
  BY <1>0, <1>1 DEF TransferEnd, UpdateCurrent, CtlType
<1>5. CtlType' BY <1>0, <1>2, <1>3, <1>4 DEF CtlType
<1>6. ThreadInv' BY <1>2, <1>4 DEF ThreadInv
<1>7. WakeInv' BY <1>1, <1>2 DEF WakeInv
<1>8. Moves("none", "none") BY <1>0, <1>2, <1>4 DEF Moves, TransferEnd, UpdateCurrent, CtlType
<1>9. \A x \in Roles : at'[cursor][x] = IF x = "transfer" THEN "done" ELSE at[cursor][x]
  BY <1>0 DEF TransferEnd, CtlType
<1> QED BY <1>5, <1>6, <1>7, <1>8, <1>9

-----------------------------------------------------------------------------
\* Overlapped operations.

LEMMA SubmitInv ==
    ASSUME IInv, NEW c \in {"read", "write"}, In(c, "start"),
           Submit(c, IF c = "read" THEN "recv" ELSE "send")
    PROVE  IInv'
<1>0. /\ CtlType /\ DataType /\ ThreadInv /\ TaskInv(cursor)
      /\ c \in Roles /\ "io" \in Points /\ current[cursor] = c /\ Active(cursor)
  BY TypeSplit DEF IInv, In, CtlType, ThreadInv, Active, Roles, Points
<1>1. /\ CtlType' /\ ThreadInv' /\ WakeInv' /\ Moves(c, "none")
      /\ \A x \in Roles : at'[cursor][x] = IF x = c THEN "io" ELSE at[cursor][x]
  BY <1>0, SuspendControl DEF Submit, In
<1>2. DataType' BY <1>0 DEF Submit, DataType, CtlType, InFlight, kernel, data
<1>3. ASSUME NEW t \in Tasks, t = cursor PROVE TaskInv(t)'
  <2> USE <1>0, <1>1, <1>3 DEF Moves, Active, Roles
  <2>1. StackInv(t)' BY DEF TaskInv, StackInv, Done, In
  <2>2. EventInv(t)' BY DEF TaskInv, StackInv, EventInv, AtIo, Done, Submit, DataType, InFlight, Ended
  <2>3. OpInv(t)' BY DEF TaskInv, StackInv, OpInv, AtIo, Done, Submit, DataType, InFlight, Ended
  <2>4. DataInv(t)' BY DEF TaskInv, DataInv, Submit, data
  <2>5. NestInv(t)' BY DEF NestInv
  <2> QED BY <2>1, <2>2, <2>3, <2>4, <2>5 DEF TaskInv
<1>4. ASSUME NEW t \in Tasks, t # cursor PROVE TaskInv(t)'
  BY <1>0, <1>1, <1>4, OtherTask DEF IInv, Moves, Active, Submit, data, DataType, CtlType
<1> QED BY <1>1, <1>2, <1>3, <1>4, TypeSplit DEF IInv

\* A leaf c returns r to its caller: enough that its operation is collected,
\* and that the bytes it reports are those it moved.
LEMMA LeafReturnInv ==
    ASSUME IInv, NEW c \in {"read", "write"}, NEW p \in {"start", "io", "event"}, In(c, p),
           NEW r \in Outcomes, Return(c, r), DataType',
           UNCHANGED <<ioDone, nonIo, left, failed>>, op'[cursor] = "idle",
           \A t \in Tasks \ {cursor} :
               op'[t] = op[t] /\ xfer'[t] = xfer[t] /\ taken'[t] = taken[t] /\ out'[t] = out[t],
           \A i \in 1..Len(out'[cursor]) : out'[cursor][i] = i,
           c = "read" => /\ Len(out'[cursor]) + r.n = taken'[cursor]
                         /\ r.n <= BufSize
                         /\ Stopped(r) => r.n = 0
                         /\ p = "start" => Stopped(r),
           c = "write" => /\ Len(out'[cursor]) + left[cursor] = taken'[cursor] + r.n
                          /\ r.n <= left[cursor]
                          /\ p = "start" => Stopped(r) \/ r.n = left[cursor]
    PROVE  IInv'
<1>0. /\ CtlType /\ DataType /\ ThreadInv /\ TaskInv(cursor)
      /\ c \in Roles /\ c # "transfer" /\ current[cursor] = c /\ Active(cursor)
  BY TypeSplit DEF IInv, In, CtlType, ThreadInv, Active, Roles
<1>1. /\ CtlType' /\ ThreadInv' /\ WakeInv' /\ Moves(Parent(c), Parent(c)) /\ nest' = nest
      /\ \A x \in Roles : at'[cursor][x] = IF x = c THEN "done" ELSE at[cursor][x]
  BY <1>0, ReturnControl DEF In
<1>2. result' = [result EXCEPT ![cursor] = r] BY DEF Return
<1>3. ASSUME NEW t \in Tasks, t = cursor PROVE TaskInv(t)'
  <2> USE <1>0, <1>1, <1>3 DEF Moves, Active, Roles, Parent, In
  <2>0. result'[t] = r BY <1>2 DEF DataType
  <2>1. StackInv(t)' BY DEF TaskInv, StackInv, Done
  <2>2. EventInv(t)' BY DEF TaskInv, StackInv, EventInv, AtIo, Done
  <2>3. OpInv(t)' BY DEF TaskInv, StackInv, OpInv, AtIo, Done
  <2>4. DataInv(t)' BY <2>0 DEF TaskInv, StackInv, DataInv, Stopped
  <2>5. NestInv(t)' BY <2>0 DEF TaskInv, StackInv, NestInv, Stopped
  <2> QED BY <2>1, <2>2, <2>3, <2>4, <2>5 DEF TaskInv
<1>4. ASSUME NEW t \in Tasks, t # cursor PROVE TaskInv(t)'
  <2>1. /\ TaskInv(t) /\ result'[t] = result[t] /\ at'[t] = at[t] /\ current'[t] = current[t]
        /\ ~Active(t) /\ ~Active(t)'
    BY <1>0, <1>1, <1>2, <1>4 DEF IInv, DataType, Moves, Active, Parent
  <2> QED BY <2>1, <1>4, OtherTask
<1> QED BY <1>1, <1>3, <1>4, TypeSplit DEF IInv

\* What the leaves return.
LEMMA OutcomeFacts ==
    /\ PeerReset \in Outcomes /\ PeerReset.n = 0 /\ Stopped(PeerReset) /\ ~PeerReset.exc
    /\ Thrown \in Outcomes /\ Thrown.n = 0 /\ Stopped(Thrown) /\ Thrown.exc
    /\ \A k \in Nat : /\ Got(k) \in Outcomes /\ Got(k).n = k /\ (Stopped(Got(k)) => k = 0)
                     /\ Typed(k) \in Outcomes /\ Typed(k).n = k /\ ~Stopped(Typed(k))
<1>1. /\ PeerReset \in Outcomes /\ PeerReset.n = 0 /\ Stopped(PeerReset) /\ ~PeerReset.exc
  BY DEF Outcomes, PeerReset, Stopped
<1>2. Thrown \in Outcomes /\ Thrown.n = 0 /\ Stopped(Thrown) /\ Thrown.exc
  BY DEF Outcomes, Thrown, Stopped
<1>3. ASSUME NEW k \in Nat
      PROVE  /\ Got(k) \in Outcomes /\ Got(k).n = k /\ (Stopped(Got(k)) => k = 0)
             /\ Typed(k) \in Outcomes /\ Typed(k).n = k /\ ~Stopped(Typed(k))
  BY DEF Outcomes, Got, Typed, Stopped
<1> QED BY <1>1, <1>2, <1>3

\* Before c's operation, and when its result is taken: what LeafReturnInv asks.
LEMMA RefusedInv ==
    ASSUME IInv, NEW c \in {"read", "write"}, In(c, "start"), NEW kind, Refused(c, kind)
    PROVE  IInv'
<1>1. /\ CtlType /\ DataType /\ ThreadInv /\ TaskInv(cursor)
      /\ current[cursor] = c /\ at[cursor][c] = "start" /\ cursor \in Tasks
  BY TypeSplit DEF IInv, In, CtlType, ThreadInv
<1>2. PICK r \in {PeerReset, Thrown} : Return(c, r) BY DEF Refused
<1>3. r \in Outcomes /\ r.n = 0 /\ Stopped(r) BY <1>2, OutcomeFacts
<1>4. UNCHANGED <<ioDone, nonIo, op, xfer, ready, cancel, left, taken, out, failed>>
  BY DEF Refused, kernel, data
<1>5. DataType' BY <1>1, <1>2, <1>3, <1>4 DEF DataType, Return
<1>6. op[cursor] = "idle" BY <1>1 DEF TaskInv, StackInv, OpInv, AtIo, Done
<1>7. /\ c = "read" => Len(out[cursor]) = taken[cursor]
      /\ c = "write" => Len(out[cursor]) + left[cursor] = taken[cursor] /\ left[cursor] > 0
      /\ \A i \in 1..Len(out[cursor]) : out[cursor][i] = i
      /\ taken[cursor] \in Nat /\ left[cursor] \in Nat /\ Len(out[cursor]) \in Nat
  BY <1>1 DEF TaskInv, DataInv, DataType
<1> QED BY <1>2, <1>3, <1>4, <1>5, <1>6, <1>7, LeafReturnInv, ParallelAIOsAssumption

\* What a leaf finds when its operation has ended.
LEMMA CollectFacts ==
    ASSUME IInv, NEW c \in {"read", "write"}, In(c, "io"), Collect(c)
    PROVE  /\ CtlType /\ DataType /\ cursor \in Tasks /\ TaskInv(cursor) /\ current[cursor] = c
           /\ op[cursor] \in Ended /\ op' = [op EXCEPT ![cursor] = "idle"]
           /\ Return(c, OverlappedResult(cursor))
           /\ OverlappedResult(cursor) \in Outcomes
           /\ Stopped(OverlappedResult(cursor)) => OverlappedResult(cursor).n = 0
           /\ OverlappedResult(cursor).n = IF op[cursor] = "ok" THEN xfer[cursor] ELSE 0
<1>1. /\ CtlType /\ DataType /\ ThreadInv /\ TaskInv(cursor)
      /\ current[cursor] = c /\ Active(cursor) /\ cursor \in Tasks
  BY TypeSplit DEF IInv, In, CtlType, ThreadInv, Active
<1>2. op[cursor] \in Ended BY <1>1 DEF TaskInv, OpInv, AtIo, In
<1>3. xfer[cursor] \in Nat BY <1>1, ParallelAIOsAssumption DEF DataType
<1>4. /\ OverlappedResult(cursor) \in Outcomes
      /\ Stopped(OverlappedResult(cursor)) => OverlappedResult(cursor).n = 0
      /\ OverlappedResult(cursor).n = IF op[cursor] = "ok" THEN xfer[cursor] ELSE 0
  BY <1>3, OutcomeFacts DEF OverlappedResult
<1> QED BY <1>1, <1>2, <1>4 DEF Collect

LEMMA ReadDoneInv == ASSUME IInv, ReadDone PROVE IInv'
<1> DEFINE r == OverlappedResult(cursor)
<1>1. /\ In("read", "io") /\ Collect("read") /\ out' = out
      /\ taken' = [taken EXCEPT ![cursor] = @ + r.n]
  BY DEF ReadDone
<1>2. /\ CtlType /\ DataType /\ cursor \in Tasks /\ TaskInv(cursor) /\ current[cursor] = "read"
      /\ op[cursor] \in Ended /\ op' = [op EXCEPT ![cursor] = "idle"]
      /\ Return("read", r) /\ r \in Outcomes /\ (Stopped(r) => r.n = 0)
      /\ r.n = IF op[cursor] = "ok" THEN xfer[cursor] ELSE 0
  BY <1>1, CollectFacts
<1> HIDE DEF r
<1>3. /\ Len(out[cursor]) = taken[cursor] /\ taken[cursor] + r.n <= MaxBytes
      /\ r.n \in 0..BufSize /\ taken[cursor] \in 0..MaxBytes
      /\ \A i \in 1..Len(out[cursor]) : out[cursor][i] = i
  BY <1>1, <1>2, ParallelAIOsAssumption DEF TaskInv, OpInv, DataInv, DataType, In
<1>4. UNCHANGED <<ioDone, nonIo, xfer, ready, cancel, left, failed, out>>
  BY <1>1 DEF Collect
<1>5. result' = [result EXCEPT ![cursor] = r] BY <1>2 DEF Return
<1>6. DataType' BY <1>1, <1>2, <1>3, <1>4, <1>5, ParallelAIOsAssumption DEF DataType
<1>7. taken'[cursor] = taken[cursor] + r.n /\ op'[cursor] = "idle"
  BY <1>1, <1>2 DEF DataType
<1>8. \A t \in Tasks \ {cursor} : op'[t] = op[t] /\ taken'[t] = taken[t]
  BY <1>1, <1>2 DEF DataType
<1> QED BY <1>1, <1>2, <1>3, <1>4, <1>6, <1>7, <1>8, LeafReturnInv

LEMMA ReadConsoleInv == ASSUME IInv, ReadConsole PROVE IInv'
<1>1. /\ CtlType /\ DataType /\ ThreadInv /\ TaskInv(cursor) /\ cursor \in Tasks
      /\ In("read", "event") /\ current[cursor] = "read"
  BY TypeSplit DEF ReadConsole, IInv, In, CtlType, ThreadInv
<1>2. UNCHANGED <<ioDone, nonIo, op, xfer, cancel, left, out, failed>> BY DEF ReadConsole
<1>3. /\ op[cursor] = "idle" /\ Len(out[cursor]) = taken[cursor] /\ taken[cursor] \in 0..MaxBytes
      /\ \A i \in 1..Len(out[cursor]) : out[cursor][i] = i
  BY <1>1 DEF TaskInv, StackInv, OpInv, DataInv, AtIo, Done, In, DataType
<1>4. ASSUME NEW n \in 0..BufSize, NEW r \in {Typed(n), Thrown}, r = Thrown => n = 0,
             taken[cursor] + n <= MaxBytes, Return("read", r), ready' \in BOOLEAN,
             taken' = [taken EXCEPT ![cursor] = @ + n]
      PROVE  IInv'
  <2>1. r \in Outcomes /\ r.n = n /\ (Stopped(r) => r.n = 0) /\ n \in Nat
    BY <1>4, OutcomeFacts, ParallelAIOsAssumption
  <2>2. DataType'
    BY <1>1, <1>2, <1>3, <1>4, <2>1, ParallelAIOsAssumption DEF DataType, Return
  <2>3. /\ taken'[cursor] = taken[cursor] + n
        /\ \A t \in Tasks \ {cursor} : taken'[t] = taken[t]
    BY <1>1, <1>4 DEF DataType
  <2> QED BY <1>1, <1>2, <1>3, <1>4, <2>1, <2>2, <2>3, LeafReturnInv
<1>5. CASE Return("read", Thrown) /\ UNCHANGED <<taken, ready>>
  <2>1. taken' = [taken EXCEPT ![cursor] = @ + 0] /\ ready' \in BOOLEAN
    BY <1>1, <1>3, <1>5 DEF DataType
  <2>2. 0 \in 0..BufSize /\ Thrown \in {Typed(0), Thrown} /\ taken[cursor] + 0 <= MaxBytes
    BY <1>3, ParallelAIOsAssumption
  <2> QED BY <2>1, <2>2, <1>4, <1>5
<1>6. CASE \E n \in 0..BufSize :
             /\ taken[cursor] + n <= MaxBytes
             /\ Return("read", Typed(n))
             /\ taken' = [taken EXCEPT ![cursor] = @ + n]
             /\ ready' \in (IF ready THEN BOOLEAN ELSE {FALSE})
  <2>1. PICK n \in 0..BufSize :
             /\ taken[cursor] + n <= MaxBytes
             /\ Return("read", Typed(n))
             /\ taken' = [taken EXCEPT ![cursor] = @ + n]
             /\ ready' \in BOOLEAN
    BY <1>6
  <2>2. Typed(n) # Thrown BY DEF Typed, Thrown
  <2> QED BY <2>1, <2>2, <1>4
<1> QED BY <1>5, <1>6 DEF ReadConsole

\* The two leaf writes: n bytes of the buffer are delivered and reported.
LEMMA DeliverInv ==
    ASSUME IInv, NEW p \in {"start", "io"}, In("write", p), NEW r \in Outcomes, Return("write", r),
           r.n <= left[cursor], p = "start" => Stopped(r) \/ r.n = left[cursor],
           Deliver(r.n), op'[cursor] = "idle", \A t \in Tasks \ {cursor} : op'[t] = op[t],
           op' \in [Tasks -> InFlight \cup Ended \cup {"idle"}],
           UNCHANGED <<ioDone, nonIo, xfer, ready, cancel, left, taken, failed>>
    PROVE  IInv'
<1>1. /\ CtlType /\ DataType /\ ThreadInv /\ TaskInv(cursor) /\ cursor \in Tasks /\ current[cursor] = "write"
  BY TypeSplit DEF IInv, In, CtlType, ThreadInv
<1>2. r.n \in Nat /\ MaxBytes \in Nat BY ParallelAIOsAssumption DEF Outcomes
<1> DEFINE s == out[cursor]
           k == taken[cursor] - left[cursor]
<1>3. /\ s \in Seq(1..MaxBytes) /\ k \in Nat /\ Len(s) = k /\ k + r.n <= MaxBytes
      /\ \A i \in 1..Len(s) : s[i] = i
  BY <1>1, <1>2, ParallelAIOsAssumption DEF TaskInv, DataInv, DataType
<1>4. out' = [out EXCEPT ![cursor] = s \o Chunk(k, r.n)] BY DEF Deliver
<1> DEFINE n == r.n
           longer == s \o Chunk(k, n)
<1>5. /\ longer \in Seq(1..MaxBytes) /\ Len(longer) = k + n
      /\ \A i \in 1..Len(longer) : longer[i] = i
  <2>1. n \in Nat /\ k + n <= MaxBytes BY <1>2, <1>3
  <2>2. s \in Seq(1..MaxBytes) /\ k \in Nat /\ Len(s) = k /\ \A i \in 1..Len(s) : s[i] = i
    BY <1>3
  <2> HIDE DEF s, k, n
  <2>3. /\ s \o Chunk(k, n) \in Seq(1..MaxBytes) /\ Len(s \o Chunk(k, n)) = k + n
        /\ \A i \in 1..Len(s \o Chunk(k, n)) : (s \o Chunk(k, n))[i] = i
    BY <2>1, <2>2, <1>2, InOrderAppend
  <2> QED BY <2>3
<1>6. /\ out' \in [Tasks -> Seq(1..MaxBytes)] /\ out'[cursor] = longer
      /\ \A t \in Tasks \ {cursor} : out'[t] = out[t]
  <2> HIDE DEF s, k
  <2> QED BY <1>1, <1>4, <1>5 DEF DataType
<1>7. DataType' BY <1>1, <1>6 DEF DataType, Return
<1>8. /\ \A i \in 1..Len(out'[cursor]) : out'[cursor][i] = i
      /\ Len(out'[cursor]) + left[cursor] = taken'[cursor] + r.n
  <2>1. left[cursor] \in Nat /\ taken[cursor] \in Nat /\ taken'[cursor] = taken[cursor]
    BY <1>1, ParallelAIOsAssumption DEF DataType
  <2>2. k + left[cursor] = taken[cursor]
    BY <2>1
  <2> HIDE DEF longer, k, s
  <2> QED BY <2>1, <2>2, <1>2, <1>5, <1>6, <1>3
<1> QED BY <1>1, <1>6, <1>7, <1>8, LeafReturnInv

LEMMA WriteDoneInv == ASSUME IInv, WriteDone PROVE IInv'
<1> DEFINE r == OverlappedResult(cursor)
<1>1. In("write", "io") /\ Collect("write") /\ Deliver(r.n) /\ taken' = taken BY DEF WriteDone
<1>2. /\ CtlType /\ DataType /\ cursor \in Tasks /\ TaskInv(cursor) /\ current[cursor] = "write"
      /\ op[cursor] \in Ended /\ op' = [op EXCEPT ![cursor] = "idle"]
      /\ Return("write", r) /\ r \in Outcomes /\ (Stopped(r) => r.n = 0)
      /\ r.n = IF op[cursor] = "ok" THEN xfer[cursor] ELSE 0
  BY <1>1, CollectFacts
<1> HIDE DEF r
<1>3. r.n <= left[cursor]
  BY <1>1, <1>2, ParallelAIOsAssumption DEF TaskInv, OpInv, DataType, In
<1>4. /\ op'[cursor] = "idle" /\ \A t \in Tasks \ {cursor} : op'[t] = op[t]
      /\ op' \in [Tasks -> InFlight \cup Ended \cup {"idle"}]
  BY <1>2 DEF DataType
<1>5. UNCHANGED <<ioDone, nonIo, xfer, ready, cancel, left, taken, failed>>
  BY <1>1 DEF Collect
<1> QED BY <1>1, <1>2, <1>3, <1>4, <1>5, DeliverInv

LEMMA WriteConsoleInv == ASSUME IInv, WriteConsole PROVE IInv'
<1>1. /\ CtlType /\ DataType /\ TaskInv(cursor) /\ In("write", "start") /\ cursor \in Tasks
      /\ UNCHANGED <<ioDone, nonIo, op, xfer, ready, cancel, left, taken, failed>>
  BY TypeSplit DEF WriteConsole, IInv, kernel, CtlType
<1>2. op[cursor] = "idle" /\ left[cursor] \in Nat /\ current[cursor] = "write"
  BY <1>1, ParallelAIOsAssumption DEF TaskInv, StackInv, OpInv, AtIo, Done, In, DataType, Roles
<1>3. CASE Return("write", Got(left[cursor])) /\ Deliver(left[cursor])
  <2>1. Got(left[cursor]) \in Outcomes /\ Got(left[cursor]).n = left[cursor]
    BY <1>2, OutcomeFacts
  <2>2. op' = op /\ op' \in [Tasks -> InFlight \cup Ended \cup {"idle"}] BY <1>1 DEF DataType
  <2> QED BY <1>1, <1>2, <1>3, <2>1, <2>2, DeliverInv
<1>4. CASE Return("write", Thrown) /\ UNCHANGED out
  <2>1. Len(out[cursor]) + left[cursor] = taken[cursor] /\ \A i \in 1..Len(out[cursor]) : out[cursor][i] = i
    BY <1>1, <1>2 DEF TaskInv, DataInv
  <2>2. DataType' BY <1>1, <1>4, OutcomeFacts DEF DataType, Return
  <2>3. taken[cursor] \in Nat BY <1>1, ParallelAIOsAssumption DEF DataType
  <2> QED BY <1>1, <1>2, <1>4, <2>1, <2>2, <2>3, OutcomeFacts, LeafReturnInv
<1> QED BY <1>3, <1>4 DEF WriteConsole

-----------------------------------------------------------------------------
\* write_async_full_from and async_transfer.

\* What a caller finds when it has the thread back, or for the first time.
LEMMA CallerFacts ==
    ASSUME IInv, NEW c \in {"transfer", "full"}, NEW p \in Points, In(c, p)
    PROVE  /\ CtlType /\ DataType /\ ThreadInv /\ TaskInv(cursor) /\ cursor \in Tasks
           /\ c \in Roles /\ current[cursor] = c /\ Active(cursor) /\ op[cursor] = "idle"
           /\ left[cursor] \in Nat /\ taken[cursor] \in Nat /\ Len(out[cursor]) \in Nat
           /\ result[cursor] \in Outcomes
<1>1. /\ CtlType /\ DataType /\ ThreadInv /\ TaskInv(cursor) /\ cursor \in Tasks
      /\ c \in Roles /\ current[cursor] = c /\ Active(cursor)
  BY TypeSplit DEF IInv, In, CtlType, ThreadInv, Active, Roles
<1>2. op[cursor] = "idle" BY <1>1 DEF TaskInv, StackInv, OpInv, AtIo, Done
<1>3. /\ left[cursor] \in Nat /\ taken[cursor] \in Nat /\ Len(out[cursor]) \in Nat
      /\ result[cursor] \in Outcomes
  BY <1>1, ParallelAIOsAssumption DEF DataType
<1> QED BY <1>1, <1>2, <1>3

\* write_async_full_from returns r.
LEMMA FullReturnInv ==
    ASSUME IInv, NEW p \in {"start", "write"}, In("full", p), NEW r \in Outcomes, Return("full", r),
           left' \in [Tasks -> 0..BufSize], \A t \in Tasks \ {cursor} : left'[t] = left[t],
           UNCHANGED <<ioDone, nonIo, op, xfer, ready, cancel, taken, out, failed>>,
           ~r.exc => Len(out[cursor]) = taken[cursor], nest <= 3
    PROVE  IInv'
<1>0. /\ CtlType /\ DataType /\ ThreadInv /\ TaskInv(cursor) /\ cursor \in Tasks
      /\ current[cursor] = "full" /\ Active(cursor) /\ op[cursor] = "idle"
  BY CallerFacts DEF Points
<1>1. /\ CtlType' /\ ThreadInv' /\ WakeInv' /\ Moves("transfer", "transfer") /\ nest' = nest
      /\ \A x \in Roles : at'[cursor][x] = IF x = "full" THEN "done" ELSE at[cursor][x]
  BY <1>0, ReturnControl DEF In, Parent, Roles
<1>2. result' = [result EXCEPT ![cursor] = r] BY DEF Return
<1>3. DataType' BY <1>0, <1>2 DEF DataType
<1>4. ASSUME NEW t \in Tasks, t = cursor PROVE TaskInv(t)'
  <2> USE <1>0, <1>1, <1>4 DEF Moves, Active, Roles, In
  <2>0. result'[t] = r BY <1>2 DEF DataType
  <2>1. StackInv(t)' BY DEF TaskInv, StackInv, Done
  <2>2. EventInv(t)' BY DEF TaskInv, StackInv, EventInv, AtIo, Done
  <2>3. OpInv(t)' BY DEF TaskInv, StackInv, OpInv, AtIo, Done
  <2>4. DataInv(t)' BY <2>0 DEF TaskInv, StackInv, DataInv
  <2>5. NestInv(t)' BY <2>0 DEF TaskInv, StackInv, NestInv
  <2> QED BY <2>1, <2>2, <2>3, <2>4, <2>5 DEF TaskInv
<1>5. ASSUME NEW t \in Tasks, t # cursor PROVE TaskInv(t)'
  <2>1. /\ TaskInv(t) /\ result'[t] = result[t] /\ at'[t] = at[t] /\ current'[t] = current[t]
        /\ ~Active(t) /\ ~Active(t)'
    BY <1>0, <1>1, <1>2, <1>5 DEF IInv, DataType, Moves, Active
  <2> QED BY <2>1, <1>5, OtherTask
<1> QED BY <1>1, <1>3, <1>4, <1>5, TypeSplit DEF IInv

LEMMA FullGoInv ==
    ASSUME IInv, NEW p \in {"start", "write"}, In("full", p),
           NEW rest \in 0..BufSize, NEW eof \in BOOLEAN, FullGo(rest, eof),
           Len(out[cursor]) + rest = taken[cursor],
           nest <= 3, rest > 0 /\ ~eof => nest <= 2
    PROVE  IInv'
<1>0. /\ CtlType /\ DataType /\ ThreadInv /\ TaskInv(cursor) /\ cursor \in Tasks
      /\ current[cursor] = "full" /\ Active(cursor) /\ op[cursor] = "idle"
      /\ taken[cursor] \in Nat /\ Len(out[cursor]) \in Nat
  BY CallerFacts DEF Points
<1>1. /\ left' = [left EXCEPT ![cursor] = rest]
      /\ UNCHANGED <<ioDone, nonIo, op, xfer, ready, cancel, taken, out, failed>>
  BY DEF FullGo, kernel
<1>2. /\ left' \in [Tasks -> 0..BufSize] /\ left'[cursor] = rest
      /\ \A t \in Tasks \ {cursor} : left'[t] = left[t]
  BY <1>0, <1>1 DEF DataType
<1>3. CASE WriteMore(rest, eof)
  <2>1. Call("full", "write") /\ result' = result BY <1>3 DEF FullGo
  <2>2. /\ CtlType' /\ ThreadInv' /\ WakeInv' /\ Moves("write", "write") /\ nest' = nest + 1
        /\ \A x \in Roles : at'[cursor][x] =
              IF x = "full" THEN "write" ELSE IF x = "write" THEN "start" ELSE at[cursor][x]
    BY <1>0, <2>1, CallControl DEF In, Roles
  <2>3. DataType' BY <1>0, <1>1, <1>2, <2>1 DEF DataType
  <2>4. nest' <= 3 /\ rest > 0 BY <1>3, <2>2, <1>0 DEF WriteMore, CtlType
  <2>5. ASSUME NEW t \in Tasks, t = cursor PROVE TaskInv(t)'
    <3> USE <1>0, <1>1, <2>2, <2>5 DEF Moves, Active, Roles, In
    <3>1. StackInv(t)' BY DEF TaskInv, StackInv, Done
    <3>2. EventInv(t)' BY DEF TaskInv, StackInv, EventInv, AtIo, Done
    <3>3. OpInv(t)' BY DEF TaskInv, StackInv, OpInv, AtIo, Done
    <3>4. DataInv(t)' BY <1>2, <2>4 DEF TaskInv, DataInv
    <3>5. NestInv(t)' BY <2>4 DEF NestInv
    <3> QED BY <3>1, <3>2, <3>3, <3>4, <3>5 DEF TaskInv
  <2>6. ASSUME NEW t \in Tasks, t # cursor PROVE TaskInv(t)'
    <3>1. /\ TaskInv(t) /\ result'[t] = result[t] /\ at'[t] = at[t] /\ current'[t] = current[t]
          /\ ~Active(t) /\ ~Active(t)'
      BY <1>0, <2>1, <2>2, <2>6 DEF IInv, Moves, Active
    <3> QED BY <3>1, <1>1, <1>2, <2>6, OtherTask
  <2> QED BY <2>2, <2>3, <2>5, <2>6, TypeSplit DEF IInv
<1>4. CASE ~WriteMore(rest, eof) /\ eof /\ rest > 0
  <2>1. Return("full", Thrown) BY <1>4 DEF FullGo
  <2> QED BY <2>1, <1>1, <1>2, OutcomeFacts, FullReturnInv
<1>5. CASE ~WriteMore(rest, eof) /\ ~(eof /\ rest > 0)
  <2>1. Return("full", [n |-> 0, eof |-> eof, exc |-> FALSE]) BY <1>5 DEF FullGo
  <2>2. [n |-> 0, eof |-> eof, exc |-> FALSE] \in Outcomes BY DEF Outcomes
  <2>3. rest = 0 BY <1>5 DEF WriteMore
  <2>4. Len(out[cursor]) = taken[cursor] BY <2>3, <1>0
  <2> QED BY <2>1, <2>2, <2>4, <1>1, <1>2, FullReturnInv
<1> QED BY <1>3, <1>4, <1>5

\* What is left of a buffer after n of its bytes were written.
LEMMA RestOf ==
    ASSUME NEW size \in Nat, NEW rest \in 0..size, NEW n \in Nat, n <= rest,
           NEW written \in Nat, NEW read \in Nat, written + rest = read + n
    PROVE  rest - n \in 0..size /\ written + (rest - n) = read
  OBVIOUS

LEMMA FullInv == ASSUME IInv, FullStart \/ FullWrote \/ FullThrow PROVE IInv'
<1>1. CASE FullStart
  <2>1. In("full", "start") /\ FullGo(left[cursor], FALSE) BY <1>1 DEF FullStart
  <2>2. /\ DataType /\ TaskInv(cursor) /\ cursor \in Tasks /\ current[cursor] = "full" /\ Active(cursor)
    BY <2>1, CallerFacts DEF Points
  <2>3. left[cursor] \in 0..BufSize /\ Len(out[cursor]) + left[cursor] = taken[cursor] /\ nest = 2
    BY <2>1, <2>2 DEF TaskInv, DataInv, NestInv, In, DataType
  <2> DEFINE eof == FALSE
  <2>4. eof \in BOOLEAN /\ FullGo(left[cursor], eof) BY <2>1
  <2> HIDE DEF eof
  <2> QED BY <2>1, <2>3, <2>4, FullGoInv
<1>2. CASE FullWrote
  <2> DEFINE r == result[cursor]
  <2>1. In("full", "write") /\ ~r.exc /\ FullGo(left[cursor] - r.n, r.eof)
    BY <1>2 DEF FullWrote, Rest
  <2>2. /\ DataType /\ CtlType /\ TaskInv(cursor) /\ cursor \in Tasks /\ current[cursor] = "full" /\ Active(cursor)
        /\ r \in Outcomes
    BY <2>1, CallerFacts DEF Points
  <2> HIDE DEF r
  <2>3. /\ left[cursor] \in 0..BufSize /\ r.n \in Nat /\ r.eof \in BOOLEAN /\ nest \in Nat
        /\ taken[cursor] \in Nat /\ Len(out[cursor]) \in Nat
    BY <2>2, ParallelAIOsAssumption DEF DataType, CtlType, Outcomes
  <2>4. /\ Len(out[cursor]) + left[cursor] = taken[cursor] + r.n /\ r.n <= left[cursor]
        /\ nest = 1 \/ (nest <= 3 /\ (r.eof \/ r.n = left[cursor]))
    BY <2>1, <2>2 DEF TaskInv, DataInv, NestInv, In, Stopped, r
  <2>5. left[cursor] - r.n \in 0..BufSize /\ Len(out[cursor]) + (left[cursor] - r.n) = taken[cursor]
    <3>1. BufSize \in Nat BY ParallelAIOsAssumption
    <3> DEFINE rest == left[cursor]
               written == Len(out[cursor])
               read == taken[cursor]
    <3>2. /\ rest \in 0..BufSize /\ r.n \in Nat /\ r.n <= rest
          /\ written \in Nat /\ read \in Nat /\ written + rest = read + r.n
      BY <2>3, <2>4
    <3> HIDE DEF rest, written, read
    <3>3. rest - r.n \in 0..BufSize /\ written + (rest - r.n) = read
      BY <3>1, <3>2, RestOf
    <3> QED BY <3>3 DEF rest, written, read
  <2>6. nest <= 3 /\ (left[cursor] - r.n > 0 /\ ~r.eof => nest <= 2) BY <2>3, <2>4
  <2> QED BY <2>1, <2>3, <2>5, <2>6, FullGoInv
<1>3. CASE FullThrow
  <2>1. /\ In("full", "write") /\ Return("full", Thrown)
        /\ UNCHANGED <<ioDone, nonIo, op, xfer, ready, cancel, left, taken, out, failed>>
    BY <1>3 DEF FullThrow, kernel, data
  <2>2. /\ DataType /\ CtlType /\ TaskInv(cursor) /\ cursor \in Tasks /\ current[cursor] = "full" /\ Active(cursor)
    BY <2>1, CallerFacts DEF Points
  <2>3. nest <= 3 /\ left' \in [Tasks -> 0..BufSize]
    BY <2>1, <2>2 DEF TaskInv, NestInv, In, CtlType, DataType
  <2> QED BY <2>1, <2>3, OutcomeFacts, FullReturnInv
<1> QED BY <1>1, <1>2, <1>3

\* async_transfer calls its next child c; n is what it leaves in the buffer.
LEMMA TransferCallInv ==
    ASSUME IInv, NEW p \in {"start", "read", "full"}, In("transfer", p),
           NEW c \in {"read", "full"}, Call("transfer", c), NEW n \in 0..BufSize,
           left' \in [Tasks -> 0..BufSize], left'[cursor] = n,
           \A t \in Tasks \ {cursor} : left'[t] = left[t],
           UNCHANGED <<ioDone, nonIo, op, xfer, ready, cancel, result, taken, out, failed>>,
           c = "read" => Len(out[cursor]) = taken[cursor] /\ nest <= 3,
           c = "full" => Len(out[cursor]) + n = taken[cursor] /\ nest = 1
    PROVE  IInv'
<1>0. /\ CtlType /\ DataType /\ ThreadInv /\ TaskInv(cursor) /\ cursor \in Tasks
      /\ current[cursor] = "transfer" /\ Active(cursor) /\ op[cursor] = "idle"
  BY CallerFacts DEF Points
<1>1. /\ CtlType' /\ ThreadInv' /\ WakeInv' /\ Moves(c, c) /\ nest' = nest + 1
      /\ \A x \in Roles : at'[cursor][x] =
            IF x = "transfer" THEN c ELSE IF x = c THEN "start" ELSE at[cursor][x]
  BY <1>0, CallControl DEF In, Roles
<1>2. DataType' BY <1>0 DEF DataType
<1>3. c = "read" => nest' <= 4 BY <1>0, <1>1 DEF CtlType
<1>4. ASSUME NEW t \in Tasks, t = cursor PROVE TaskInv(t)'
  <2> USE <1>0, <1>1, <1>4 DEF Moves, Active, Roles, In
  <2>1. StackInv(t)' BY DEF TaskInv, StackInv, Done
  <2>2. EventInv(t)' BY DEF TaskInv, StackInv, EventInv, AtIo, Done
  <2>3. OpInv(t)' BY DEF TaskInv, StackInv, OpInv, AtIo, Done
  <2>4. DataInv(t)' BY DEF TaskInv, DataInv
  <2>5. NestInv(t)' BY <1>3 DEF NestInv
  <2> QED BY <2>1, <2>2, <2>3, <2>4, <2>5 DEF TaskInv
<1>5. ASSUME NEW t \in Tasks, t # cursor PROVE TaskInv(t)'
  <2>1. /\ TaskInv(t) /\ at'[t] = at[t] /\ current'[t] = current[t] /\ ~Active(t) /\ ~Active(t)'
    BY <1>0, <1>1, <1>5 DEF IInv, Moves, Active
  <2> QED BY <2>1, <1>5, OtherTask
<1> QED BY <1>1, <1>2, <1>4, <1>5, TypeSplit DEF IInv

LEMMA TransferCallsInv == ASSUME IInv, TransferStart \/ TransferRead \/ TransferWrote PROVE IInv'
<1>1. CASE TransferStart
  <2>1. /\ In("transfer", "start") /\ Call("transfer", "read")
        /\ UNCHANGED <<ioDone, nonIo, op, xfer, ready, cancel, result, left, taken, out, failed>>
    BY <1>1 DEF TransferStart, kernel, data
  <2>2. DataType /\ TaskInv(cursor) /\ cursor \in Tasks /\ current[cursor] = "transfer" /\ Active(cursor)
    BY <2>1, CallerFacts DEF Points
  <2>3. /\ Len(out[cursor]) = taken[cursor] /\ nest <= 3
        /\ left[cursor] \in 0..BufSize /\ left \in [Tasks -> 0..BufSize]
    BY <2>1, <2>2 DEF TaskInv, DataInv, NestInv, In, DataType
  <2> QED BY <2>1, <2>3, TransferCallInv
<1>2. CASE TransferRead
  <2> DEFINE n == result[cursor].n
  <2>1. /\ In("transfer", "read") /\ ~result[cursor].exc /\ ~result[cursor].eof
        /\ Call("transfer", "full") /\ left' = [left EXCEPT ![cursor] = n]
        /\ UNCHANGED <<ioDone, nonIo, op, xfer, ready, cancel, result, taken, out, failed>>
    BY <1>2 DEF TransferRead, kernel
  <2>2. /\ DataType /\ TaskInv(cursor) /\ cursor \in Tasks /\ current[cursor] = "transfer" /\ Active(cursor)
        /\ n \in Nat
    BY <2>1, CallerFacts DEF Points, Outcomes
  <2>3. Len(out[cursor]) + n = taken[cursor] /\ n <= BufSize /\ nest = 1
    BY <2>1, <2>2 DEF TaskInv, DataInv, NestInv, In, Stopped
  <2>4. n \in 0..BufSize BY <2>2, <2>3, ParallelAIOsAssumption
  <2>5. /\ left' \in [Tasks -> 0..BufSize] /\ left'[cursor] = n
        /\ \A t \in Tasks \ {cursor} : left'[t] = left[t]
    BY <2>1, <2>2, <2>4 DEF DataType
  <2> QED BY <2>1, <2>3, <2>4, <2>5, TransferCallInv
<1>3. CASE TransferWrote
  <2>1. /\ In("transfer", "full") /\ ~result[cursor].exc /\ Call("transfer", "read")
        /\ UNCHANGED <<ioDone, nonIo, op, xfer, ready, cancel, result, left, taken, out, failed>>
    BY <1>3 DEF TransferWrote, kernel, data
  <2>2. DataType /\ TaskInv(cursor) /\ cursor \in Tasks /\ current[cursor] = "transfer" /\ Active(cursor)
    BY <2>1, CallerFacts DEF Points
  <2>3. /\ Len(out[cursor]) = taken[cursor] /\ nest <= 3
        /\ left[cursor] \in 0..BufSize /\ left \in [Tasks -> 0..BufSize]
    BY <2>1, <2>2 DEF TaskInv, DataInv, NestInv, In, DataType
  <2> QED BY <2>1, <2>3, TransferCallInv
<1> QED BY <1>1, <1>2, <1>3

LEMMA TransferStopInv == ASSUME IInv, TransferStop PROVE IInv'
<1>1. PICK p \in {"read", "full"} : In("transfer", p) BY DEF TransferStop
<1>2. /\ result[cursor].exc \/ result[cursor].eof
      /\ TransferEnd(result[cursor].exc)
      /\ UNCHANGED <<ioDone, nonIo, op, xfer, ready, cancel, result, left, taken, out>>
  BY DEF TransferStop, kernel, data
<1>3. /\ CtlType /\ DataType /\ ThreadInv /\ TaskInv(cursor) /\ cursor \in Tasks
      /\ current[cursor] = "transfer" /\ Active(cursor) /\ op[cursor] = "idle"
      /\ result[cursor] \in Outcomes /\ Len(out[cursor]) \in Nat
  BY <1>1, CallerFacts DEF Points
<1>4. /\ CtlType' /\ ThreadInv' /\ WakeInv' /\ Moves("none", "none")
      /\ \A x \in Roles : at'[cursor][x] = IF x = "transfer" THEN "done" ELSE at[cursor][x]
  BY <1>1, <1>2, <1>3, EndControl DEF In
<1>5. /\ failed' = [failed EXCEPT ![cursor] = result[cursor].exc]
      /\ result[cursor].exc \in BOOLEAN
  BY <1>2, <1>3 DEF TransferEnd, Outcomes
<1>6. DataType' BY <1>2, <1>3, <1>5 DEF DataType
<1>7. ASSUME NEW t \in Tasks, t = cursor PROVE TaskInv(t)'
  <2> USE <1>1, <1>2, <1>3, <1>4, <1>7 DEF Moves, Active, Roles, In
  <2>1. StackInv(t)' BY DEF TaskInv, StackInv, Done
  <2>2. EventInv(t)' BY DEF TaskInv, StackInv, EventInv, AtIo, Done
  <2>3. OpInv(t)' BY DEF TaskInv, StackInv, OpInv, AtIo, Done
  <2>4. DataInv(t)' BY <1>5 DEF TaskInv, DataInv, DataType, Stopped
  <2>5. NestInv(t)' BY DEF NestInv
  <2> QED BY <2>1, <2>2, <2>3, <2>4, <2>5 DEF TaskInv
<1>8. ASSUME NEW t \in Tasks, t # cursor PROVE TaskInv(t)'
  <2>1. /\ TaskInv(t) /\ at'[t] = at[t] /\ current'[t] = current[t] /\ ~Active(t) /\ ~Active(t)'
        /\ failed'[t] = failed[t]
    BY <1>3, <1>4, <1>5, <1>8 DEF IInv, Moves, Active, DataType
  <2> QED BY <2>1, <1>2, <1>8, OtherTask
<1> QED BY <1>4, <1>6, <1>7, <1>8, TypeSplit DEF IInv

LEMMA ReadAwaitConsoleInv == ASSUME IInv, ReadAwaitConsole PROVE IInv'
<1>0. /\ CtlType /\ DataType /\ ThreadInv /\ TaskInv(cursor) /\ In("read", "start")
      /\ cursor \in Tasks /\ current[cursor] = "read" /\ Active(cursor)
  BY TypeSplit DEF ReadAwaitConsole, IInv, In, CtlType, ThreadInv, Active
<1>1. /\ CtlType' /\ ThreadInv' /\ WakeInv' /\ Moves("read", "none")
      /\ \A x \in Roles : at'[cursor][x] = IF x = "read" THEN "event" ELSE at[cursor][x]
  BY <1>0, SuspendControl DEF ReadAwaitConsole, In, Roles, Points
<1>2. /\ nonIo' = [nonIo EXCEPT ![cursor] = TRUE]
      /\ UNCHANGED <<ioDone, op, xfer, ready, cancel, result, left, taken, out, failed>>
  BY DEF ReadAwaitConsole, kernel, data
<1>3. DataType' BY <1>0, <1>2 DEF DataType
<1>4. ASSUME NEW t \in Tasks, t = cursor PROVE TaskInv(t)'
  <2> USE <1>0, <1>1, <1>2, <1>4 DEF Moves, Active, Roles, In
  <2>1. StackInv(t)' BY DEF TaskInv, StackInv, Done
  <2>2. EventInv(t)' BY DEF TaskInv, StackInv, EventInv, AtIo, Done, DataType
  <2>3. OpInv(t)' BY DEF TaskInv, StackInv, OpInv, AtIo, Done
  <2>4. DataInv(t)' BY DEF TaskInv, DataInv
  <2>5. NestInv(t)' BY DEF NestInv
  <2> QED BY <2>1, <2>2, <2>3, <2>4, <2>5 DEF TaskInv
<1>5. ASSUME NEW t \in Tasks, t # cursor PROVE TaskInv(t)'
  <2>1. /\ TaskInv(t) /\ at'[t] = at[t] /\ current'[t] = current[t] /\ ~Active(t) /\ ~Active(t)'
        /\ nonIo'[t] = nonIo[t]
    BY <1>0, <1>1, <1>2, <1>5 DEF IInv, Moves, Active, DataType
  <2> QED BY <2>1, <1>2, <1>5, OtherTask
<1> QED BY <1>1, <1>3, <1>4, <1>5, TypeSplit DEF IInv

-----------------------------------------------------------------------------
\* The scheduler.

\* A step that leaves every task and the coroutine that runs as they are.
LEMMA TasksUnchanged ==
    ASSUME \A t \in Tasks : TaskInv(t), UNCHANGED <<current, ioDone, nonIo, at, op, xfer, result, left, taken, out, failed>>,
           \/ UNCHANGED <<running, cursor, nest>>
           \/ running = "none" /\ running' = "none"
    PROVE  \A t \in Tasks : TaskInv(t)'
<1> SUFFICES ASSUME NEW t \in Tasks PROVE TaskInv(t)' OBVIOUS
<1>1. (Active(t)' <=> Active(t)) /\ (Active(t) => nest' = nest) BY DEF Active
<1> QED BY <1>1, OtherTask

\* An event wait_any returns for is one that step() resumes its task for.
LEMMA EventDoneResumable ==
    ASSUME NEW t \in Tasks, TypeOK, running = "none", TaskInv(t), EventDone(t)
    PROVE  Resumable(t)
BY DEF TypeOK, TaskInv, StackInv, EventInv, AtIo, Done, Active, EventDone, Resumable, Roles

LEMMA CheckInv == ASSUME IInv, Check PROVE IInv'
<1>1. /\ pc = "check" /\ pc' \in {"returned", "wait"} /\ (pc' = "returned" => RunDone)
      /\ UNCHANGED <<cursor, running, nest, progress, aborted, current, ioDone, nonIo, at, op, xfer,
                     ready, cancel, result, left, taken, out, failed>>
  BY DEF Check, env, kernel, data
<1>2. TypeOK' BY <1>1 DEF IInv, TypeOK
<1>3. ThreadInv' BY <1>1 DEF IInv, ThreadInv, RunDone, Cancelled
<1>4. \A t \in Tasks : TaskInv(t)' BY <1>1, TasksUnchanged DEF IInv
<1>5. WakeInv' BY <1>1 DEF IInv, WakeInv
<1> QED BY <1>2, <1>3, <1>4, <1>5 DEF IInv

LEMMA WaitAnyInv == ASSUME IInv, WaitAny PROVE IInv'
<1>1. /\ pc = "wait" /\ pc' = "step" /\ progress' = FALSE
      /\ Cancelled \/ \E t \in Tasks : EventDone(t)
      /\ UNCHANGED <<cursor, running, nest, aborted, current, ioDone, nonIo, at, op, xfer,
                     ready, cancel, result, left, taken, out, failed>>
  BY DEF WaitAny, env, kernel, data
<1>2. running = "none" /\ cursor = 1 BY <1>1 DEF IInv, ThreadInv
<1>3. TypeOK' BY <1>1 DEF IInv, TypeOK
<1>4. ThreadInv' BY <1>1, <1>2 DEF IInv, ThreadInv
<1>5. \A t \in Tasks : TaskInv(t)' BY <1>1, TasksUnchanged DEF IInv
<1>6. Cancelled \/ \E t \in Tasks : t >= cursor /\ Resumable(t)
  BY <1>1, <1>2, EventDoneResumable DEF IInv, Tasks
<1>7. WakeInv' BY <1>1, <1>2, <1>6 DEF IInv, WakeInv, Cancelled, Resumable
<1> QED BY <1>3, <1>4, <1>5, <1>7 DEF IInv

LEMMA EnvSkipInv == ASSUME IInv, EnvSkip PROVE IInv'
<1>1. /\ pc = "step" /\ running = "none" /\ ~Resumable(cursor) /\ BackToStep
      /\ UNCHANGED <<aborted, current, ioDone, nonIo, at, op, xfer,
                     ready, cancel, result, left, taken, out, failed>>
  BY DEF EnvSkip, env, kernel, data
<1>2. CtlType BY TypeSplit DEF IInv
<1>3. /\ pc' \in {"step", "check"} /\ cursor' \in Tasks
      /\ pc' = "check" => cursor' = 1
      /\ running' = "none" /\ nest' = 0 /\ progress' = progress
  BY <1>1, <1>2, BackToStepControl
<1>4. TypeOK' BY <1>1, <1>3 DEF IInv, TypeOK
<1>5. ThreadInv' BY <1>1, <1>3 DEF IInv, ThreadInv
<1>6. \A t \in Tasks : TaskInv(t)' BY <1>1, <1>3, TasksUnchanged DEF IInv
<1>7. WakeInv'
  <2>1. CASE progress \/ Cancelled
    BY <1>1, <1>3, <2>1 DEF WakeInv, Cancelled
  <2>2. CASE ~progress /\ ~Cancelled
    <3>1. PICK t \in Tasks : t >= cursor /\ Resumable(t) BY <1>1, <2>2 DEF IInv, WakeInv
    <3>2. t > cursor BY <3>1, <1>1, <1>2 DEF CtlType, Tasks
    <3>3. cursor' = cursor + 1 /\ pc' = "step"
      BY <3>1, <3>2, <1>1, <1>2, ParallelAIOsAssumption DEF BackToStep, NextTask, CtlType, Tasks
    <3>4. t >= cursor' BY <3>2, <3>3, <1>2 DEF CtlType, Tasks
    <3>5. Resumable(t)' BY <3>1, <1>1 DEF Resumable
    <3> QED BY <3>3, <3>4, <3>5, <1>3 DEF WakeInv
  <2> QED BY <2>1, <2>2
<1> QED BY <1>4, <1>5, <1>6, <1>7 DEF IInv

LEMMA EnvResumeInv == ASSUME IInv, EnvResume PROVE IInv'
<1>1. /\ pc = "step" /\ running = "none" /\ Resumable(cursor) /\ ConsumeEvent(cursor)
      /\ running' = current[cursor] /\ nest' = 1 /\ progress' = TRUE
      /\ UNCHANGED <<pc, cursor, aborted, current, at, op, xfer,
                     ready, cancel, result, left, taken, out, failed>>
  BY DEF EnvResume, kernel, data
<1>2. TypeOK /\ ThreadInv /\ cursor \in Tasks /\ TaskInv(cursor) BY DEF IInv, TypeOK
<1>3. current[cursor] # "none" /\ current[cursor] \in Roles BY <1>1, <1>2 DEF Resumable, TypeOK
<1>4. TypeOK'
  <2>1. ioDone' \in [Tasks -> BOOLEAN] /\ nonIo' \in [Tasks -> BOOLEAN]
    BY <1>1, <1>2 DEF TypeOK, ConsumeEvent
  <2> QED BY <2>1, <1>1, <1>2, <1>3 DEF TypeOK
<1>5. ThreadInv' BY <1>1, <1>2 DEF ThreadInv
<1>6. ASSUME NEW t \in Tasks, t = cursor PROVE TaskInv(t)'
  <2> USE <1>1, <1>2, <1>3, <1>6 DEF Active, Roles
  <2>1. StackInv(t)' BY DEF TaskInv, StackInv, Done
  <2>2. EventInv(t)'
    BY DEF TaskInv, StackInv, EventInv, AtIo, Done, TypeOK, ConsumeEvent, Resumable
  <2>3. OpInv(t)' BY DEF TaskInv, StackInv, EventInv, OpInv, AtIo, Done, Resumable
  <2>4. DataInv(t)' BY DEF TaskInv, DataInv
  <2>5. NestInv(t)' BY DEF TaskInv, StackInv, NestInv
  <2> QED BY <2>1, <2>2, <2>3, <2>4, <2>5 DEF TaskInv
<1>7. ASSUME NEW t \in Tasks, t # cursor PROVE TaskInv(t)'
  <2>1. /\ TaskInv(t) /\ ~Active(t) /\ ~Active(t)' /\ ioDone'[t] = ioDone[t] /\ nonIo'[t] = nonIo[t]
    BY <1>1, <1>2, <1>7 DEF IInv, Active, ConsumeEvent, TypeOK
  <2> QED BY <2>1, <1>1, <1>7, OtherTask
<1>8. WakeInv' BY <1>1, <1>3 DEF WakeInv, Roles
<1> QED BY <1>4, <1>5, <1>6, <1>7, <1>8 DEF IInv

-----------------------------------------------------------------------------
\* Windows.

LEMMA CompleteInv == ASSUME IInv, NEW u \in Tasks, Complete(u) PROVE IInv'
<1>1. /\ op[u] \in InFlight /\ ioDone' = [ioDone EXCEPT ![u] = TRUE]
      /\ UNCHANGED <<pc, cursor, running, nest, progress, aborted, current, nonIo, at,
                     ready, cancel, result, left, taken, out, failed>>
  BY DEF Complete, thread, data
<1>2. TypeOK /\ ThreadInv /\ WakeInv /\ TaskInv(u) BY DEF IInv
<1>3. PICK n \in 0..BufSize, e \in Ended :
         /\ op' = [op EXCEPT ![u] = e] /\ xfer' = [xfer EXCEPT ![u] = n]
         /\ e = "ok" => IF op[u] = "recv" THEN taken[u] + n <= MaxBytes ELSE n \in 1..left[u]
  BY ParallelAIOsAssumption DEF Complete, Ended
<1>4. TypeOK' BY <1>1, <1>2, <1>3 DEF TypeOK
<1>5. ThreadInv' BY <1>1, <1>2 DEF ThreadInv, Cancelled
<1>6. ASSUME NEW t \in Tasks, t = u PROVE TaskInv(t)'
  <2>0. /\ ioDone'[t] = TRUE /\ op'[t] = e /\ xfer'[t] = n /\ AtIo(t) /\ op[t] \notin Ended /\ ~Active(t)
        /\ (Active(t)' <=> Active(t)) /\ (AtIo(t)' <=> AtIo(t))
    BY <1>1, <1>2, <1>3, <1>6 DEF TypeOK, TaskInv, OpInv, AtIo, Active, InFlight, Ended
  <2>1. StackInv(t)' BY <1>1, <1>2, <1>6, <2>0 DEF TaskInv, StackInv, Done
  <2>2. EventInv(t)' BY <1>1, <1>2, <1>6, <2>0 DEF TaskInv, EventInv
  <2>3. OpInv(t)'
    BY <1>1, <1>2, <1>3, <1>6, <2>0 DEF TaskInv, StackInv, OpInv, AtIo, Done, InFlight, Ended, Roles
  <2>4. DataInv(t)' BY <1>1, <1>2, <1>6 DEF TaskInv, DataInv
  <2>5. NestInv(t)' BY <2>0 DEF NestInv
  <2> QED BY <2>1, <2>2, <2>3, <2>4, <2>5 DEF TaskInv
<1>7. ASSUME NEW t \in Tasks, t # u PROVE TaskInv(t)'
  <2>1. /\ TaskInv(t) /\ op'[t] = op[t] /\ xfer'[t] = xfer[t] /\ ioDone'[t] = ioDone[t]
        /\ (Active(t)' <=> Active(t))
    BY <1>1, <1>2, <1>3, <1>7 DEF IInv, Active, TypeOK
  <2> QED BY <2>1, <1>1, <1>7, OtherTask
<1>8. \A t \in Tasks : Resumable(t) => Resumable(t)'
  BY <1>1, <1>2 DEF Resumable, TypeOK
<1>9. WakeInv' BY <1>1, <1>2, <1>8 DEF WakeInv, Cancelled
<1> QED BY <1>4, <1>5, <1>6, <1>7, <1>9 DEF IInv

LEMMA SignalInv == ASSUME IInv, ConsoleInput \/ Cancel PROVE IInv'
<1>1. /\ UNCHANGED <<pc, cursor, running, nest, progress, aborted, current, ioDone, nonIo, at, op, xfer,
                     result, left, taken, out, failed>>
      /\ ready' \in BOOLEAN /\ cancel' \in BOOLEAN /\ (ready => ready') /\ (cancel => cancel')
  BY DEF IInv, TypeOK, ConsoleInput, Cancel, thread, env, data
<1>2. TypeOK' BY <1>1 DEF IInv, TypeOK
<1>3. ThreadInv' BY <1>1 DEF IInv, ThreadInv, Cancelled
<1>4. \A t \in Tasks : TaskInv(t)' BY <1>1, TasksUnchanged DEF IInv
<1>5. \A t \in Tasks : Resumable(t) => Resumable(t)' BY <1>1 DEF Resumable
<1>6. WakeInv' BY <1>1, <1>5 DEF IInv, WakeInv, Cancelled
<1> QED BY <1>2, <1>3, <1>4, <1>6 DEF IInv

LEMMA StutterInv == ASSUME IInv, UNCHANGED vars PROVE IInv'
<1> USE DEF vars
<1>1. TypeOK' BY DEF IInv, TypeOK
<1>2. ThreadInv' BY DEF IInv, ThreadInv, Cancelled
<1>3. \A t \in Tasks : TaskInv(t)' BY TasksUnchanged DEF IInv
<1>4. WakeInv' BY DEF IInv, WakeInv, Cancelled, Resumable
<1> QED BY <1>1, <1>2, <1>3, <1>4 DEF IInv

-----------------------------------------------------------------------------
\* The invariant.

THEOREM InitInv == Init => IInv
<1> SUFFICES ASSUME Init PROVE IInv OBVIOUS
<1>1. at \in [Tasks -> [Roles -> Points]] BY DEF Init, Points
<1>2. out \in [Tasks -> Seq(1..MaxBytes)] BY DEF Init
<1>3. result \in [Tasks -> Outcomes] BY OutcomeFacts DEF Init
<1>4. TypeOK
  <2>1. 1 \in Tasks /\ 0 \in 0..BufSize /\ 0 \in 0..MaxBytes
    BY ParallelAIOsAssumption DEF Tasks
  <2>2. CtlType BY <1>1, <2>1 DEF Init, CtlType, Roles
  <2>3. DataType BY <1>2, <1>3, <2>1 DEF Init, DataType
  <2> QED BY <2>2, <2>3, TypeSplit
<1>5. ThreadInv BY DEF Init, ThreadInv
<1>6. ASSUME NEW t \in Tasks PROVE TaskInv(t)
  BY <1>6 DEF Init, TaskInv, StackInv, EventInv, OpInv, DataInv, NestInv, Done, AtIo, Active, Roles
<1>7. WakeInv BY DEF Init, WakeInv
<1> QED BY <1>4, <1>5, <1>6, <1>7 DEF IInv

\* No step of the runtime or of Windows breaks the invariant.
THEOREM NextInv == IInv /\ [Next]_vars => IInv'
<1> SUFFICES ASSUME IInv, [Next]_vars PROVE IInv' OBVIOUS
<1>1. CASE ReadStart
  <2>1. CASE Submit("read", "recv") BY <1>1, <2>1, SubmitInv DEF ReadStart
  <2>2. CASE Refused("read", Src[cursor]) BY <1>1, <2>2, RefusedInv DEF ReadStart
  <2> QED BY <1>1, <2>1, <2>2 DEF ReadStart
<1>2. CASE WriteStart
  <2>1. CASE Submit("write", "send") BY <1>2, <2>1, SubmitInv DEF WriteStart
  <2>2. CASE Refused("write", Dst[cursor]) BY <1>2, <2>2, RefusedInv DEF WriteStart
  <2> QED BY <1>2, <2>1, <2>2 DEF WriteStart
<1>3. CASE Coroutine
  BY <1>1, <1>2, <1>3, ReadAwaitConsoleInv, ReadDoneInv, ReadConsoleInv, WriteDoneInv,
     WriteConsoleInv, FullInv, TransferCallsInv, TransferStopInv DEF Coroutine
<1>4. CASE Thread
  BY <1>3, <1>4, CheckInv, WaitAnyInv, EnvSkipInv, EnvResumeInv DEF Thread
<1>5. CASE Kernel BY <1>5, CompleteInv, SignalInv DEF Kernel
<1>6. CASE Returned \/ UNCHANGED vars BY <1>6, StutterInv DEF Returned
<1> QED BY <1>4, <1>5, <1>6 DEF Next

THEOREM Invariance == Spec => []IInv
BY InitInv, NextInv, PTL DEF Spec

-----------------------------------------------------------------------------
\* The safety properties of ParallelAIOs, for every value of the constants.

\* Every variable keeps its type; in particular no count leaves its bounds.
THEOREM TypeCorrect == Spec => []TypeOK
BY Invariance, PTL DEF IInv

\* update_current's assertion never fires, whatever coroutines call each other.
THEOREM NeverAbortsThm == Spec => []NeverAborts
<1>1. IInv => NeverAborts BY DEF IInv, ThreadInv, NeverAborts
<1> QED BY <1>1, Invariance, PTL

\* step() only ever resumes the live leaf of a task's stack.
THEOREM SafeResumeThm == Spec => []SafeResume
<1>1. ASSUME IInv, NEW t \in Tasks, ~Active(t)
      PROVE  /\ current[t] # "none" => at[t][current[t]] \in {"start", "io", "event"}
             /\ \A c \in Roles :
                   /\ at[t][c] \in Roles => at[t][at[t][c]] # "done" /\ Parent(at[t][c]) = c
                   /\ at[t][c] \in {"start", "io", "event"} => c = current[t]
  BY <1>1 DEF IInv, TaskInv, StackInv, Done, Parent, Roles
<1>2. IInv => SafeResume BY <1>1 DEF SafeResume
<1> QED BY <1>2, Invariance, PTL

\* A leaf starts an operation only on a free OVERLAPPED.
THEOREM OneOverlappedThm == Spec => []OneOverlapped
<1>1. ASSUME IInv, NEW c \in {"read", "write"}, In(c, "start") PROVE op[cursor] = "idle"
  BY <1>1 DEF IInv, TypeOK, ThreadInv, TaskInv, StackInv, OpInv, AtIo, Done, In
<1>2. IInv => OneOverlapped BY <1>1 DEF OneOverlapped
<1> QED BY <1>2, Invariance, PTL

\* A leaf that waits for its operation runs again only after it has ended.
THEOREM ResumeAfterCompletionThm == Spec => []ResumeAfterCompletion
<1>1. ASSUME IInv, NEW c \in {"read", "write"}, In(c, "io") PROVE op[cursor] \in Ended
  BY <1>1 DEF IInv, TypeOK, ThreadInv, TaskInv, OpInv, AtIo, Active, In
<1>2. IInv => ResumeAfterCompletion BY <1>1 DEF ResumeAfterCompletion
<1> QED BY <1>2, Invariance, PTL

\* Every return of wait_any is followed by the resumption of some task, or by
\* the end of run(): the scheduler never spins.
THEOREM NoSpuriousPassThm == Spec => []NoSpuriousPass
<1>1. IInv => NoSpuriousPass BY DEF IInv, WakeInv, NoSpuriousPass
<1> QED BY <1>1, Invariance, PTL

\* The destination of a transfer holds a prefix of its source's stream.
THEOREM InOrderThm == Spec => []InOrder
<1>1. IInv => InOrder BY DEF IInv, TaskInv, DataInv, InOrder
<1> QED BY <1>1, Invariance, PTL

\* A transfer that ends without an exception has delivered all it has read.
THEOREM CleanEndThm == Spec => []CleanEndDeliversAll
<1>1. IInv => CleanEndDeliversAll BY DEF IInv, TaskInv, DataInv, CleanEndDeliversAll
<1> QED BY <1>1, Invariance, PTL

\* At most four activations of resume() are ever on the thread's stack.
THEOREM NestBoundedThm == Spec => []NestBounded
<1>1. ASSUME IInv PROVE NestBounded
  <2>1. CASE running = "none" BY <1>1, <2>1 DEF IInv, WakeInv, NestBounded
  <2>2. CASE running # "none"
    <3>1. TypeOK /\ cursor \in Tasks /\ Active(cursor) /\ TaskInv(cursor)
      BY <1>1, <2>2 DEF IInv, TypeOK, Active
    <3> QED BY <3>1 DEF TaskInv, StackInv, NestInv, TypeOK, NestBounded
  <2> QED BY <2>1, <2>2
<1> QED BY <1>1, Invariance, PTL

\* When run() returns without having been cancelled, no operation is in flight
\* that could still write to a destroyed buffer.
THEOREM PendingOnlyIfCancelledThm == Spec => []PendingOnlyIfCancelled
<1>1. ASSUME IInv, pc = "returned", ~Cancelled, NEW t \in Tasks PROVE op[t] \notin InFlight
  <2>1. current[t] = "none" /\ TaskInv(t) BY <1>1 DEF IInv, ThreadInv
  <2>2. op[t] = "idle" BY <2>1 DEF TaskInv, StackInv, OpInv, AtIo, Done, Roles
  <2> QED BY <2>2 DEF InFlight
<1>2. IInv => PendingOnlyIfCancelled BY <1>1 DEF PendingOnlyIfCancelled
<1> QED BY <1>2, Invariance, PTL

-----------------------------------------------------------------------------
\* The scheduler's pass over the tasks goes on, by rank.
\*
\* While task k has its turn, the thread is so many of its own steps, at the
\* most, from the next task: a read that was woken goes through the transfer
\* and the write loop to at most one write, and from there through one read to
\* a suspension. Nothing in the loop goes round twice within one turn.

\* The write just done leaves nothing to write, or ended the stream.
WroteAll(k) == Stopped(result[k]) \/ result[k].n = left[k]

Rank(k) ==
    IF running = "none" THEN 9
    ELSE IF running = "read" THEN (IF at[k]["read"] = "start" THEN 2 ELSE 8)
    ELSE IF running = "write" THEN (IF at[k]["write"] = "start" THEN 5 ELSE 7)
    ELSE IF running = "full" THEN (IF at[k]["full"] = "write" /\ WroteAll(k) THEN 4 ELSE 6)
    ELSE IF at[k]["transfer"] = "read" THEN (IF Stopped(result[k]) THEN 1 ELSE 7)
    ELSE 3

Turn(k) == pc = "step" /\ cursor = k

\* k has its turn, and at most i steps left in it.
Near(k, i) == Turn(k) /\ Rank(k) \in 1..i

\* k has had its turn.
Passed(k) ==
    /\ running = "none"
    /\ IF k < N THEN Turn(k + 1) ELSE pc = "check"

LEMMA TurnFacts ==
    ASSUME IInv, NEW k \in Tasks, Turn(k)
    PROVE  /\ CtlType /\ DataType /\ ThreadInv /\ TaskInv(k) /\ cursor = k
           /\ running # "none" => current[k] = running /\ Active(k)
           /\ running \in Roles \cup {"none"}
           /\ Rank(k) \in 1..9
           /\ left[k] \in Nat /\ result[k] \in Outcomes
<1>1. CtlType /\ DataType /\ ThreadInv /\ TaskInv(k) /\ cursor = k
  BY TypeSplit DEF IInv, Turn
<1>2. running # "none" => current[k] = running /\ Active(k)
  BY <1>1 DEF ThreadInv, Active
<1>3. running \in Roles \cup {"none"}
  BY <1>1 DEF CtlType
<1>4. Rank(k) \in 1..9
  BY DEF Rank
<1>5. left[k] \in Nat /\ result[k] \in Outcomes
  BY <1>1, ParallelAIOsAssumption DEF DataType
<1> QED BY <1>1, <1>2, <1>3, <1>4, <1>5

\* BackToStep ends the turn.
LEMMA TurnEnds ==
    ASSUME NEW k \in Tasks, Turn(k), BackToStep
    PROVE  Passed(k)'
BY ParallelAIOsAssumption DEF Turn, Tasks, BackToStep, NextTask, Passed

\* A leaf returns r: the transfer, or the write loop, is next.
LEMMA LeafRank ==
    ASSUME IInv, NEW k \in Tasks, Turn(k), NEW c \in {"read", "write"}, NEW p \in Points,
           In(c, p), NEW r, Return(c, r), left' = left
    PROVE  /\ Turn(k)'
           /\ c = "read" => Rank(k)' = IF Stopped(r) THEN 1 ELSE 7
           /\ c = "write" => Rank(k)' = IF Stopped(r) \/ r.n = left[k] THEN 4 ELSE 6
<1>1. /\ CtlType /\ DataType /\ TaskInv(k) /\ cursor = k /\ current[k] = c
  BY TurnFacts DEF In
<1>2. /\ running' = Parent(c) /\ cursor' = cursor /\ pc' = pc
      /\ \A x \in Roles : at'[k][x] = IF x = c THEN "done" ELSE at[k][x]
  BY <1>1, ReturnControl DEF In, Moves, Parent, Roles
<1>3. result'[k] = r
  BY <1>1 DEF Return, DataType
<1>4. c = "read" => at[k]["transfer"] = "read" /\ Parent(c) = "transfer"
  BY <1>1 DEF TaskInv, StackInv, Parent
<1>5. c = "write" => at[k]["full"] = "write" /\ Parent(c) = "full"
  BY <1>1 DEF TaskInv, StackInv, Parent
<1>6. "transfer" \in Roles /\ "full" \in Roles
  BY DEF Roles
<1>7. Turn(k)'
  BY <1>2 DEF Turn
<1>8. CASE c = "read"
  BY <1>2, <1>3, <1>4, <1>6, <1>7, <1>8 DEF Rank
<1>9. CASE c = "write"
  BY <1>2, <1>3, <1>5, <1>6, <1>7, <1>9 DEF Rank, WroteAll
<1> QED BY <1>8, <1>9

LEMMA CollectRank ==
    ASSUME IInv, NEW k \in Tasks, Turn(k), ReadDone \/ WriteDone
    PROVE  Turn(k)' /\ Rank(k)' \in 1..7 /\ (running = "read" => Rank(k) = 8)
           /\ (running = "write" => Rank(k) = 7 /\ Rank(k)' \in 1..6)
<1>1. PICK c \in {"read", "write"} : In(c, "io") /\ Collect(c)
  BY DEF ReadDone, WriteDone
<1>2. Return(c, OverlappedResult(cursor)) /\ left' = left
  BY <1>1 DEF Collect
<1>3. "io" \in Points
  BY DEF Points
<1> HIDE DEF OverlappedResult
<1>4. /\ Turn(k)'
      /\ c = "read" => Rank(k)' \in {1, 7}
      /\ c = "write" => Rank(k)' \in {4, 6}
  BY <1>1, <1>2, <1>3, LeafRank
<1>5. running = c /\ at[k][c] = "io"
  BY <1>1 DEF In, Turn
<1> QED BY <1>4, <1>5 DEF Rank

\* Each step of a coroutine brings the end of the turn nearer.
LEMMA LeafNears ==
    ASSUME IInv, NEW k \in Tasks, Turn(k),
           ReadStart \/ ReadAwaitConsole \/ ReadDone \/ ReadConsole
             \/ WriteStart \/ WriteDone \/ WriteConsole
    PROVE  Passed(k)' \/ (Turn(k)' /\ Rank(k)' \in 1..Rank(k) - 1)
<1>0. cursor = k /\ "start" \in Points /\ "event" \in Points
  BY DEF Turn, Points
<1>1. CASE ReadAwaitConsole
  BY <1>1, TurnEnds DEF ReadAwaitConsole, Suspend
<1>2. CASE ReadStart
  <2>1. CASE Submit("read", "recv")
    BY <2>1, TurnEnds DEF Submit, Suspend
  <2>2. CASE Refused("read", Src[cursor])
    <3>1. In("read", "start") /\ Rank(k) = 2
      BY <1>0, <1>2 DEF ReadStart, In, Rank
    <3>2. PICK r \in {PeerReset, Thrown} : Return("read", r)
      BY <2>2 DEF Refused
    <3>3. left' = left /\ Stopped(r)
      BY <2>2, <3>2, OutcomeFacts DEF Refused, data
    <3> QED BY <1>0, <3>1, <3>2, <3>3, LeafRank
  <2> QED BY <1>2, <2>1, <2>2 DEF ReadStart
<1>3. CASE ReadDone
  <2>1. running = "read"
    BY <1>3 DEF ReadDone, In
  <2> QED BY <1>3, <2>1, CollectRank
<1>4. CASE ReadConsole
  <2>1. In("read", "event") /\ Rank(k) = 8 /\ left' = left
    BY <1>0, <1>4 DEF ReadConsole, In, Rank
  <2>2. PICK r : Return("read", r)
    BY <1>4 DEF ReadConsole
  <2>3. Turn(k)' /\ Rank(k)' \in {1, 7}
    BY <1>0, <2>1, <2>2, LeafRank
  <2> QED BY <2>1, <2>3
<1>5. CASE WriteStart
  <2>1. CASE Submit("write", "send")
    BY <2>1, TurnEnds DEF Submit, Suspend
  <2>2. CASE Refused("write", Dst[cursor])
    <3>1. In("write", "start") /\ Rank(k) = 5
      BY <1>0, <1>5 DEF WriteStart, In, Rank
    <3>2. PICK r \in {PeerReset, Thrown} : Return("write", r)
      BY <2>2 DEF Refused
    <3>3. left' = left /\ Stopped(r)
      BY <2>2, <3>2, OutcomeFacts DEF Refused, data
    <3> QED BY <1>0, <3>1, <3>2, <3>3, LeafRank
  <2> QED BY <1>5, <2>1, <2>2 DEF WriteStart
<1>6. CASE WriteDone
  <2>1. running = "write"
    BY <1>6 DEF WriteDone, In
  <2> QED BY <1>6, <2>1, CollectRank
<1>7. CASE WriteConsole
  <2>1. In("write", "start") /\ Rank(k) = 5 /\ left' = left
    BY <1>0, <1>7 DEF WriteConsole, In, Rank
  <2>2. PICK r \in {Got(left[k]), Thrown} : Return("write", r)
    BY <1>0, <1>7 DEF WriteConsole
  <2>3. Stopped(r) \/ r.n = left[k]
    BY <2>2, TurnFacts, OutcomeFacts
  <2> QED BY <1>0, <2>1, <2>2, <2>3, LeafRank
<1> QED BY <1>1, <1>2, <1>3, <1>4, <1>5, <1>6, <1>7

\* The write loop starts a write, or returns to the transfer.
LEMMA FullGoNears ==
    ASSUME IInv, NEW k \in Tasks, Turn(k), NEW p \in {"start", "write"}, In("full", p),
           NEW rest, NEW eof, FullGo(rest, eof)
    PROVE  Turn(k)' /\ Rank(k)' \in {3, 5} /\ (~WriteMore(rest, eof) => Rank(k)' = 3)
<1>1. TaskInv(k) /\ cursor = k /\ current[k] = "full" /\ running = "full" /\ pc = "step"
  BY TurnFacts DEF In
<1>2. at[k]["transfer"] = "full"
  BY <1>1 DEF TaskInv, StackInv
<1>3. CASE WriteMore(rest, eof)
  <2>1. Call("full", "write")
    BY <1>3 DEF FullGo
  <2>2. /\ running' = "write" /\ cursor' = cursor /\ pc' = pc
        /\ at'[k]["write"] = "start"
    BY <1>1, <2>1, CallControl DEF Moves, Roles
  <2> QED BY <1>1, <1>3, <2>2 DEF Rank, Turn
<1>4. CASE ~WriteMore(rest, eof)
  <2>1. PICK r : Return("full", r)
    BY <1>4 DEF FullGo
  <2>2. /\ running' = "transfer" /\ cursor' = cursor /\ pc' = pc
        /\ at'[k]["transfer"] = "full"
    BY <1>1, <1>2, <2>1, ReturnControl DEF Moves, Roles, Parent
  <2> QED BY <1>1, <2>2 DEF Rank, Turn
<1> QED BY <1>3, <1>4

LEMMA FullNears ==
    ASSUME IInv, NEW k \in Tasks, Turn(k), FullStart \/ FullWrote \/ FullThrow
    PROVE  Turn(k)' /\ Rank(k)' \in 1..Rank(k) - 1
<1>0. cursor = k /\ left[k] \in Nat /\ result[k] \in Outcomes
  BY TurnFacts
<1>1. CASE FullStart
  <2>1. Rank(k) = 6
    BY <1>0, <1>1 DEF FullStart, In, Rank
  <2>2. Turn(k)' /\ Rank(k)' \in {3, 5}
    BY <1>1, FullGoNears DEF FullStart
  <2> QED BY <2>1, <2>2
<1>2. CASE FullWrote
  <2>1. In("full", "write") /\ Rank(k) \in {4, 6}
    BY <1>0, <1>2 DEF FullWrote, In, Rank
  <2>2. Turn(k)' /\ Rank(k)' \in {3, 5}
        /\ (~WriteMore(Rest(result[k]), result[k].eof) => Rank(k)' = 3)
    BY <1>0, <1>2, FullGoNears DEF FullWrote
  <2>3. Rank(k) = 4 => WroteAll(k) /\ ~result[k].exc
    BY <1>0, <1>2, <2>1 DEF FullWrote, Rank, In
  <2>4. result[k].n \in Nat
    BY <1>0 DEF Outcomes
  <2>5. WroteAll(k) /\ ~result[k].exc => ~WriteMore(Rest(result[k]), result[k].eof)
    BY <1>0, <2>4 DEF WroteAll, Stopped, WriteMore, Rest
  <2> QED BY <2>1, <2>2, <2>3, <2>5
<1>3. CASE FullThrow
  <2>1. /\ In("full", "write") /\ Return("full", Thrown)
        /\ Rank(k) = 4
    BY <1>0, <1>3 DEF FullThrow, In, Rank, WroteAll, Stopped
  <2>2. TaskInv(k) /\ current[k] = "full" /\ running = "full" /\ pc = "step"
    BY <2>1, TurnFacts DEF In
  <2>3. at[k]["transfer"] = "full"
    BY <2>2 DEF TaskInv, StackInv
  <2>4. /\ running' = "transfer" /\ cursor' = cursor /\ pc' = pc
        /\ at'[k]["transfer"] = "full"
    BY <1>0, <2>1, <2>2, <2>3, ReturnControl DEF Moves, Roles, Parent
  <2> QED BY <1>0, <2>1, <2>4 DEF Rank, Turn
<1> QED BY <1>1, <1>2, <1>3

LEMMA TransferNears ==
    ASSUME IInv, NEW k \in Tasks, Turn(k),
           TransferStart \/ TransferRead \/ TransferWrote \/ TransferStop
    PROVE  Passed(k)' \/ (Turn(k)' /\ Rank(k)' \in 1..Rank(k) - 1)
<1>0. cursor = k /\ TaskInv(k)
  BY TurnFacts
<1>1. CASE TransferStart \/ TransferWrote
  <2>1. running = "transfer" /\ Call("transfer", "read") /\ pc = "step" /\ Rank(k) = 3
    BY <1>0, <1>1 DEF TransferStart, TransferWrote, In, Rank
  <2>2. /\ running' = "read" /\ cursor' = cursor /\ pc' = pc
        /\ at'[k]["read"] = "start"
    BY <1>0, <2>1, CallControl DEF Moves, Roles
  <2> QED BY <1>0, <2>1, <2>2 DEF Rank, Turn
<1>2. CASE TransferRead
  <2>1. running = "transfer" /\ Call("transfer", "full") /\ pc = "step" /\ Rank(k) = 7
    BY <1>0, <1>2 DEF TransferRead, In, Rank, Stopped
  <2>2. /\ running' = "full" /\ cursor' = cursor /\ pc' = pc
        /\ at'[k]["full"] = "start"
    BY <1>0, <2>1, CallControl DEF Moves, Roles
  <2> QED BY <1>0, <2>1, <2>2 DEF Rank, Turn
<1>3. CASE TransferStop
  BY <1>3, TurnEnds DEF TransferStop, TransferEnd
<1> QED BY <1>1, <1>2, <1>3

\* A resumed task is at the start of its transfer or at one of the two awaits.
LEMMA ResumeNears ==
    ASSUME IInv, NEW k \in Tasks, Turn(k), EnvResume
    PROVE  Turn(k)' /\ running' = current[k] /\ running' # "none" /\ Rank(k)' \in 1..8 /\ Rank(k) = 9
<1>1. cursor = k /\ TaskInv(k) /\ running = "none" /\ running' = current[k] /\ at' = at
      /\ pc' = pc /\ cursor' = cursor
  BY TurnFacts DEF EnvResume
<1>2. ~Active(k) /\ current[k] # "none"
  BY <1>1 DEF Active, EnvResume, Resumable
<1>3. /\ current[k] \in {"transfer", "read", "write"}
      /\ current[k] = "transfer" => at[k]["transfer"] = "start"
      /\ current[k] = "read" => at[k]["read"] # "start"
      /\ current[k] = "write" => at[k]["write"] # "start"
  BY <1>1, <1>2 DEF TaskInv, StackInv
<1> QED BY <1>1, <1>2, <1>3 DEF Turn, Rank

\* Whatever the thread does in k's turn ends it or brings its end nearer.
LEMMA ThreadNears ==
    ASSUME IInv, NEW k \in Tasks, Turn(k), Thread
    PROVE  Passed(k)' \/ (Turn(k)' /\ Rank(k)' \in 1..Rank(k) - 1)
<1>1. CASE EnvSkip
  BY <1>1, TurnEnds DEF EnvSkip
<1>2. CASE EnvResume
  BY <1>2, ResumeNears
<1>3. CASE Coroutine
  <2>1. CASE FullStart \/ FullWrote \/ FullThrow
    BY <2>1, FullNears
  <2>2. CASE TransferStart \/ TransferRead \/ TransferWrote \/ TransferStop
    BY <2>2, TransferNears
  <2>3. CASE ReadStart \/ ReadAwaitConsole \/ ReadDone \/ ReadConsole
               \/ WriteStart \/ WriteDone \/ WriteConsole
    BY <2>3, LeafNears
  <2> QED BY <1>3, <2>1, <2>2, <2>3 DEF Coroutine
<1>4. ~Check /\ ~WaitAny
  BY DEF Turn, Check, WaitAny
<1> QED BY <1>1, <1>2, <1>3, <1>4 DEF Thread

\* Windows leaves the thread and its coroutines alone.
LEMMA KernelLeavesThread ==
    ASSUME Kernel \/ Returned \/ UNCHANGED vars
    PROVE  UNCHANGED <<pc, cursor, running, current, at, result, left>>
BY DEF Kernel, Complete, ConsoleInput, Cancel, Returned, vars, thread, env, data

LEMMA NearKept ==
    ASSUME IInv, NEW k \in Tasks, NEW i \in 1..9, Near(k, i), [Next]_vars
    PROVE  \/ Near(k, i)' /\ (Thread => Near(k, i - 1)')
           \/ Passed(k)'
<1>1. Turn(k) /\ Rank(k) \in 1..i
  BY DEF Near
<1>2. CASE Thread
  <2>1. Passed(k)' \/ (Turn(k)' /\ Rank(k)' \in 1..Rank(k) - 1)
    BY <1>1, <1>2, ThreadNears
  <2>2. Rank(k)' \in 1..Rank(k) - 1 => Rank(k)' \in 1..i /\ Rank(k)' \in 1..i - 1
    BY <1>1
  <2> QED BY <2>1, <2>2 DEF Near
<1>3. CASE ~Thread
  BY <1>1, <1>3, KernelLeavesThread DEF Next, Near, Turn, Rank, WroteAll
<1> QED BY <1>2, <1>3

-----------------------------------------------------------------------------
\* Liveness, from the thread's fairness. That a step of Thread can be taken is
\* the hypothesis []RunsOn, which the provers do not see into.

\* The turn of task k comes to its end.
TaskPasses(k) == Turn(k) ~> Passed(k)

LEMMA NearsEnabled ==
    ASSUME NEW k, NEW i
    PROVE  RunsOn /\ Near(k, i) => ENABLED <<Thread>>_vars
BY DEF RunsOn, Near, Turn

\* One step of the way.
Nears(k, i, j) == Near(k, i) ~> Near(k, j) \/ Passed(k)

LEMMA OneNearer ==
    ASSUME NEW k \in Tasks, NEW i \in 1..9, NEW j \in Nat, i = j + 1
    PROVE  FairSpec /\ []RunsOn => Nears(k, i, j)
<1>0. j = i - 1
  OBVIOUS
<1>1. IInv /\ [Next]_vars /\ Near(k, i) => Near(k, i)' \/ (Near(k, j) \/ Passed(k))'
  BY <1>0, NearKept
<1>2. IInv /\ Near(k, i) /\ <<Thread>>_vars => (Near(k, j) \/ Passed(k))'
  BY <1>0, NearKept DEF Next
<1>3. RunsOn /\ Near(k, i) => ENABLED <<Thread>>_vars
  BY NearsEnabled
<1> QED BY <1>1, <1>2, <1>3, Invariance, PTL DEF FairSpec, Spec, ThreadRuns, Nears

\* The thread never gets stuck in, or circles within, one task: whatever the
\* chunks it reads and the writes that end early, run() goes on to the next
\* env, and after the last one to its loop condition (Concurrency.cpp:59-63).
THEOREM PassGoesOn ==
    FairSpec /\ []RunsOn => \A k \in Tasks : TaskPasses(k)
<1> SUFFICES ASSUME NEW k \in Tasks PROVE FairSpec /\ []RunsOn => TaskPasses(k)
  OBVIOUS
<1>1. FairSpec /\ []RunsOn =>
        /\ Nears(k, 9, 8) /\ Nears(k, 8, 7) /\ Nears(k, 7, 6) /\ Nears(k, 6, 5) /\ Nears(k, 5, 4)
        /\ Nears(k, 4, 3) /\ Nears(k, 3, 2) /\ Nears(k, 2, 1) /\ Nears(k, 1, 0)
  BY OneNearer
<1>2. IInv /\ Turn(k) => Near(k, 9)
  BY TurnFacts DEF Near
<1>3. ~Near(k, 0)
  BY DEF Near
<1>4. FairSpec => []IInv
  BY Invariance, PTL DEF FairSpec
<1> QED BY <1>1, <1>2, <1>3, <1>4, PTL DEF TaskPasses, Nears

\* What the thread does outside step(), and what it never changes.
LEMMA OnlyAtCheck == ASSUME pc = "check", Thread PROVE Check
BY DEF Thread, Check, WaitAny, EnvSkip, EnvResume, Coroutine, In, ReadStart, ReadAwaitConsole,
   ReadDone, ReadConsole, WriteStart, WriteDone, WriteConsole, FullStart, FullWrote, FullThrow,
   TransferStart, TransferRead, TransferWrote, TransferStop

LEMMA OnlyAtWait == ASSUME pc = "wait", Thread PROVE WaitAny
BY DEF Thread, Check, WaitAny, EnvSkip, EnvResume, Coroutine, In, ReadStart, ReadAwaitConsole,
   ReadDone, ReadConsole, WriteStart, WriteDone, WriteConsole, FullStart, FullWrote, FullThrow,
   TransferStart, TransferRead, TransferWrote, TransferStop

LEMMA ThreadLeavesCancel == ASSUME Thread PROVE cancel' = cancel
<1>1. CASE ReadStart \/ WriteStart
  BY <1>1 DEF ReadStart, WriteStart, Submit, Refused, kernel
<1>2. CASE ReadDone \/ WriteDone
  BY <1>2 DEF ReadDone, WriteDone, Collect
<1>3. CASE ReadAwaitConsole \/ ReadConsole \/ WriteConsole
  BY <1>3 DEF ReadAwaitConsole, ReadConsole, WriteConsole, kernel
<1>4. CASE FullStart \/ FullWrote \/ FullThrow
  BY <1>4 DEF FullStart, FullWrote, FullThrow, FullGo, kernel
<1>5. CASE TransferStart \/ TransferRead \/ TransferWrote \/ TransferStop
  BY <1>5 DEF TransferStart, TransferRead, TransferWrote, TransferStop, kernel
<1>6. CASE Check \/ WaitAny \/ EnvSkip \/ EnvResume
  BY <1>6 DEF Check, WaitAny, EnvSkip, EnvResume, kernel
<1> QED BY <1>1, <1>2, <1>3, <1>4, <1>5, <1>6 DEF Thread, Coroutine

\* Once the handle given to until() is signaled, run() comes to its end. Both
\* uses of ParallelAIOs, in the client and in a session of the server, have two
\* tasks (RemoteCMD.cpp:91, 136): the turns of two tasks make up a pass.
THEOREM CancelReturnsThm == N = 2 => (FairSpec /\ []RunsOn => CancelReturns)
<1> SUFFICES ASSUME N = 2 PROVE FairSpec /\ []RunsOn => CancelReturns
  OBVIOUS
<1>1. FairSpec /\ []RunsOn => TaskPasses(1) /\ TaskPasses(2)
  BY PassGoesOn DEF Tasks
<1>2. /\ Passed(1) => Turn(2)
      /\ Passed(2) => pc = "check"
  BY DEF Passed
<1>3. IInv => \/ pc = "check" \/ pc = "wait" \/ pc = "returned" \/ Turn(1) \/ Turn(2)
  BY DEF IInv, TypeOK, Turn, Tasks
<1>4. /\ Cancelled /\ [Next]_vars => Cancelled'
      /\ IInv /\ pc = "wait" /\ [Next]_vars => (pc = "wait")' \/ Turn(1)'
      /\ IInv /\ pc = "wait" /\ <<Thread>>_vars => Turn(1)'
      /\ Cancelled /\ pc = "check" /\ [Next]_vars => (pc = "check")' \/ (pc = "returned")'
      /\ Cancelled /\ pc = "check" /\ <<Thread>>_vars => (pc = "returned")'
  <2>1. ASSUME Cancelled, [Next]_vars PROVE Cancelled'
    <3>1. CASE Thread
      BY <2>1, <3>1, ThreadLeavesCancel DEF Cancelled
    <3>2. CASE ~Thread
      BY <2>1, <3>2
      DEF Cancelled, Next, Kernel, Complete, ConsoleInput, Cancel, Returned, vars
    <3> QED BY <3>1, <3>2
  <2>2. ASSUME IInv, pc = "wait", [Next]_vars
        PROVE  /\ pc' = "wait" \/ Turn(1)'
               /\ Thread => Turn(1)'
    <3>1. cursor = 1
      BY <2>2 DEF IInv, ThreadInv
    <3>2. CASE Thread
      BY <2>2, <3>1, <3>2, OnlyAtWait DEF WaitAny, Turn
    <3>3. CASE ~Thread
      BY <2>2, <3>3, KernelLeavesThread DEF Next
    <3> QED BY <3>2, <3>3
  <2>3. ASSUME Cancelled, pc = "check", [Next]_vars
        PROVE  /\ pc' = "check" \/ pc' = "returned"
               /\ Thread => pc' = "returned"
    <3>1. CASE Thread
      BY <2>3, <3>1, OnlyAtCheck DEF Check, RunDone
    <3>2. CASE ~Thread
      BY <2>3, <3>2, KernelLeavesThread DEF Next
    <3> QED BY <3>1, <3>2
  <2> QED BY <2>1, <2>2, <2>3 DEF Next
<1>5. /\ RunsOn /\ pc = "check" => ENABLED <<Thread>>_vars
      /\ RunsOn /\ Cancelled /\ pc = "wait" => ENABLED <<Thread>>_vars
  BY DEF RunsOn
<1> QED
  BY <1>1, <1>2, <1>3, <1>4, <1>5, Invariance, PTL
  DEF FairSpec, Spec, ThreadRuns, TaskPasses, CancelReturns

\* The operation of t has ended and its result waits to be taken.
Due(t) == op[t] \in Ended

\* In t's turn: step() finds its event signaled and resumes the leaf.
LEMMA DueResumed ==
    ASSUME IInv, NEW t \in Tasks, Turn(t), running = "none", Due(t), Thread
    PROVE  Turn(t)' /\ running' # "none" /\ Due(t)'
<1>1. /\ TaskInv(t) /\ cursor = t /\ ~Active(t)
  BY TurnFacts DEF Active
<1>2. AtIo(t) /\ op[t] \in Ended
  BY <1>1 DEF TaskInv, OpInv, Due, Ended
<1>3. Resumable(t)
  <2>1. ioDone[t]
    BY <1>1, <1>2 DEF TaskInv, EventInv
  <2>2. current[t] \in {"read", "write"} /\ at[t][current[t]] = "io"
    BY <1>1, <1>2 DEF TaskInv, StackInv, Done, AtIo, Roles
  <2> QED BY <2>1, <2>2 DEF Resumable
<1>4. EnvResume
  BY <1>1, <1>3 DEF Turn, Thread, Check, WaitAny, EnvSkip, Coroutine, In, ReadStart,
     ReadAwaitConsole, ReadDone, ReadConsole, WriteStart, WriteDone, WriteConsole, FullStart,
     FullWrote, FullThrow, TransferStart, TransferRead, TransferWrote, TransferStop
<1> QED BY <1>4, ResumeNears DEF EnvResume, kernel, Due

\* The leaf takes the result.
LEMMA DueTaken ==
    ASSUME IInv, NEW t \in Tasks, Turn(t), running # "none", Due(t), Thread
    PROVE  ~Due(t)'
<1>1. CtlType /\ DataType /\ TaskInv(t) /\ cursor = t /\ current[t] = running /\ Active(t)
  BY TurnFacts
<1>2. AtIo(t) /\ op[t] \in Ended
  BY <1>1 DEF TaskInv, OpInv, Due, Ended
<1>3. running \in {"read", "write"} /\ at[t][running] = "io"
  BY <1>1, <1>2 DEF TaskInv, StackInv, Done, AtIo
<1>4. ReadDone \/ WriteDone
  BY <1>1, <1>3 DEF Turn, Thread, Check, WaitAny, EnvSkip, EnvResume, Coroutine, In, ReadStart,
     ReadAwaitConsole, ReadConsole, WriteStart, WriteConsole, FullStart, FullWrote, FullThrow,
     TransferStart, TransferRead, TransferWrote, TransferStop
<1>5. op'[t] = "idle"
  BY <1>1, <1>2, <1>4, CollectFacts DEF ReadDone, WriteDone, DataType
<1> QED BY <1>5 DEF Due, Ended

\* The thread only ever leaves the loop's condition and the wait for the first
\* turn of a pass.
LEMMA LoopSteps ==
    ASSUME IInv, [Next]_vars
    PROVE  /\ pc = "check" => \/ pc' = "check" /\ ~Thread
                              \/ pc' = "wait" \/ pc' = "returned"
           /\ pc = "wait" => (pc' = "wait" /\ ~Thread) \/ Turn(1)'
<1>1. CASE Thread
  <2>1. pc = "wait" => cursor = 1
    BY DEF IInv, ThreadInv
  <2> QED BY <1>1, <2>1, OnlyAtCheck, OnlyAtWait DEF Check, WaitAny, Turn
<1>2. CASE ~Thread
  BY <1>2, KernelLeavesThread DEF Next
<1> QED BY <1>1, <1>2

\* Windows does not take an ended operation back.
LEMMA EndedStays ==
    ASSUME IInv, NEW t \in Tasks, Due(t), Kernel \/ Returned \/ UNCHANGED vars
    PROVE  Due(t)'
<1>1. DataType
  BY TypeSplit DEF IInv
<1>2. ASSUME NEW u \in Tasks, Complete(u) PROVE Due(t)'
  BY <1>1, <1>2 DEF Complete, Due, InFlight, Ended, DataType
<1>3. CASE ~(\E u \in Tasks : Complete(u))
  BY <1>3 DEF Kernel, ConsoleInput, Cancel, Returned, vars, Due
<1> QED BY <1>2, <1>3

\* The result of an operation that ended is taken in its task's next turn, so
\* the OVERLAPPED is free again, unless run() returns first.
THEOREM CompletionCollectedThm == N = 2 => (FairSpec /\ []RunsOn => CompletionCollected)
<1> SUFFICES ASSUME N = 2, NEW t \in Tasks
             PROVE  FairSpec /\ []RunsOn => (op[t] \in Ended ~> op[t] \notin Ended \/ pc = "returned")
  BY DEF CompletionCollected
<1> DEFINE Idle == Turn(t) /\ running = "none" /\ Due(t)
           Woken == Turn(t) /\ running # "none" /\ Due(t)
           Taken == op[t] \notin Ended \/ pc = "returned"
<1>1. FairSpec /\ []RunsOn => TaskPasses(1) /\ TaskPasses(2)
  BY PassGoesOn DEF Tasks
<1>2. /\ Passed(1) => Turn(2)
      /\ Passed(2) => pc = "check"
      /\ IInv => pc = "check" \/ pc = "wait" \/ pc = "returned" \/ Turn(1) \/ Turn(2)
  BY DEF Passed, IInv, TypeOK, Turn, Tasks
<1>3. /\ IInv /\ pc = "check" /\ [Next]_vars => (pc = "check")' \/ (pc = "wait")' \/ (pc = "returned")'
      /\ IInv /\ pc = "check" /\ <<Thread>>_vars => (pc = "wait")' \/ (pc = "returned")'
      /\ IInv /\ pc = "wait" /\ [Next]_vars => (pc = "wait")' \/ Turn(1)'
      /\ IInv /\ pc = "wait" /\ <<Thread>>_vars => Turn(1)'
  BY LoopSteps DEF Next
<1>4. /\ IInv /\ Idle /\ [Next]_vars => Idle' \/ Woken'
      /\ IInv /\ Idle /\ <<Thread>>_vars => Woken'
      /\ IInv /\ Woken /\ [Next]_vars => Woken' \/ Taken'
      /\ IInv /\ Woken /\ <<Thread>>_vars => Taken'
  <2>1. ASSUME IInv, Idle, [Next]_vars PROVE (Idle' /\ ~Thread) \/ Woken'
    <3>1. CASE Thread
      BY <2>1, <3>1, DueResumed
    <3>2. CASE ~Thread
      BY <2>1, <3>2, KernelLeavesThread, EndedStays DEF Next, Turn
    <3> QED BY <3>1, <3>2
  <2>2. ASSUME IInv, Woken, [Next]_vars PROVE (Woken' /\ ~Thread) \/ ~Due(t)'
    <3>1. CASE Thread
      BY <2>2, <3>1, DueTaken
    <3>2. CASE ~Thread
      BY <2>2, <3>2, KernelLeavesThread, EndedStays DEF Next, Turn
    <3> QED BY <3>1, <3>2
  <2> QED BY <2>1, <2>2 DEF Next, Due
<1>5. /\ RunsOn /\ pc = "check" => ENABLED <<Thread>>_vars
      /\ RunsOn /\ Due(t) /\ pc = "wait" => ENABLED <<Thread>>_vars
      /\ RunsOn /\ Turn(t) => ENABLED <<Thread>>_vars
  BY DEF RunsOn, Turn, Due
<1>6. /\ Turn(t) /\ Due(t) => Idle \/ Woken
      /\ Idle \/ Woken => Turn(t)
      /\ op[t] \in Ended <=> Due(t)
      /\ ~Due(t) \/ pc = "returned" <=> Taken
  BY DEF Due
<1> HIDE DEF Idle, Woken, Taken
<1>7. FairSpec /\ []RunsOn => (Turn(t) /\ Due(t) ~> Taken)
  BY <1>4, <1>5, <1>6, Invariance, PTL DEF FairSpec, Spec, ThreadRuns
<1>8. ASSUME t = 1 PROVE FairSpec /\ []RunsOn => (Due(t) ~> Taken)
  <2>1. Turn(1) => Turn(t)
    BY <1>8
  <2> QED
    BY <1>1, <1>2, <1>3, <1>5, <1>6, <1>7, <2>1, Invariance, PTL
    DEF FairSpec, Spec, ThreadRuns, TaskPasses
<1>9. ASSUME t = 2 PROVE FairSpec /\ []RunsOn => (Due(t) ~> Taken)
  <2>1. Turn(2) => Turn(t)
    BY <1>9
  <2> QED
    BY <1>1, <1>2, <1>3, <1>5, <1>6, <1>7, <2>1, Invariance, PTL
    DEF FairSpec, Spec, ThreadRuns, TaskPasses
<1>10. FairSpec /\ []RunsOn => (Due(t) ~> Taken)
  BY <1>8, <1>9 DEF Tasks
<1> QED BY <1>10, PTL DEF Due, Taken

-----------------------------------------------------------------------------
\* run() blocks in wait_any only while it has a task to wait for, and every
\* task that is not finished has something to be woken by: an event that is
\* signaled, an operation in flight that will signal it, or the console's
\* queue. No task is stranded, and the loop never waits for nobody.
NobodyStranded ==
    pc = "wait" =>
        /\ \E t \in Tasks : current[t] # "none"
        /\ \A t \in Tasks : current[t] # "none" => EventDone(t) \/ op[t] \in InFlight \/ nonIo[t]

LEMMA UnfinishedTask ==
    ASSUME IInv, pc = "wait", NEW t \in Tasks, current[t] # "none"
    PROVE  EventDone(t) \/ op[t] \in InFlight \/ nonIo[t]
<1>1. running = "none" /\ ~Active(t) /\ TaskInv(t)
  BY DEF IInv, ThreadInv, Active
<1>2. CASE current[t] = "transfer"
  BY <1>1, <1>2 DEF TaskInv, EventInv, EventDone
<1>3. CASE current[t] = "read"
  <2>1. at[t]["read"] = "io" \/ at[t]["read"] = "event"
    BY <1>1, <1>3 DEF TaskInv, StackInv
  <2> QED BY <1>1, <2>1 DEF TaskInv, EventInv, OpInv, AtIo, EventDone, InFlight
<1>4. CASE current[t] = "write"
  <2>1. at[t]["write"] = "io"
    BY <1>1, <1>4 DEF TaskInv, StackInv
  <2> QED BY <1>1, <2>1 DEF TaskInv, EventInv, OpInv, AtIo, EventDone, InFlight
<1> QED BY <1>1, <1>2, <1>3, <1>4 DEF TaskInv, StackInv

LEMMA TurnStays == ASSUME IInv, [Next]_vars, Turn(cursor) PROVE pc' # "wait"
<1>1. cursor \in Tasks
  BY DEF IInv, TypeOK
<1>2. CASE Thread
  BY <1>1, <1>2, ThreadNears DEF Turn, Passed
<1>3. CASE ~Thread
  BY <1>3, KernelLeavesThread DEF Next, Turn
<1> QED BY <1>2, <1>3

LEMMA ReturnedStays == ASSUME [Next]_vars, pc = "returned" PROVE pc' = "returned"
<1>1. ~Thread
  BY DEF Thread, Check, WaitAny, EnvSkip, EnvResume, Coroutine, In, ReadStart, ReadAwaitConsole,
     ReadDone, ReadConsole, WriteStart, WriteDone, WriteConsole, FullStart, FullWrote, FullThrow,
     TransferStart, TransferRead, TransferWrote, TransferStop
<1> QED BY <1>1, KernelLeavesThread DEF Next

\* The loop condition of run() lets it wait only for a task.
THEOREM NobodyStrandedThm == Spec => []NobodyStranded
<1> DEFINE Inv == pc = "wait" => \E t \in Tasks : current[t] # "none"
<1>1. Init => Inv
  BY DEF Init
<1>2. IInv /\ Inv /\ [Next]_vars => Inv'
  <2> SUFFICES ASSUME IInv, Inv, [Next]_vars PROVE Inv' OBVIOUS
  <2>1. CASE pc = "check"
    <3>1. CASE Thread
      BY <2>1, <3>1, OnlyAtCheck DEF Check, RunDone, env
    <3> QED BY <2>1, <3>1, LoopSteps, KernelLeavesThread DEF Next
  <2>2. CASE pc = "wait"
    BY <2>2, LoopSteps, KernelLeavesThread DEF Next, Turn
  <2>3. CASE Turn(cursor)
    BY <2>3, TurnStays
  <2>4. CASE pc = "returned"
    BY <2>4, ReturnedStays
  <2> QED BY <2>1, <2>2, <2>3, <2>4 DEF IInv, TypeOK, Turn
<1>3. IInv /\ Inv => NobodyStranded
  BY UnfinishedTask DEF NobodyStranded
<1> QED BY <1>1, <1>2, <1>3, Invariance, PTL DEF Spec

-----------------------------------------------------------------------------
\* The points at which a coroutine of a task can have the thread: for each of
\* them there is an action, whatever the calls that it makes return.
Handled(c, p) ==
    \/ c = "transfer" /\ p \in {"start", "read", "full"}
    \/ c = "read" /\ p \in {"start", "io", "event"}
    \/ c = "full" /\ p \in {"start", "write"}
    \/ c = "write" /\ p \in {"start", "io"}

\* The guards of RunsOn: an operation of any task that ended, or a key for one
\* that waits for keys, is in the wait set of wait_any, and what step() has
\* resumed is at a point from which it goes on. No completion is left unseen
\* because its event was reset, or is not the one that the task put into the
\* wait set (Concurrency.cpp:37-49, 59-63).
NothingHoldsUp ==
    /\ pc = "wait" /\ (\E t \in Tasks : op[t] \in Ended \/ (nonIo[t] /\ ready))
           => \E t \in Tasks : EventDone(t)
    /\ pc = "step" /\ running # "none" => ~aborted /\ Handled(running, at[cursor][running])

LEMMA EndedIsSeen ==
    ASSUME IInv, pc = "wait", NEW t \in Tasks, op[t] \in Ended
    PROVE  EventDone(t)
<1>1. ~Active(t) /\ TaskInv(t)
  BY DEF IInv, ThreadInv, Active
<1>2. AtIo(t)
  BY <1>1 DEF TaskInv, OpInv, Ended
<1>3. ioDone[t]
  BY <1>1, <1>2 DEF TaskInv, EventInv
<1>4. at[t]["read"] # "event"
  BY <1>1, <1>2 DEF TaskInv, StackInv, AtIo, Done, Roles
<1>5. ~nonIo[t]
  BY <1>1, <1>4 DEF TaskInv, EventInv
<1> QED BY <1>3, <1>5 DEF EventDone

\* Nothing that has happened leaves the thread blocked, for any number of tasks:
\* what remains of RunsOn is that a step whose guard holds is enabled.
THEOREM NothingHoldsUpThm == Spec => []NothingHoldsUp
<1>1. ASSUME IInv, pc = "wait", NEW t \in Tasks, op[t] \in Ended \/ (nonIo[t] /\ ready)
      PROVE  EventDone(t)
  BY <1>1, EndedIsSeen DEF EventDone
<1>2. ASSUME IInv, pc = "step", running # "none"
      PROVE  ~aborted /\ Handled(running, at[cursor][running])
  <2>1. cursor \in Tasks /\ ~aborted /\ current[cursor] = running /\ StackInv(cursor)
    BY <1>2 DEF IInv, TypeOK, ThreadInv, TaskInv
  <2> QED BY <1>2, <2>1 DEF StackInv, Handled
<1>3. IInv => NothingHoldsUp
  BY <1>1, <1>2 DEF NothingHoldsUp
<1> QED BY <1>3, Invariance, PTL

=============================================================================
