---------------------------- MODULE SessionProofs -----------------------------
(***************************************************************************)
(* Proofs about Session, for any buffers, any connection and any pipes:    *)
(* bytes flow one way along the four transfers, and each stage holds no    *)
(* more than its buffer, so that what can be lost at the end of cmd.exe is *)
(* what the last stages hold. While both processes run no ring of full     *)
(* buffers forms; once one of them or the connection is gone, what is left *)
(* unravels, in as many steps as there are bytes.                          *)
(***************************************************************************)
EXTENDS Session, TLAPS

\* Each stage has given on at most what it was given, and holds back at most a
\* buffer; the pipe behind cmd.exe at most a pipe.
FlowInv ==
    /\ \A t \in Transfers :
          Len(put[t]) <= got[t] /\ got[t] <= Len(put[t]) + BufSize /\ got[t] <= Given(t)
    /\ read <= Len(put["input"])
    /\ written <= got["output"] + PipeSize

\* The screen's transfer was closed by the end of the session: it has shown
\* what was sent, unless the connection was reset.
ClosedInv ==
    status["screen"] = "closed" =>
        /\ server = "over" \/ broken
        /\ Reset("screen") \/ Len(put["screen"]) = Len(put["output"])

TypeInv ==
    /\ got \in [Transfers -> Nat]
    /\ put \in [Transfers -> Seq(Nat)]
    /\ status \in [Transfers -> {"open", "closed", "failed"}]
    /\ typed \in 0..MaxKeys
    /\ read \in Nat /\ owed \in 0..MaxAnswer /\ written \in Nat
    /\ {cmd, client, server} \subseteq {"running", "exited", "over"}
    /\ broken \in BOOLEAN

IInv == TypeInv /\ FlowInv /\ ClosedInv

-----------------------------------------------------------------------------
LEMMA TransferNames ==
    /\ Transfers = {"keys", "screen", "input", "output"}
    /\ ClientTransfers = {"keys", "screen"} /\ ServerTransfers = {"input", "output"}
  BY DEF Transfers, ClientTransfers, ServerTransfers

\* What was typed bounds what cmd.exe has read.
LEMMA Typed == IInv => TypeOK
<1> SUFFICES ASSUME IInv PROVE read <= typed
  BY DEF IInv, TypeInv, TypeOK
<1>1. read <= Len(put["input"]) /\ Len(put["input"]) <= got["input"] /\ got["input"] <= Len(put["keys"])
      /\ Len(put["keys"]) <= got["keys"] /\ got["keys"] <= typed
  BY TransferNames DEF IInv, FlowInv, Given
<1>2. \A t \in Transfers : Len(put[t]) \in Nat /\ got[t] \in Nat
  BY DEF IInv, TypeInv
<1>3. QED
  BY <1>1, <1>2, TransferNames DEF IInv, TypeInv

LEMMA TwoStages ==
    ASSUME NEW w \in Nat, NEW g \in Nat, NEW l \in Nat, NEW p \in Nat, NEW b \in Nat,
           g <= l + b, w <= g + p
    PROVE  w - l <= p + b
  OBVIOUS

\* The user who sees the connection end in order misses what the stages held.
LEMMA Bounded == IInv => LossBounded
<1> SUFFICES ASSUME IInv, status["screen"] = "closed", ~Reset("screen")
             PROVE  written - Len(put["screen"]) <= PipeSize + BufSize
  BY DEF LossBounded
<1>1. Len(put["screen"]) = Len(put["output"])
  BY DEF IInv, ClosedInv
<1>2. got["output"] <= Len(put["output"]) + BufSize /\ written <= got["output"] + PipeSize
  BY TransferNames DEF IInv, FlowInv
<1>3. Len(put["output"]) \in Nat /\ got["output"] \in Nat /\ written \in Nat
  BY TransferNames DEF IInv, TypeInv
<1>4. PipeSize \in Nat /\ BufSize \in Nat
  BY SessionAssumption
<1>5. written - Len(put["output"]) <= PipeSize + BufSize
  BY <1>2, <1>3, <1>4, TwoStages
<1>6. QED
  BY <1>1, <1>5

LEMMA InitInv == Init => IInv
<1> SUFFICES ASSUME Init PROVE IInv
  OBVIOUS
<1>1. TypeInv
  <2>1. broken \in BOOLEAN
    BY Zenon DEF Init
  <2>2. QED
    BY <2>1, SessionAssumption DEF Init, R!Init, TypeInv
<1>2. FlowInv
  BY SessionAssumption, TransferNames DEF Init, R!Init, FlowInv, Given
<1>3. ClosedInv
  BY TransferNames DEF Init, R!Init, ClosedInv
<1>4. QED
  BY <1>1, <1>2, <1>3 DEF IInv

\* A chunk of n bytes makes a stream n bytes longer.
LEMMA ChunkType ==
    ASSUME NEW from \in Nat, NEW n \in Nat
    PROVE  R!Chunk(from, n) \in Seq(Nat) /\ Len(R!Chunk(from, n)) = n
  BY DEF R!Chunk

LEMMA Concatenation ==
    ASSUME NEW s \in Seq(Nat), NEW u \in Seq(Nat)
    PROVE  s \o u \in Seq(Nat) /\ Len(s \o u) = Len(s) + Len(u)
  OBVIOUS

LEMMA TakeStep ==
    ASSUME IInv, NEW t \in Transfers, Take(t)
    PROVE  IInv'
<1>1. PICK n \in 1..BufSize : got' = [got EXCEPT ![t] = @ + n]
  BY DEF Take, R!Take
<1>2. TypeInv'
  BY <1>1, SessionAssumption DEF Take, R!Take, shell, IInv, TypeInv
<1>3. \A o \in Transfers : got'[o] = IF o = t THEN got[t] + n ELSE got[o]
  BY <1>1 DEF IInv, TypeInv
<1>4. \A o \in Transfers : Len(put[o]) \in Nat /\ got[o] \in Nat
  BY DEF IInv, TypeInv
<1>5. FlowInv'
  <2>1. \A o \in Transfers : Given(o)' = Given(o)
    BY TransferNames DEF Take, R!Take, shell, Given
  <2>2. Len(put[t]) = got[t] /\ got'[t] <= Given(t)
    BY DEF Take, R!Take
  <2>3. \A o \in Transfers :
          Len(put[o]) <= got'[o] /\ got'[o] <= Len(put[o]) + BufSize /\ got'[o] <= Given(o)
    BY <1>1, <1>3, <1>4, <2>2, SessionAssumption DEF IInv, FlowInv
  <2>4. written <= got'["output"] + PipeSize
    <3>1. got["output"] <= got'["output"] /\ got'["output"] \in Nat
      BY <1>3, <1>4, TransferNames
    <3>2. written <= got["output"] + PipeSize /\ written \in Nat /\ PipeSize \in Nat
      BY SessionAssumption DEF IInv, FlowInv, TypeInv
    <3>3. QED
      BY <1>4, <3>1, <3>2, TransferNames
  <2>5. QED
    BY <2>1, <2>3, <2>4 DEF Take, R!Take, shell, IInv, FlowInv
<1>6. ClosedInv'
  <2>1. status["screen"] = "closed" => broken \/ got'["input"] = got["input"]
    BY <1>3, TransferNames DEF Take, Running, IInv, ClosedInv
  <2>2. QED
    BY <2>1, TransferNames DEF Take, R!Take, shell, Reset, Given, IInv, ClosedInv
<1>7. QED
  BY <1>2, <1>5, <1>6 DEF IInv

LEMMA PutStep ==
    ASSUME IInv, NEW t \in Transfers, Put(t)
    PROVE  IInv'
<1>1. PICK n \in 1..BufSize :
        /\ Len(put[t]) + n <= got[t]
        /\ put' = [put EXCEPT ![t] = @ \o R!Chunk(Len(put[t]), n)]
  BY DEF Put, R!Put
<1>2. \A o \in Transfers : put[o] \in Seq(Nat) /\ Len(put[o]) \in Nat /\ got[o] \in Nat
  BY DEF IInv, TypeInv
<1>3. R!Chunk(Len(put[t]), n) \in Seq(Nat) /\ Len(R!Chunk(Len(put[t]), n)) = n
  <2>1. n \in Nat /\ Len(put[t]) \in Nat
    BY <1>2, SessionAssumption
  <2>2. QED
    BY <2>1, ChunkType
<1>4. /\ put[t] \o R!Chunk(Len(put[t]), n) \in Seq(Nat)
      /\ Len(put[t] \o R!Chunk(Len(put[t]), n)) = Len(put[t]) + n
  BY <1>2, <1>3, Concatenation
<1>5. TypeInv'
  BY <1>1, <1>4 DEF Put, R!Put, shell, IInv, TypeInv
<1>6. \A o \in Transfers : Len(put'[o]) = IF o = t THEN Len(put[t]) + n ELSE Len(put[o])
  BY <1>1, <1>4 DEF IInv, TypeInv
<1> HIDE DEF R!Chunk
<1>7. \A o \in Transfers : Len(put'[o]) \in Nat /\ Len(put[o]) <= Len(put'[o]) /\ Len(put'[o]) <= got[o]
  <2>1. n \in Nat
    BY SessionAssumption
  <2>2. \A o \in Transfers : Len(put[o]) <= got[o]
    BY DEF IInv, FlowInv
  <2>3. QED
    <3>1. ASSUME NEW o \in Transfers
          PROVE  Len(put'[o]) \in Nat /\ Len(put[o]) <= Len(put'[o]) /\ Len(put'[o]) <= got[o]
      <4>1. CASE o = t
        <5>1. Len(put'[o]) = Len(put[t]) + n /\ Len(put[t]) \in Nat
          BY <1>2, <1>6, <4>1
        <5>2. QED
          BY <1>1, <2>1, <4>1, <5>1
      <4>2. CASE o # t
        BY <1>2, <1>6, <2>2, <4>2
      <4>3. QED
        BY <4>1, <4>2
    <3>2. QED
      BY <3>1
<1>8. UNCHANGED <<got, status, typed, read, written, server>>
  BY DEF Put, R!Put, shell
<1>9. FlowInv'
  <2>1. \A o \in Transfers : got[o] <= Given(o)'
    <3>1. got["keys"] <= typed /\ got["output"] <= written
      BY TransferNames DEF IInv, FlowInv, Given
    <3>2. got["input"] <= Len(put'["keys"]) /\ got["screen"] <= Len(put'["output"])
      <4>1. got["input"] <= Len(put["keys"]) /\ got["screen"] <= Len(put["output"])
        BY TransferNames DEF IInv, FlowInv, Given
      <4>2. QED
        BY <1>2, <1>7, <4>1, TransferNames, SMTT(20)
    <3>3. QED
      BY <1>8, <3>1, <3>2, TransferNames DEF Given
  <2>2. \A o \in Transfers : got[o] <= Len(put'[o]) + BufSize
    <3>1. \A o \in Transfers : got[o] <= Len(put[o]) + BufSize
      BY DEF IInv, FlowInv
    <3>2. QED
      BY <1>2, <1>7, <3>1, SessionAssumption
  <2>3. read <= Len(put'["input"])
    <3>1. read <= Len(put["input"]) /\ read \in Nat
      BY DEF IInv, FlowInv, TypeInv
    <3>2. QED
      BY <1>2, <1>7, <3>1, TransferNames
  <2>4. QED
    BY <1>7, <1>8, <2>1, <2>2, <2>3 DEF IInv, FlowInv
<1>10. ClosedInv'
  <2>1. status["screen"] = "closed" => t # "screen" /\ (t # "output" \/ broken)
    BY TransferNames DEF Put, R!Put, Running, IInv, ClosedInv
  <2>2. Reset("screen") => Reset("screen")'
    <3>1. Len(put["keys"]) > got["input"] => Len(put'["keys"]) > got["input"]
      <4>1. /\ Len(put["keys"]) \in Nat /\ Len(put'["keys"]) \in Nat /\ got["input"] \in Nat
            /\ Len(put["keys"]) <= Len(put'["keys"])
        BY <1>2, <1>7, TransferNames
      <4>2. QED
        BY <4>1
    <3>2. broken' = broken
      BY DEF Put
    <3>3. QED
      BY <1>8, <3>1, <3>2 DEF Reset, Given
  <2>3. UNCHANGED <<server, broken>> /\ (broken => Reset("screen"))
    BY DEF Put, Reset
  <2>4. QED
    BY <1>6, <1>8, <2>1, <2>2, <2>3, TransferNames DEF IInv, ClosedInv
<1>11. QED
  BY <1>5, <1>9, <1>10 DEF IInv

\* The end of a stream is seen with an empty buffer.
LEMMA CloseStep ==
    ASSUME IInv, NEW t \in Transfers, Close(t)
    PROVE  IInv'
<1>1. TypeInv'
  BY DEF Close, R!Close, shell, IInv, TypeInv
<1>2. FlowInv'
  BY TransferNames DEF Close, R!Close, shell, Given, IInv, FlowInv
<1>3. ClosedInv'
  <2>1. CASE t = "screen"
    BY <2>1, TransferNames
    DEF Close, R!Close, AllTaken, PeerOver, Reset, Given, ClosedInv
  <2>2. CASE t # "screen"
    <3>1. status'["screen"] = status["screen"]
      BY <2>2 DEF Close, R!Close, IInv, TypeInv
    <3>2. QED
      BY <3>1 DEF Close, R!Close, Reset, Given, IInv, ClosedInv
  <2>3. QED
    BY <2>1, <2>2
<1>4. QED
  BY <1>1, <1>2, <1>3 DEF IInv

LEMMA FailStep ==
    ASSUME IInv, NEW t \in Transfers, Fail(t)
    PROVE  IInv'
<1>1. TypeInv'
  BY DEF Fail, R!Fail, shell, IInv, TypeInv
<1>2. FlowInv'
  BY TransferNames DEF Fail, R!Fail, shell, Given, IInv, FlowInv
<1>3. status'["screen"] = "closed" => status["screen"] = "closed"
  BY DEF Fail, R!Fail, IInv, TypeInv
<1>4. ClosedInv'
  BY <1>3 DEF Fail, R!Fail, Reset, Given, IInv, ClosedInv
<1>5. QED
  BY <1>1, <1>2, <1>4 DEF IInv

\* The user, cmd.exe and the ends of the processes move no transfer.
LEMMA OtherStep ==
    ASSUME IInv,
           \/ ClientEnds \/ ClientQuits \/ ServerEnds \/ Breaks \/ Type
           \/ CmdReads \/ CmdWrites \/ CmdExits
           \/ UNCHANGED vars
    PROVE  IInv'
<1>1. UNCHANGED relay
  BY DEF ClientEnds, ClientQuits, ServerEnds, Breaks, Type, CmdReads, CmdWrites, CmdExits, vars
<1>2. \A t \in Transfers : Len(put[t]) \in Nat /\ got[t] \in Nat
  BY DEF IInv, TypeInv
<1>3. TypeInv'
  <2>1. broken' \in BOOLEAN
    <3>1. broken' = broken \/ broken' = TRUE
      BY Zenon DEF ClientEnds, ClientQuits, ServerEnds, Breaks, Type, CmdReads, CmdWrites,
                   CmdExits, vars
    <3>2. QED
      BY <3>1 DEF IInv, TypeInv
  <2>2. cmd' \in {cmd, "exited"}
    BY DEF ClientEnds, ClientQuits, ServerEnds, ShutdownFails, Breaks, Type, CmdReads, CmdWrites,
           CmdExits, vars, shell
  <2>3. QED
  BY <1>1, <1>2, <2>1, <2>2, SessionAssumption
  DEF relay, ClientEnds, ClientQuits, ServerEnds, Breaks, Type, CmdReads, CmdWrites, CmdExits,
      vars, shell,
      IInv, TypeInv
<1>4. typed <= typed' /\ written <= written'
  <2>1. typed \in Nat /\ written \in Nat
    BY SessionAssumption DEF IInv, TypeInv
  <2>2. typed' \in {typed, typed + 1} /\ written' \in {written, written + 1}
    BY DEF ClientEnds, ClientQuits, ServerEnds, Breaks, Type, CmdReads, CmdWrites, CmdExits,
           vars, shell
  <2>3. QED
    BY <2>1, <2>2
<1>5. FlowInv'
  <2>1. \A t \in Transfers : got[t] <= Given(t)'
    <3>1. /\ got["keys"] <= typed /\ got["output"] <= written
          /\ got["input"] <= Len(put["keys"]) /\ got["screen"] <= Len(put["output"])
      BY TransferNames DEF Given, IInv, FlowInv
    <3>2. got["keys"] <= typed' /\ got["output"] <= written'
      <4>1. typed \in Nat /\ typed' \in Nat /\ written \in Nat /\ written' \in Nat
        BY <1>3, SessionAssumption DEF IInv, TypeInv
      <4>2. QED
        BY <1>2, <1>4, <3>1, <4>1, TransferNames
    <3>3. QED
      BY <1>1, <3>1, <3>2, TransferNames DEF relay, Given
  <2>2. read' <= Len(put["input"]) /\ written' <= got["output"] + PipeSize
    <3>1. CASE CmdReads
      BY <1>2, <3>1, TransferNames DEF CmdReads, IInv, FlowInv, TypeInv
    <3>2. CASE CmdWrites
      <4>1. written \in Nat /\ got["output"] \in Nat /\ PipeSize \in Nat
        BY <1>2, SessionAssumption, TransferNames DEF IInv, TypeInv
      <4>2. read' = read /\ written' = written + 1 /\ written < got["output"] + PipeSize
        BY <3>2 DEF CmdWrites
      <4>3. QED
        BY <4>1, <4>2 DEF IInv, FlowInv
    <3>3. CASE UNCHANGED <<read, written>>
      BY <3>3 DEF IInv, FlowInv
    <3>4. QED
      BY <3>1, <3>2, <3>3
      DEF ClientEnds, ClientQuits, ServerEnds, Breaks, Type, CmdExits, vars, shell
  <2>3. QED
    BY <1>1, <2>1, <2>2 DEF relay, IInv, FlowInv
<1>6. ClosedInv'
  <2>1. (server = "over" => server' = "over") /\ (broken => broken')
    BY DEF ClientEnds, ClientQuits, ServerEnds, Breaks, Type, CmdReads, CmdWrites, CmdExits,
           vars, shell
  <2>2. QED
    BY <1>1, <2>1 DEF relay, Reset, Given, IInv, ClosedInv
<1>7. QED
  BY <1>3, <1>5, <1>6 DEF IInv

LEMMA NextInv == IInv /\ [Next]_vars => IInv'
  BY TakeStep, PutStep, CloseStep, FailStep, OtherStep DEF Next, Transfer

-----------------------------------------------------------------------------
\* The inductive invariant holds of every behaviour of a session.
THEOREM Invariance == Spec => []IInv
  BY InitInv, NextInv, PTL DEF Spec

\* Every variable keeps its type, for any sizes; cmd.exe reads nothing that was
\* not typed, however much of it is under way.
THEOREM TypeCorrect == Spec => []TypeOK
  BY Invariance, Typed, PTL

\* The output that is lost when cmd.exe exits fits into a pipe and a buffer,
\* for any sizes of both and of the connection (RemoteCMD.cpp:139).
THEOREM LossBoundedThm == Spec => []LossBounded
  BY Invariance, Bounded, PTL

-----------------------------------------------------------------------------
\* The session is a Terminal.

\* What is under way to the next stage fits into the connection or the pipe.
RoomInv == \A t \in {"keys", "input", "output"} : Len(put[t]) <= Drained(t) + Size(t)

\* A transfer ends only when the other end of the connection has.
PeerInv == \A t \in Transfers : status[t] # "open" => PeerOver(t)

TInv == IInv /\ RoomInv /\ PeerInv

\* How many bytes a stream has, as a number.
LEMMA Numbers ==
    ASSUME IInv
    PROVE  /\ Len(put["keys"]) \in Nat /\ Len(put["input"]) \in Nat
           /\ Len(put["output"]) \in Nat /\ Len(put["screen"]) \in Nat
           /\ got["keys"] \in Nat /\ got["input"] \in Nat
           /\ got["output"] \in Nat /\ got["screen"] \in Nat
           /\ typed \in Nat /\ read \in Nat /\ written \in Nat /\ owed \in Nat
           /\ BufSize \in Nat /\ NetSize \in Nat /\ PipeSize \in Nat
           /\ BufSize > 0 /\ NetSize > 0 /\ PipeSize > 0
<1>1. \A t \in Transfers : Len(put[t]) \in Nat /\ got[t] \in Nat
  BY DEF IInv, TypeInv
<1>2. QED
  BY <1>1, SessionAssumption, TransferNames DEF IInv, TypeInv

\* The stages in their order, keyboard to cmd.exe and cmd.exe to screen.
LEMMA Order ==
    ASSUME IInv
    PROVE  /\ read <= Len(put["input"]) /\ Len(put["input"]) <= got["input"]
           /\ got["input"] <= Len(put["keys"]) /\ Len(put["keys"]) <= got["keys"]
           /\ got["keys"] <= typed
           /\ Len(put["screen"]) <= got["screen"] /\ got["screen"] <= Len(put["output"])
           /\ Len(put["output"]) <= got["output"] /\ got["output"] <= written
           /\ got["screen"] <= Len(put["screen"]) + BufSize
           /\ got["output"] <= Len(put["output"]) + BufSize
           /\ written <= got["output"] + PipeSize
  BY TransferNames DEF IInv, FlowInv, Given

\* Three bounds in a row make one.
LEMMA Chained ==
    ASSUME NEW i \in Nat, NEW j \in Nat, NEW k \in Nat, NEW l \in Nat, i <= j, j <= k, k <= l
    PROVE  i <= l /\ (i < j \/ j < k \/ k < l => i < l)
  OBVIOUS

LEMMA TwoBuffers ==
    ASSUME NEW w \in Nat, NEW g \in Nat, NEW l \in Nat, NEW p \in Nat, NEW b \in Nat,
           g <= l + b, w <= g + p
    PROVE  w <= l + (p + b)
  OBVIOUS

LEMMA FarOrder ==
    ASSUME IInv
    PROVE  /\ got["screen"] <= written
           /\ read < Len(put["input"]) \/ got["input"] < Len(put["keys"]) => read < typed
           /\ written <= Len(put["output"]) + (PipeSize + BufSize)
<1>1. got["screen"] <= written
  <2>1. /\ got["screen"] <= Len(put["output"]) /\ Len(put["output"]) <= got["output"]
        /\ got["output"] <= written
    BY Order
  <2>2. /\ got["screen"] \in Nat /\ Len(put["output"]) \in Nat /\ got["output"] \in Nat
        /\ written \in Nat
    BY Numbers
  <2>3. QED
    BY <2>1, <2>2, Chained
<1>2. /\ read <= Len(put["keys"])
      /\ read < Len(put["input"]) \/ got["input"] < Len(put["keys"]) => read < Len(put["keys"])
  <2>1. /\ read <= Len(put["input"]) /\ Len(put["input"]) <= got["input"]
        /\ got["input"] <= Len(put["keys"])
    BY Order
  <2>2. /\ read \in Nat /\ Len(put["input"]) \in Nat /\ got["input"] \in Nat
        /\ Len(put["keys"]) \in Nat
    BY Numbers
  <2>3. QED
    BY <2>1, <2>2, Chained
<1>3. read < Len(put["keys"]) => read < typed
  <2>1. Len(put["keys"]) <= got["keys"] /\ got["keys"] <= typed
    BY Order
  <2>2. Len(put["keys"]) \in Nat /\ got["keys"] \in Nat /\ typed \in Nat /\ read \in Nat
    BY Numbers
  <2>3. QED
    BY <1>2, <2>1, <2>2, Chained
<1>4. written <= Len(put["output"]) + (PipeSize + BufSize)
  <2>1. /\ got["output"] <= Len(put["output"]) + BufSize
        /\ written <= got["output"] + PipeSize
    BY Order
  <2>2. /\ Len(put["output"]) \in Nat /\ got["output"] \in Nat /\ written \in Nat
        /\ BufSize \in Nat /\ PipeSize \in Nat
    BY Numbers
  <2>3. QED
    BY <2>1, <2>2, TwoBuffers
<1>5. QED
  BY <1>1, <1>2, <1>3, <1>4

\* What a transfer's step does to the number of bytes that it delivered.
LEMMA PutAdds ==
    ASSUME IInv, NEW t \in Transfers, Put(t)
    PROVE  /\ \A o \in Transfers \ {t} : put'[o] = put[o]
           /\ Len(put'[t]) \in Nat /\ Len(put'[t]) > Len(put[t]) /\ Len(put'[t]) <= got[t]
<1>1. PICK n \in 1..BufSize :
        /\ Len(put[t]) + n <= got[t]
        /\ put' = [put EXCEPT ![t] = @ \o R!Chunk(Len(put[t]), n)]
  BY DEF Put, R!Put
<1>2. put \in [Transfers -> Seq(Nat)] /\ n \in Nat /\ n > 0 /\ Len(put[t]) \in Nat
  BY SessionAssumption DEF IInv, TypeInv
<1>3. R!Chunk(Len(put[t]), n) \in Seq(Nat) /\ Len(R!Chunk(Len(put[t]), n)) = n
  BY <1>2, ChunkType
<1>4. Len(put[t] \o R!Chunk(Len(put[t]), n)) = Len(put[t]) + n
  BY <1>2, <1>3, Concatenation
<1> HIDE DEF R!Chunk
<1>5. QED
  BY <1>1, <1>2, <1>4

LEMMA TInit == Init => TInv
<1> SUFFICES ASSUME Init PROVE RoomInv /\ PeerInv
  BY InitInv DEF TInv
<1>1. RoomInv
  BY SessionAssumption, TransferNames DEF Init, R!Init, RoomInv, Drained, Size
<1>2. PeerInv
  BY DEF Init, R!Init, PeerInv
<1>3. QED
  BY <1>1, <1>2

LEMMA GrownRoom ==
    ASSUME NEW l \in Nat, NEW g \in Nat, NEW s \in Nat, NEW h \in Nat, l <= g + s, g <= h
    PROVE  l <= h + s
  OBVIOUS

LEMMA RoomStep == TInv /\ [Next]_vars => RoomInv'
<1> SUFFICES ASSUME TInv, [Next]_vars PROVE RoomInv'
  OBVIOUS
<1>1. IInv /\ IInv' /\ RoomInv
  BY NextInv DEF TInv
<1>2. /\ got["input"] \in Nat /\ got["screen"] \in Nat /\ read \in Nat
      /\ Len(put["keys"]) \in Nat /\ Len(put["input"]) \in Nat /\ Len(put["output"]) \in Nat
      /\ NetSize \in Nat /\ PipeSize \in Nat
  BY <1>1, Numbers
<1>3. /\ Len(put["keys"]) <= got["input"] + NetSize
      /\ Len(put["input"]) <= read + PipeSize
      /\ Len(put["output"]) <= got["screen"] + NetSize
  BY <1>1 DEF RoomInv, Drained, Size
<1>4. ASSUME NEW t \in Transfers, Take(t) PROVE RoomInv'
  <2>1. PICK n \in 1..BufSize : got' = [got EXCEPT ![t] = @ + n]
    BY <1>4 DEF Take, R!Take
  <2>2. \A o \in Transfers : got'[o] \in Nat /\ got[o] <= got'[o]
    BY <1>1, <2>1, SessionAssumption DEF IInv, TypeInv
  <2>3. UNCHANGED <<put, read>>
    BY <1>4 DEF Take, R!Take, shell
  <2>4. /\ got["input"] <= got'["input"] /\ got'["input"] \in Nat
        /\ got["screen"] <= got'["screen"] /\ got'["screen"] \in Nat
    BY <2>2, TransferNames
  <2>5. /\ Len(put["keys"]) <= got'["input"] + NetSize
        /\ Len(put["output"]) <= got'["screen"] + NetSize
    BY <1>2, <1>3, <2>4, GrownRoom
  <2>6. QED
    BY <1>3, <2>3, <2>5 DEF RoomInv, Drained, Size
<1>5. ASSUME NEW t \in Transfers, Put(t) PROVE RoomInv'
  <2>1. \A o \in Transfers \ {t} : put'[o] = put[o]
    BY <1>1, <1>5, PutAdds
  <2>2. UNCHANGED <<got, read>> /\ (t = "screen" \/ Len(put'[t]) <= Drained(t) + Size(t))
    BY <1>5 DEF Put, R!Put, shell
  <2>3. QED
    BY <1>3, <2>1, <2>2, TransferNames DEF RoomInv, Drained, Size
<1>6. ASSUME UNCHANGED <<got, put>>, read' \in {read, read + 1} PROVE RoomInv'
  BY <1>2, <1>3, <1>6 DEF RoomInv, Drained, Size
<1>7. ASSUME NEW t \in Transfers, Close(t) \/ Fail(t) PROVE RoomInv'
  BY <1>6, <1>7 DEF Close, Fail, R!Close, R!Fail, shell
<1>8. CASE \/ ClientEnds \/ ClientQuits \/ ServerEnds \/ Breaks \/ Type
           \/ CmdReads \/ CmdWrites \/ CmdExits
           \/ UNCHANGED vars
  BY <1>6, <1>8
  DEF ClientEnds, ClientQuits, ServerEnds, Breaks, Type, CmdReads, CmdWrites, CmdExits, vars,
      relay, shell
<1>9. QED
  BY <1>4, <1>5, <1>7, <1>8 DEF Next, Transfer

LEMMA PeerStep == TInv /\ [Next]_vars => PeerInv'
<1> SUFFICES ASSUME TInv, [Next]_vars PROVE PeerInv'
  OBVIOUS
<1>1. PeerInv /\ status \in [Transfers -> {"open", "closed", "failed"}]
  BY DEF TInv, IInv, TypeInv
<1>2. ASSUME NEW t \in Transfers, Close(t) \/ Fail(t) PROVE PeerInv'
  <2>1. \A o \in Transfers \ {t} : status'[o] = status[o]
    BY <1>1, <1>2 DEF Close, Fail, R!Close, R!Fail
  <2>2. PeerOver(t) /\ UNCHANGED <<client, server, broken>>
    BY <1>2 DEF Close, Fail, MayFail
  <2>3. QED
    BY <1>1, <2>1, <2>2 DEF PeerInv, PeerOver
<1>3. ASSUME NEW t \in Transfers, Take(t) \/ Put(t) PROVE PeerInv'
  <2>1. UNCHANGED <<status, client, server, broken>>
    BY <1>3 DEF Take, Put, R!Take, R!Put
  <2>2. QED
    BY <1>1, <2>1 DEF PeerInv, PeerOver
<1>4. CASE \/ ClientEnds \/ ClientQuits \/ ServerEnds \/ Breaks \/ Type
           \/ CmdReads \/ CmdWrites \/ CmdExits
           \/ UNCHANGED vars
  BY <1>1, <1>4
  DEF ClientEnds, ClientQuits, ServerEnds, Breaks, Type, CmdReads, CmdWrites, CmdExits, vars,
      relay, shell,
      PeerInv, PeerOver
<1>5. QED
  BY <1>2, <1>3, <1>4 DEF Next, Transfer

LEMMA TInvariance == Spec => []TInv
<1>1. TInv /\ [Next]_vars => TInv'
  BY NextInv, RoomStep, PeerStep DEF TInv
<1>2. QED
  BY TInit, <1>1, PTL DEF Spec

LEMMA TerminalInit == Init => T!Init
  BY TransferNames DEF Init, R!Init, T!Init

\* The steps of the transfers: only the last one shows, and only its end is seen.
LEMMA TransferShows ==
    ASSUME TInv, NEW t \in Transfers, Transfer(t)
    PROVE  T!Next \/ UNCHANGED T!vars
<1>1. IInv
  BY DEF TInv
<1>2. CASE Take(t)
  BY <1>2 DEF Take, R!Take, shell, T!vars
<1>3. CASE Put(t)
  <2>1. UNCHANGED <<got, status, typed, read, written, cmd, client, server, broken>>
    BY <1>3 DEF Put, R!Put, shell
  <2>2. CASE t = "screen"
    <3>1. Len(put'["screen"]) \in (Len(put["screen"]) + 1)..written
      <4>1. /\ Len(put'["screen"]) \in Nat /\ Len(put["screen"]) \in Nat
            /\ Len(put'["screen"]) > Len(put["screen"]) /\ Len(put'["screen"]) <= got["screen"]
        BY <1>1, <1>3, <2>2, PutAdds, Numbers
      <4>2. got["screen"] <= written /\ got["screen"] \in Nat /\ written \in Nat
        BY <1>1, FarOrder, Numbers
      <4>3. QED
        BY <4>1, <4>2
    <3>2. client = "running" /\ status["screen"] = "open"
      BY <1>3, <2>2, TransferNames DEF Put, R!Put, Running
    <3>3. T!Show
      BY <2>1, <3>1, <3>2 DEF T!Show
    <3>4. QED
      BY <3>3 DEF T!Next
  <2>3. CASE t # "screen"
    BY <1>1, <1>3, <2>1, <2>3, PutAdds, TransferNames DEF T!vars
  <2>4. QED
    BY <2>2, <2>3
<1>4. CASE Close(t)
  <2>1. UNCHANGED <<got, put, typed, read, written, cmd, client, server, broken>>
    BY <1>4 DEF Close, R!Close, shell
  <2>2. CASE t = "screen"
    <3>1. /\ client = "running" /\ (server = "over" \/ broken) /\ status["screen"] = "open"
          /\ status'["screen"] = "closed" /\ Len(put["screen"]) = got["screen"]
      BY <1>1, <1>4, <2>2, TransferNames DEF Close, R!Close, Running, PeerOver, IInv, TypeInv
    <3>2. CASE AllTaken("screen") /\ ~broken
      <4>1. got["screen"] = Len(put["output"])
        BY <3>2 DEF AllTaken, Given
      <4>2. written <= Len(put["screen"]) + (PipeSize + BufSize)
        BY <1>1, <3>1, <4>1, FarOrder
      <4>3. QED
        BY <2>1, <3>1, <4>2 DEF T!ScreenEnds, T!Next
    <3>3. CASE Reset("screen") /\ ~broken
      <4>1. Len(put["keys"]) > got["input"]
        BY <3>3 DEF Reset, Given
      <4>2. read < typed
        BY <1>1, <4>1, FarOrder, Numbers
      <4>3. QED
        BY <2>1, <3>1, <4>2 DEF T!ScreenEnds, T!Next
    <3>4. CASE broken
      BY <2>1, <3>1, <3>4 DEF T!ScreenEnds, T!Next
    <3>5. QED
      BY <1>4, <2>2, <3>2, <3>3, <3>4 DEF Close
  <2>3. CASE t # "screen"
    <3>1. status'["screen"] = status["screen"]
      BY <1>1, <1>4, <2>3 DEF Close, R!Close, IInv, TypeInv
    <3>2. QED
      BY <2>1, <3>1 DEF T!vars
  <2>4. QED
    BY <2>2, <2>3
<1>5. CASE Fail(t)
  <2>1. t # "screen"
    BY <1>5 DEF Fail, MayFail
  <2>2. status'["screen"] = status["screen"]
    BY <1>1, <1>5, <2>1 DEF Fail, R!Fail, IInv, TypeInv
  <2>3. QED
    BY <1>5, <2>2 DEF Fail, R!Fail, shell, T!vars
<1>6. QED
  BY <1>2, <1>3, <1>4, <1>5 DEF Transfer

\* cmd.exe is no further ahead of the screen than what the stages hold.
LEMMA ThreeStages ==
    ASSUME NEW w \in Nat, NEW o \in Nat, NEW g \in Nat, NEW l \in Nat,
           NEW b \in Nat, NEW n \in Nat, NEW p \in Nat,
           w <= o + b, o <= g + n, g <= l + b
    PROVE  \A x \in Nat : x < w + p => x < l + (p + 2 * b + n)
  OBVIOUS

LEMMA AheadOfScreen ==
    ASSUME TInv, written < got["output"] + PipeSize
    PROVE  written < Len(put["screen"]) + (PipeSize + 2 * BufSize + NetSize)
<1>1. Len(put["output"]) <= got["screen"] + NetSize
  BY DEF TInv, RoomInv, Drained, Size
<1>2. IInv
  BY DEF TInv
<1>3. /\ got["screen"] <= Len(put["screen"]) + BufSize
      /\ got["output"] <= Len(put["output"]) + BufSize
  BY <1>2, Order
<1>4. /\ Len(put["output"]) \in Nat /\ Len(put["screen"]) \in Nat
      /\ got["output"] \in Nat /\ got["screen"] \in Nat /\ written \in Nat
      /\ BufSize \in Nat /\ NetSize \in Nat /\ PipeSize \in Nat
  BY <1>2, Numbers
<1>5. QED
  BY <1>1, <1>3, <1>4, ThreeStages

LEMMA OthersShow ==
    ASSUME TInv,
           ClientEnds \/ ClientQuits \/ ServerEnds \/ Breaks \/ Type
        \/ CmdReads \/ CmdWrites \/ CmdExits
    PROVE  T!Next
<1>1. IInv
  BY DEF TInv
<1>2. CASE ClientEnds \/ ClientQuits
  BY <1>2 DEF ClientEnds, ClientQuits, relay, shell, T!UserLeaves, T!Next
<1>3. CASE ServerEnds
  <2>1. cmd = "exited" \/ T!Unseen
    BY <1>3, TransferNames DEF ServerEnds, RelayDone, TInv, PeerInv, PeerOver, T!Unseen
  <2>2. cmd' = "exited" \/ (T!Unseen /\ cmd' = cmd)
    BY <1>3, TransferNames DEF ServerEnds, ShutdownFails, PeerOver, T!Unseen
  <2>3. QED
    BY <1>3, <2>1, <2>2 DEF ServerEnds, relay, T!SessionEnds, T!Next
<1>4. CASE Type
  BY <1>4 DEF Type, relay, shell, T!Type, T!Next
<1>5. CASE CmdReads
  <2>1. read < typed
    BY <1>1, <1>5, FarOrder DEF CmdReads
  <2>2. QED
    BY <1>5, <2>1 DEF CmdReads, CmdAlive, relay, T!Read, T!Next
<1>6. CASE CmdWrites
  <2>1. written < got["output"] + PipeSize
    BY <1>6 DEF CmdWrites
  <2>2. written < Len(put["screen"]) + (PipeSize + 2 * BufSize + NetSize)
    BY <2>1, AheadOfScreen
  <2>3. QED
    BY <1>6, <2>2 DEF CmdWrites, CmdAlive, relay, T!Write, T!Next
<1>7. CASE CmdExits
  BY <1>7 DEF CmdExits, CmdAlive, relay, T!Exit, T!Next
<1>8. CASE Breaks
  BY <1>8 DEF Breaks, relay, shell, T!Lose, T!Next
<1>9. QED
  BY <1>2, <1>3, <1>4, <1>5, <1>6, <1>7, <1>8

\* A client and its session implement Terminal, whatever the sizes of the
\* buffers, the connection and the pipes: cmd.exe reads only what was typed,
\* is ahead of the screen by a bounded number of bytes, and no session ends on
\* a user who is there while cmd.exe runs (RemoteCMD.cpp:91, 136-147).
THEOREM ImplementsTerminal == Spec => TerminalSpec
<1>1. TInv /\ [Next]_vars => [T!Next]_(T!vars)
  <2> SUFFICES ASSUME TInv, [Next]_vars PROVE T!Next \/ UNCHANGED T!vars
    OBVIOUS
  <2>1. CASE UNCHANGED vars
    BY <2>1 DEF vars, relay, shell, T!vars
  <2>2. QED
    BY <2>1, TransferShows, OthersShow DEF Next
<1>2. QED
  BY <1>1, TerminalInit, TInvariance, PTL DEF Spec, TerminalSpec, T!Spec

-----------------------------------------------------------------------------
\* What a fair step waits for, and what the theorems about liveness assume.

\* There are bytes for t to take, or it has bytes and there is room for them.
CanGoOn(t) ==
    /\ Running(t) /\ status[t] = "open"
    /\ \/ Len(put[t]) = got[t] /\ got[t] < Given(t)
       \/ Len(put[t]) < got[t] /\ (t = "screen" \/ Len(put[t]) < Drained(t) + Size(t))

\* The connection has ended for t, or what t sends cannot arrive.
CanEnd(t) ==
    /\ Running(t) /\ status[t] = "open"
    /\ \/ /\ t \in {"screen", "input"} /\ PeerOver(t)
          /\ Len(put[t]) = got[t]
          /\ AllTaken(t) \/ Reset(t)
       \/ MayFail(t)

CmdCanRead == CmdAlive /\ owed = 0 /\ read < Len(put["input"])
CmdCanWrite == CmdAlive /\ owed > 0 /\ written < got["output"] + PipeSize

CanRun(t) == ENABLED <<Transfer(t)>>_vars

\* Weak fairness speaks of ENABLED, which the provers do not see into: here is
\* the guard of each fair action written out. It is a fact about the actions'
\* definitions and says nothing of the code, so it is no property of a run but
\* the hypothesis []GuardsEnable of the theorems below.
GuardsEnable ==
    /\ \A t \in Transfers : CanGoOn(t) \/ CanEnd(t) => CanRun(t)
    /\ client = "running" /\ (\A t \in ClientTransfers : status[t] # "open")
           => ENABLED <<ClientEnds>>_vars
    /\ server = "running" /\ RelayDone => ENABLED <<ServerEnds>>_vars
    /\ CmdCanRead => ENABLED <<CmdReads>>_vars
    /\ CmdCanWrite => ENABLED <<CmdWrites>>_vars

-----------------------------------------------------------------------------
\* Bytes that are under way move. That the two directions form no ring is the
\* argument of Stuck; that what can go on does is the scheduler's.

Both == client = "running" /\ server = "running" /\ ~broken

\* Bytes that t has taken and delivered; those of cmd.exe's output, and all.
Done == [t \in Transfers |-> got[t] + Len(put[t])]
OutDone == Done["output"] + Done["screen"]
AllDone == Done["keys"] + Done["input"] + Done["output"] + Done["screen"] + read + written

\* Nothing is ever taken back.
LEMMA Monotone ==
    ASSUME TInv, [Next]_vars
    PROVE  /\ \A t \in Transfers :
                 /\ got[t] \in Nat /\ got'[t] \in Nat /\ got[t] <= got'[t]
                 /\ Len(put[t]) \in Nat /\ Len(put'[t]) \in Nat /\ Len(put[t]) <= Len(put'[t])
           /\ typed \in Nat /\ typed' \in Nat /\ typed <= typed'
           /\ read \in Nat /\ read' \in Nat /\ read <= read'
           /\ written \in Nat /\ written' \in Nat /\ written <= written'
<1>1. IInv /\ \A t \in Transfers : got[t] \in Nat /\ Len(put[t]) \in Nat
  BY DEF TInv, IInv, TypeInv
<1>2. typed \in Nat /\ read \in Nat /\ written \in Nat
  BY <1>1, Numbers
<1>3. ASSUME NEW t \in Transfers, Take(t)
      PROVE  \A o \in Transfers : got'[o] \in Nat /\ got[o] <= got'[o]
  <2>1. PICK n \in 1..BufSize : got' = [got EXCEPT ![t] = @ + n]
    BY <1>3 DEF Take, R!Take
  <2>2. QED
    BY <1>1, <2>1, SessionAssumption DEF IInv, TypeInv
<1>4. ASSUME NEW t \in Transfers, Put(t)
      PROVE  \A o \in Transfers : Len(put'[o]) \in Nat /\ Len(put[o]) <= Len(put'[o])
  <2>1. /\ \A o \in Transfers \ {t} : put'[o] = put[o]
        /\ Len(put'[t]) \in Nat /\ Len(put'[t]) > Len(put[t])
    BY <1>1, <1>4, PutAdds
  <2>2. Len(put[t]) \in Nat
    BY <1>1
  <2>3. Len(put[t]) <= Len(put'[t])
    BY <2>1, <2>2
  <2>4. QED
    BY <1>1, <2>1, <2>3
<1>5. ASSUME NEW t \in Transfers, Transfer(t)
      PROVE  /\ \A o \in Transfers :
                   /\ got'[o] \in Nat /\ got[o] <= got'[o]
                   /\ Len(put'[o]) \in Nat /\ Len(put[o]) <= Len(put'[o])
             /\ UNCHANGED <<typed, read, written>>
  <2>1. CASE Take(t)
    BY <1>1, <1>3, <2>1 DEF Take, R!Take, shell
  <2>2. CASE Put(t)
    <3>1. UNCHANGED <<got, typed, read, written>>
      BY <2>2 DEF Put, R!Put, shell
    <3>2. QED
      BY <1>1, <1>4, <2>2, <3>1
  <2>3. CASE Close(t) \/ Fail(t)
    <3>1. UNCHANGED <<got, put, typed, read, written>>
      BY <2>3 DEF Close, Fail, R!Close, R!Fail, shell
    <3>2. QED
      BY <1>1, <3>1
  <2>4. QED
    BY <1>5, <2>1, <2>2, <2>3 DEF Transfer
<1>6. ASSUME ~\E t \in Transfers : Transfer(t)
      PROVE  /\ got' = got /\ put' = put
             /\ typed' \in {typed, typed + 1} /\ read' \in {read, read + 1}
             /\ written' \in {written, written + 1}
  BY <1>6
  DEF Next, ClientEnds, ClientQuits, ServerEnds, Breaks, Type, CmdReads, CmdWrites, CmdExits,
      vars, relay, shell
<1>7. QED
  BY <1>1, <1>2, <1>5, <1>6

\* So a transfer's source only gains bytes, and its destination room.
LEMMA Grown ==
    ASSUME TInv, [Next]_vars, NEW t \in Transfers
    PROVE  /\ Given(t) \in Nat /\ Given(t)' \in Nat /\ Given(t) <= Given(t)'
           /\ Drained(t) \in Nat /\ Drained(t)' \in Nat /\ Drained(t) <= Drained(t)'
<1>1. CASE t = "keys"
  BY <1>1, Monotone, TransferNames DEF Given, Drained
<1>2. CASE t = "input"
  BY <1>2, Monotone, TransferNames DEF Given, Drained
<1>3. CASE t = "output"
  BY <1>3, Monotone, TransferNames DEF Given, Drained
<1>4. CASE t = "screen"
  BY <1>4, Monotone, TransferNames DEF Given, Drained
<1>5. QED
  BY <1>1, <1>2, <1>3, <1>4, TransferNames

\* While both processes run, a transfer's step moves bytes of its own.
LEMMA Moves ==
    ASSUME TInv, Both, NEW t \in Transfers, Transfer(t)
    PROVE  /\ Done[t] \in Nat /\ Done'[t] \in Nat /\ Done'[t] > Done[t]
           /\ \A o \in Transfers \ {t} : got'[o] = got[o] /\ put'[o] = put[o]
           /\ UNCHANGED <<status, typed, shell, client, server, broken>>
<1>1. ~PeerOver(t)
  BY DEF Both, PeerOver
<1>2. Take(t) \/ Put(t)
  BY <1>1 DEF Transfer, Close, Fail, MayFail
<1>3. IInv /\ got[t] \in Nat /\ Len(put[t]) \in Nat
  BY DEF TInv, IInv, TypeInv
<1>4. CASE Take(t)
  <2>1. PICK n \in 1..BufSize : got' = [got EXCEPT ![t] = @ + n]
    BY <1>4 DEF Take, R!Take
  <2>2. n \in Nat /\ n > 0
    BY SessionAssumption
  <2>3. got'[t] = got[t] + n /\ \A o \in Transfers \ {t} : got'[o] = got[o]
    BY <2>1 DEF TInv, IInv, TypeInv
  <2>4. UNCHANGED <<put, status, typed, shell, client, server, broken>>
    BY <1>4 DEF Take, R!Take
  <2>5. QED
    BY <1>3, <2>2, <2>3, <2>4 DEF Done
<1>5. CASE Put(t)
  <2>1. /\ \A o \in Transfers \ {t} : put'[o] = put[o]
        /\ Len(put'[t]) \in Nat /\ Len(put'[t]) > Len(put[t])
    BY <1>3, <1>5, PutAdds
  <2>2. UNCHANGED <<got, status, typed, shell, client, server, broken>>
    BY <1>5 DEF Put, R!Put
  <2>3. Done[t] = got[t] + Len(put[t]) /\ Done'[t] = got[t] + Len(put'[t])
    BY <2>2 DEF Done
  <2>4. Done[t] \in Nat /\ Done'[t] \in Nat /\ Done'[t] > Done[t]
    BY <1>3, <2>1, <2>3
  <2>5. QED
    BY <2>1, <2>2, <2>4
<1>6. QED
  BY <1>2, <1>4, <1>5

\* What a transfer can do stays possible until it does it.
LEMMA Keeps ==
    ASSUME TInv, Both, [Next]_vars, NEW t \in Transfers, CanGoOn(t)
    PROVE  Transfer(t) \/ (CanGoOn(t) /\ Both)' \/ ~Both'
<1>1. /\ Given(t) \in Nat /\ Given(t)' \in Nat /\ Given(t) <= Given(t)'
      /\ Drained(t) \in Nat /\ Drained(t)' \in Nat /\ Drained(t) <= Drained(t)'
      /\ got[t] \in Nat /\ Len(put[t]) \in Nat /\ Size(t) \in Nat
  BY Grown, Monotone, SessionAssumption DEF Size
<1>2. ASSUME Both', got'[t] = got[t], put'[t] = put[t], status'[t] = status[t]
      PROVE  CanGoOn(t)'
  <2>1. Running(t)'
    BY <1>2 DEF Both, Running
  <2>2. got[t] < Given(t) => got[t] < Given(t)'
    BY <1>1
  <2>3. Len(put[t]) < Drained(t) + Size(t) => Len(put[t]) < Drained(t)' + Size(t)
    BY <1>1
  <2>4. Size(t)' = Size(t)
    BY DEF Size
  <2>5. QED
    BY <1>2, <2>1, <2>2, <2>3, <2>4 DEF CanGoOn
<1>3. CASE \E o \in Transfers \ {t} : Transfer(o)
  BY <1>2, <1>3, Moves DEF Both
<1>4. CASE ClientEnds \/ ClientQuits \/ ServerEnds \/ Breaks
  BY <1>4 DEF ClientEnds, ClientQuits, ServerEnds, Breaks, Both
<1>5. CASE Type \/ CmdReads \/ CmdWrites \/ CmdExits \/ UNCHANGED vars
  BY <1>2, <1>5 DEF Type, CmdReads, CmdWrites, CmdExits, vars, relay, Both
<1>6. QED
  BY <1>3, <1>4, <1>5 DEF Next

\* While both processes run, every transfer is open.
LEMMA AllOpen == TInv /\ Both => \A t \in Transfers : Running(t) /\ status[t] = "open"
  BY DEF TInv, PeerInv, PeerOver, Both, Running

\* Two stages in a row of which neither can go on have passed everything on.
LEMMA TwoStuck ==
    ASSUME NEW p \in Nat, NEW g \in Nat, NEW q \in Nat, NEW h \in Nat, NEW w \in Nat,
           NEW n \in Nat, n > 0, p <= g, g <= q, q <= h, h <= w,
           ~(p = g /\ g < q), ~(p < g), ~(q = h /\ h < w), ~(q < h /\ q < g + n)
    PROVE  p = g /\ g = q /\ q = h /\ h = w
  OBVIOUS

\* Output that is not on the screen yet can go on, whatever the keys do.
LEMMA OutputStuck ==
    ASSUME TInv, Both, ~CanGoOn("output"), ~CanGoOn("screen")
    PROVE  Len(put["screen"]) = written /\ got["output"] = written
<1>1. /\ ~(Len(put["screen"]) = got["screen"] /\ got["screen"] < Len(put["output"]))
      /\ ~(Len(put["screen"]) < got["screen"])
      /\ ~(Len(put["output"]) = got["output"] /\ got["output"] < written)
      /\ ~(Len(put["output"]) < got["output"] /\ Len(put["output"]) < got["screen"] + NetSize)
  BY AllOpen, TransferNames DEF CanGoOn, Given, Drained, Size
<1>2. IInv
  BY DEF TInv
<1>3. /\ Len(put["screen"]) <= got["screen"] /\ got["screen"] <= Len(put["output"])
      /\ Len(put["output"]) <= got["output"] /\ got["output"] <= written
  BY <1>2, Order
<1>4. /\ Len(put["screen"]) \in Nat /\ got["screen"] \in Nat /\ Len(put["output"]) \in Nat
      /\ got["output"] \in Nat /\ written \in Nat /\ NetSize \in Nat /\ NetSize > 0
  BY <1>2, Numbers
<1>5. QED
  BY <1>1, <1>3, <1>4, TwoStuck

\* A key that cmd.exe has not read can go on, or its output can, or cmd.exe.
LEMMA KeysStuck ==
    ASSUME TInv, Both, cmd = "running", \A t \in Transfers : ~CanGoOn(t), ~CmdCanRead, ~CmdCanWrite
    PROVE  read = typed
<1>1. IInv
  BY DEF TInv
<1>2. got["output"] = written
  BY OutputStuck, TransferNames
<1>3. owed = 0
  <2>1. ~(owed > 0 /\ written < written + PipeSize)
    BY <1>2 DEF CmdCanWrite, CmdAlive, Both
  <2>2. owed \in Nat /\ written \in Nat /\ PipeSize \in Nat /\ PipeSize > 0
    BY <1>1, Numbers
  <2>3. QED
    BY <2>1, <2>2
<1>4. read = Len(put["input"])
  <2>1. read <= Len(put["input"]) /\ ~(read < Len(put["input"]))
    BY <1>1, <1>3, Order DEF CmdCanRead, CmdAlive, Both
  <2>2. read \in Nat /\ Len(put["input"]) \in Nat
    BY <1>1, Numbers
  <2>3. QED
    BY <2>1, <2>2
<1>5. Len(put["input"]) = got["input"]
  <2>1. ~(Len(put["input"]) < got["input"] /\ Len(put["input"]) < Len(put["input"]) + PipeSize)
    BY <1>4, AllOpen, TransferNames DEF CanGoOn, Given, Drained, Size
  <2>2. Len(put["input"]) <= got["input"]
    BY <1>1, Order
  <2>3. Len(put["input"]) \in Nat /\ got["input"] \in Nat /\ PipeSize \in Nat /\ PipeSize > 0
    BY <1>1, Numbers
  <2>4. QED
    BY <2>1, <2>2, <2>3
<1>6. /\ Len(put["input"]) = got["input"] /\ got["input"] = Len(put["keys"])
      /\ Len(put["keys"]) = got["keys"] /\ got["keys"] = typed
  <2>1. /\ ~(Len(put["input"]) = got["input"] /\ got["input"] < Len(put["keys"]))
        /\ ~(Len(put["input"]) < got["input"])
        /\ ~(Len(put["keys"]) = got["keys"] /\ got["keys"] < typed)
        /\ ~(Len(put["keys"]) < got["keys"] /\ Len(put["keys"]) < got["input"] + NetSize)
    <3>1. ~(Len(put["input"]) < got["input"])
      <4>1. Len(put["input"]) \in Nat
        BY <1>1, Numbers
      <4>2. QED
        BY <1>5, <4>1
    <3>2. QED
      BY <3>1, AllOpen, TransferNames DEF CanGoOn, Given, Drained, Size
  <2>2. /\ Len(put["input"]) <= got["input"] /\ got["input"] <= Len(put["keys"])
        /\ Len(put["keys"]) <= got["keys"] /\ got["keys"] <= typed
    BY <1>1, Order
  <2>3. /\ Len(put["input"]) \in Nat /\ got["input"] \in Nat /\ Len(put["keys"]) \in Nat
        /\ got["keys"] \in Nat /\ typed \in Nat /\ NetSize \in Nat /\ NetSize > 0
    BY <1>1, Numbers
  <2>4. QED
    BY <2>1, <2>2, <2>3, TwoStuck
<1>7. QED
  BY <1>4, <1>6

\* While both processes and cmd.exe run, there is no ring: bytes that are on
\* their way can move, whatever the sizes of buffers, connection and pipes.
NoDeadlock ==
    Both =>
        /\ Len(put["screen"]) < written => CanGoOn("output") \/ CanGoOn("screen")
        /\ cmd = "running" /\ read < typed
               => CmdCanRead \/ CmdCanWrite \/ \E t \in Transfers : CanGoOn(t)

\* Output that is not shown can move by its own transfers alone, and a key that
\* was not read by those of both directions and cmd.exe (RemoteCMD.cpp:91, 136).
THEOREM NoDeadlockThm == Spec => []NoDeadlock
<1>1. TInv => NoDeadlock
  <2> SUFFICES ASSUME TInv, Both
               PROVE  /\ Len(put["screen"]) < written => CanGoOn("output") \/ CanGoOn("screen")
                      /\ cmd = "running" /\ read < typed
                             => CmdCanRead \/ CmdCanWrite \/ \E t \in Transfers : CanGoOn(t)
    BY DEF NoDeadlock
  <2>1. written \in Nat /\ typed \in Nat
    BY Numbers DEF TInv
  <2>2. QED
    BY <2>1, OutputStuck, KeysStuck
<1>2. QED
  BY <1>1, TInvariance, PTL

LEMMA DoneGrows ==
    ASSUME TInv, [Next]_vars, NEW t \in Transfers
    PROVE  Done[t] \in Nat /\ Done'[t] \in Nat /\ Done[t] <= Done'[t]
<1>1. /\ got[t] \in Nat /\ got'[t] \in Nat /\ got[t] <= got'[t]
      /\ Len(put[t]) \in Nat /\ Len(put'[t]) \in Nat /\ Len(put[t]) <= Len(put'[t])
  BY Monotone
<1>2. QED
  BY <1>1 DEF Done

LEMMA SumGrows ==
    ASSUME NEW a \in Nat, NEW b \in Nat, NEW c \in Nat, NEW d \in Nat, NEW e \in Nat, NEW f \in Nat,
           NEW x \in Nat, NEW y \in Nat, NEW z \in Nat, NEW u \in Nat, NEW v \in Nat, NEW w \in Nat,
           a <= x, b <= y, c <= z, d <= u, e <= v, f <= w
    PROVE  /\ c + d <= z + u /\ (c < z \/ d < u => c + d < z + u)
           /\ a + b + c + d + e + f <= x + y + z + u + v + w
           /\ a < x \/ b < y \/ c < z \/ d < u \/ e < v \/ f < w
                  => a + b + c + d + e + f < x + y + z + u + v + w
  OBVIOUS

\* The sums grow with each of their parts.
LEMMA SumsGrow ==
    ASSUME TInv, [Next]_vars
    PROVE  /\ OutDone \in Nat /\ OutDone' \in Nat /\ OutDone <= OutDone'
           /\ AllDone \in Nat /\ AllDone' \in Nat /\ AllDone <= AllDone'
           /\ \A t \in {"output", "screen"} : Done[t] < Done'[t] => OutDone < OutDone'
           /\ \A t \in Transfers : Done[t] < Done'[t] => AllDone < AllDone'
           /\ read < read' \/ written < written' => AllDone < AllDone'
<1>1. /\ Done["keys"] \in Nat /\ Done'["keys"] \in Nat /\ Done["keys"] <= Done'["keys"]
      /\ Done["input"] \in Nat /\ Done'["input"] \in Nat /\ Done["input"] <= Done'["input"]
      /\ Done["output"] \in Nat /\ Done'["output"] \in Nat /\ Done["output"] <= Done'["output"]
      /\ Done["screen"] \in Nat /\ Done'["screen"] \in Nat /\ Done["screen"] <= Done'["screen"]
  BY DoneGrows, TransferNames
<1>2. /\ read \in Nat /\ read' \in Nat /\ read <= read'
      /\ written \in Nat /\ written' \in Nat /\ written <= written'
  BY Monotone
<1>3. OutDone \in Nat /\ OutDone' \in Nat /\ AllDone \in Nat /\ AllDone' \in Nat
  BY <1>1, <1>2 DEF OutDone, AllDone
<1>4. /\ OutDone <= OutDone' /\ AllDone <= AllDone'
      /\ Done["output"] < Done'["output"] \/ Done["screen"] < Done'["screen"] => OutDone < OutDone'
      /\ Done["keys"] < Done'["keys"] => AllDone < AllDone'
      /\ Done["input"] < Done'["input"] => AllDone < AllDone'
      /\ Done["output"] < Done'["output"] => AllDone < AllDone'
      /\ Done["screen"] < Done'["screen"] => AllDone < AllDone'
      /\ read < read' \/ written < written' => AllDone < AllDone'
  BY <1>1, <1>2, SumGrows DEF OutDone, AllDone
<1>5. \A t \in {"output", "screen"} : Done[t] < Done'[t] => OutDone < OutDone'
  BY <1>4
<1>6. \A t \in Transfers : Done[t] < Done'[t] => AllDone < AllDone'
  <2> SUFFICES ASSUME NEW t \in Transfers, Done[t] < Done'[t] PROVE AllDone < AllDone'
    OBVIOUS
  <2>1. CASE t = "keys"
    BY <1>4, <2>1
  <2>2. CASE t = "input"
    BY <1>4, <2>2
  <2>3. CASE t = "output"
    BY <1>4, <2>3
  <2>4. CASE t = "screen"
    BY <1>4, <2>4
  <2>5. QED
    BY <2>1, <2>2, <2>3, <2>4, TransferNames
<1>7. QED
  BY <1>3, <1>4, <1>5, <1>6, Zenon

\* t can go on, and the output got as far as d; or all bytes did.
OutAt(t, d) == Both /\ OutDone = d /\ CanGoOn(t)
AllAt(t, d) == Both /\ cmd = "running" /\ AllDone = d /\ CanGoOn(t)

OutMoved(d) == OutDone > d \/ ~Both
AllMoved(d) == AllDone > d \/ ~Both \/ cmd = "exited"

LEMMA OutAtKept ==
    ASSUME TInv, [Next]_vars, NEW d \in Nat, NEW t \in {"output", "screen"}, OutAt(t, d)
    PROVE  OutAt(t, d)' \/ OutMoved(d)'
<1>1. t \in Transfers /\ Both /\ OutDone = d /\ CanGoOn(t)
  BY TransferNames DEF OutAt
<1>2. OutDone' = d \/ OutDone' > d
  BY <1>1, SumsGrow
<1>3. CASE Transfer(t)
  BY <1>1, <1>3, Moves, SumsGrow DEF OutMoved
<1>4. CASE (CanGoOn(t) /\ Both)' \/ ~Both'
  BY <1>2, <1>4 DEF OutAt, OutMoved
<1>5. QED
  BY <1>1, <1>3, <1>4, Keeps

LEMMA OutAtMoves ==
    ASSUME TInv, NEW d \in Nat, NEW t \in {"output", "screen"}, OutAt(t, d), <<Transfer(t)>>_vars
    PROVE  OutMoved(d)'
<1>1. t \in Transfers /\ Both /\ OutDone = d
  BY TransferNames DEF OutAt
<1>2. [Next]_vars
  BY <1>1 DEF Next
<1>3. QED
  BY <1>1, <1>2, Moves, SumsGrow DEF OutMoved

\* What cmd.exe has written and the screen does not show keeps moving, for any
\* sizes, and with whatever else goes on: from any state in which the output
\* got as far as d it gets further, unless the client or the session ends.
THEOREM OutputMoves ==
    FairSpec /\ []GuardsEnable =>
        \A d \in Nat : Both /\ OutDone = d /\ Len(put["screen"]) < written ~> OutMoved(d)
<1> SUFFICES ASSUME NEW d \in Nat
             PROVE  FairSpec /\ []GuardsEnable =>
                        (Both /\ OutDone = d /\ Len(put["screen"]) < written ~> OutMoved(d))
  OBVIOUS
<1>1. Fairness => TransferRuns("output") /\ TransferRuns("screen")
  BY TransferNames DEF Fairness
<1>2. /\ GuardsEnable /\ OutAt("output", d) => ENABLED <<Transfer("output")>>_vars
      /\ GuardsEnable /\ OutAt("screen", d) => ENABLED <<Transfer("screen")>>_vars
  <2>1. "output" \in Transfers /\ "screen" \in Transfers
    BY TransferNames
  <2>2. GuardsEnable => /\ OutAt("output", d) => CanRun("output")
                        /\ OutAt("screen", d) => CanRun("screen")
    BY <2>1 DEF GuardsEnable, OutAt
  <2>3. /\ CanRun("output") => ENABLED <<Transfer("output")>>_vars
        /\ CanRun("screen") => ENABLED <<Transfer("screen")>>_vars
    BY DEF CanRun
  <2>4. QED
    BY <2>2, <2>3
<1>3. TInv /\ (Both /\ OutDone = d /\ Len(put["screen"]) < written)
        => OutAt("output", d) \/ OutAt("screen", d)
  <2>1. TInv => written \in Nat
    BY Numbers DEF TInv
  <2>2. QED
    BY <2>1, OutputStuck DEF OutAt
<1>4. /\ TInv /\ [Next]_vars /\ OutAt("output", d) => OutAt("output", d)' \/ OutMoved(d)'
      /\ TInv /\ [Next]_vars /\ OutAt("screen", d) => OutAt("screen", d)' \/ OutMoved(d)'
  BY OutAtKept
<1>5. /\ TInv /\ OutAt("output", d) /\ <<Transfer("output")>>_vars => OutMoved(d)'
      /\ TInv /\ OutAt("screen", d) /\ <<Transfer("screen")>>_vars => OutMoved(d)'
  BY OutAtMoves
<1>6. FairSpec /\ []GuardsEnable => (OutAt("output", d) ~> OutMoved(d))
  BY <1>1, <1>2, <1>4, <1>5, TInvariance, PTL DEF FairSpec, Spec, TransferRuns
<1>7. FairSpec /\ []GuardsEnable => (OutAt("screen", d) ~> OutMoved(d))
  BY <1>1, <1>2, <1>4, <1>5, TInvariance, PTL DEF FairSpec, Spec, TransferRuns
<1>8. QED
  BY <1>3, <1>6, <1>7, TInvariance, PTL DEF FairSpec

\* cmd.exe is about to read or to write, and all bytes got as far as d.
ReadAt(d) == Both /\ AllDone = d /\ CmdCanRead
WriteAt(d) == Both /\ AllDone = d /\ CmdCanWrite

LEMMA CmdKept ==
    ASSUME [Next]_vars, cmd = "running"
    PROVE  cmd' = "running" \/ cmd' = "exited"
<1>1. CASE \E t \in Transfers : Transfer(t)
  BY <1>1
  DEF Transfer, Take, Put, Close, Fail, R!Take, R!Put, R!Close, R!Fail, shell
<1>2. QED
  BY <1>1
  DEF Next, ClientEnds, ClientQuits, ServerEnds, ShutdownFails, Breaks, Type, CmdReads,
      CmdWrites, CmdExits, vars, shell

LEMMA AllAtKept ==
    ASSUME TInv, [Next]_vars, NEW d \in Nat, NEW t \in Transfers, AllAt(t, d)
    PROVE  AllAt(t, d)' \/ AllMoved(d)'
<1>1. Both /\ AllDone = d /\ CanGoOn(t) /\ (cmd' = "running" \/ cmd' = "exited")
  BY CmdKept DEF AllAt
<1>2. AllDone' = d \/ AllDone' > d
  BY <1>1, SumsGrow
<1>3. CASE Transfer(t)
  BY <1>1, <1>3, Moves, SumsGrow DEF AllMoved
<1>4. CASE (CanGoOn(t) /\ Both)' \/ ~Both'
  BY <1>1, <1>2, <1>4 DEF AllAt, AllMoved
<1>5. QED
  BY <1>1, <1>3, <1>4, Keeps

LEMMA AllAtMoves ==
    ASSUME TInv, NEW d \in Nat, NEW t \in Transfers, AllAt(t, d), <<Transfer(t)>>_vars
    PROVE  AllMoved(d)'
<1>1. Both /\ AllDone = d
  BY DEF AllAt
<1>2. [Next]_vars
  BY DEF Next
<1>3. QED
  BY <1>1, <1>2, Moves, SumsGrow DEF AllMoved

\* cmd.exe's own step moves a byte, and takes the place of nobody else's.
LEMMA CmdMoves ==
    ASSUME TInv, NEW d \in Nat, Both, AllDone = d, CmdReads \/ CmdWrites
    PROVE  AllMoved(d)'
<1>1. read < read' \/ written < written'
  BY Numbers DEF TInv, CmdReads, CmdWrites
<1>2. [Next]_vars
  BY DEF Next
<1>3. QED
  BY <1>1, <1>2, SumsGrow DEF AllMoved

LEMMA CmdAtKept ==
    ASSUME TInv, [Next]_vars, NEW d \in Nat, Both, AllDone = d, CmdCanRead \/ CmdCanWrite
    PROVE  \/ Both' /\ AllDone' = d /\ (CmdCanRead => CmdCanRead') /\ (CmdCanWrite => CmdCanWrite')
           \/ AllMoved(d)'
<1>1. CASE CmdReads \/ CmdWrites
  BY <1>1, CmdMoves
<1>2. CASE ~(CmdReads \/ CmdWrites)
  <2>1. UNCHANGED <<read, owed, written>>
    <3>1. CASE \E t \in Transfers : Transfer(t)
      BY <3>1 DEF Transfer, Take, Put, Close, Fail, R!Take, R!Put, R!Close, R!Fail, shell
    <3>2. QED
      BY <1>2, <3>1
      DEF Next, ClientEnds, ClientQuits, ServerEnds, Breaks, Type, CmdExits, vars, shell
  <2>2. CASE cmd' = "running" /\ Both'
    <3>1. /\ Len(put["input"]) \in Nat /\ Len(put'["input"]) \in Nat
          /\ Len(put["input"]) <= Len(put'["input"])
          /\ got["output"] \in Nat /\ got'["output"] \in Nat /\ got["output"] <= got'["output"]
          /\ read \in Nat /\ written \in Nat /\ PipeSize \in Nat
      BY Monotone, SessionAssumption, TransferNames
    <3>2. read < Len(put["input"]) => read < Len(put'["input"])
      BY <3>1
    <3>3. written < got["output"] + PipeSize => written < got'["output"] + PipeSize
      BY <3>1
    <3>4. AllDone' = d \/ AllDone' > d
      BY SumsGrow
    <3>5. QED
      BY <2>1, <2>2, <3>2, <3>3, <3>4 DEF CmdCanRead, CmdCanWrite, CmdAlive, Both, AllMoved
  <2>3. CASE ~(cmd' = "running" /\ Both')
    BY <2>3, CmdKept DEF CmdCanRead, CmdCanWrite, CmdAlive, Both, AllMoved
  <2>4. QED
    BY <2>2, <2>3
<1>3. QED
  BY <1>1, <1>2

\* While a key is under way some byte keeps moving: what was typed, or what
\* cmd.exe has to write before it reads on. From any state with a key that was
\* not read, and with d bytes moved so far, more are moved, for any sizes,
\* unless a process ends (RemoteCMD.cpp:91, 136).
THEOREM KeysMove ==
    FairSpec /\ []GuardsEnable =>
        \A d \in Nat :
            Both /\ cmd = "running" /\ AllDone = d /\ read < typed ~> AllMoved(d)
<1> SUFFICES ASSUME NEW d \in Nat
             PROVE  FairSpec /\ []GuardsEnable =>
                        (Both /\ cmd = "running" /\ AllDone = d /\ read < typed ~> AllMoved(d))
  OBVIOUS
<1>1. Fairness => /\ TransferRuns("keys") /\ TransferRuns("input")
                  /\ TransferRuns("output") /\ TransferRuns("screen") /\ CmdRuns
  BY TransferNames DEF Fairness
<1>2. /\ GuardsEnable /\ AllAt("keys", d) => ENABLED <<Transfer("keys")>>_vars
      /\ GuardsEnable /\ AllAt("input", d) => ENABLED <<Transfer("input")>>_vars
      /\ GuardsEnable /\ AllAt("output", d) => ENABLED <<Transfer("output")>>_vars
      /\ GuardsEnable /\ AllAt("screen", d) => ENABLED <<Transfer("screen")>>_vars
  <2>1. {"keys", "input", "output", "screen"} \subseteq Transfers
    BY TransferNames
  <2>2. GuardsEnable => /\ AllAt("keys", d) => CanRun("keys")
                        /\ AllAt("input", d) => CanRun("input")
                        /\ AllAt("output", d) => CanRun("output")
                        /\ AllAt("screen", d) => CanRun("screen")
    BY <2>1 DEF GuardsEnable, AllAt
  <2>3. /\ CanRun("keys") => ENABLED <<Transfer("keys")>>_vars
        /\ CanRun("input") => ENABLED <<Transfer("input")>>_vars
        /\ CanRun("output") => ENABLED <<Transfer("output")>>_vars
        /\ CanRun("screen") => ENABLED <<Transfer("screen")>>_vars
    BY DEF CanRun
  <2>4. QED
    BY <2>2, <2>3
<1>3. /\ GuardsEnable /\ ReadAt(d) => ENABLED <<CmdReads>>_vars
      /\ GuardsEnable /\ WriteAt(d) => ENABLED <<CmdWrites>>_vars
  BY DEF GuardsEnable, ReadAt, WriteAt
<1>4. TInv /\ (Both /\ cmd = "running" /\ AllDone = d /\ read < typed)
        => \/ AllAt("keys", d) \/ AllAt("input", d) \/ AllAt("output", d) \/ AllAt("screen", d)
           \/ ReadAt(d) \/ WriteAt(d)
  <2> SUFFICES ASSUME TInv, Both, cmd = "running", AllDone = d, read < typed
               PROVE  (\E t \in Transfers : CanGoOn(t)) \/ CmdCanRead \/ CmdCanWrite
    BY TransferNames DEF AllAt, ReadAt, WriteAt
  <2>1. read \in Nat /\ typed \in Nat
    BY Numbers DEF TInv
  <2>2. read # typed
    BY <2>1
  <2>3. QED
    BY <2>2, KeysStuck
<1>5. /\ TInv /\ [Next]_vars /\ AllAt("keys", d) => AllAt("keys", d)' \/ AllMoved(d)'
      /\ TInv /\ [Next]_vars /\ AllAt("input", d) => AllAt("input", d)' \/ AllMoved(d)'
      /\ TInv /\ [Next]_vars /\ AllAt("output", d) => AllAt("output", d)' \/ AllMoved(d)'
      /\ TInv /\ [Next]_vars /\ AllAt("screen", d) => AllAt("screen", d)' \/ AllMoved(d)'
  BY AllAtKept, TransferNames
<1>6. /\ TInv /\ AllAt("keys", d) /\ <<Transfer("keys")>>_vars => AllMoved(d)'
      /\ TInv /\ AllAt("input", d) /\ <<Transfer("input")>>_vars => AllMoved(d)'
      /\ TInv /\ AllAt("output", d) /\ <<Transfer("output")>>_vars => AllMoved(d)'
      /\ TInv /\ AllAt("screen", d) /\ <<Transfer("screen")>>_vars => AllMoved(d)'
  BY AllAtMoves, TransferNames
<1>7. /\ TInv /\ [Next]_vars /\ ReadAt(d) => ReadAt(d)' \/ AllMoved(d)'
      /\ TInv /\ [Next]_vars /\ WriteAt(d) => WriteAt(d)' \/ AllMoved(d)'
  BY CmdAtKept DEF ReadAt, WriteAt
<1>8. /\ TInv /\ ReadAt(d) /\ <<CmdReads>>_vars => AllMoved(d)'
      /\ TInv /\ WriteAt(d) /\ <<CmdWrites>>_vars => AllMoved(d)'
  BY CmdMoves DEF ReadAt, WriteAt
<1>9. FairSpec /\ []GuardsEnable => (AllAt("keys", d) ~> AllMoved(d))
  BY <1>1, <1>2, <1>5, <1>6, TInvariance, PTL DEF FairSpec, Spec, TransferRuns
<1>10. FairSpec /\ []GuardsEnable => (AllAt("input", d) ~> AllMoved(d))
  BY <1>1, <1>2, <1>5, <1>6, TInvariance, PTL DEF FairSpec, Spec, TransferRuns
<1>11. FairSpec /\ []GuardsEnable => (AllAt("output", d) ~> AllMoved(d))
  BY <1>1, <1>2, <1>5, <1>6, TInvariance, PTL DEF FairSpec, Spec, TransferRuns
<1>12. FairSpec /\ []GuardsEnable => (AllAt("screen", d) ~> AllMoved(d))
  BY <1>1, <1>2, <1>5, <1>6, TInvariance, PTL DEF FairSpec, Spec, TransferRuns
<1>13. FairSpec /\ []GuardsEnable => (ReadAt(d) ~> AllMoved(d))
  BY <1>1, <1>3, <1>7, <1>8, TInvariance, PTL DEF FairSpec, Spec, CmdRuns
<1>14. FairSpec /\ []GuardsEnable => (WriteAt(d) ~> AllMoved(d))
  BY <1>1, <1>3, <1>7, <1>8, TInvariance, PTL DEF FairSpec, Spec, CmdRuns
<1>15. QED
  BY <1>4, <1>9, <1>10, <1>11, <1>12, <1>13, <1>14, TInvariance, PTL DEF FairSpec

-----------------------------------------------------------------------------
\* When the client, the session or the connection is gone, the other end
\* unravels: it has a step to take, or waits for cmd.exe or for the user.

\* How a transfer may end: the one that reads the connection is closed by it,
\* the one that sends to it fails; and cmd.exe and the processes go one way.
KindInv ==
    /\ \A t \in {"input", "screen"} : status[t] \in {"open", "closed"}
    /\ \A t \in {"keys", "output"} : status[t] \in {"open", "failed"}
    /\ cmd \in {"running", "exited"}
    /\ client \in {"running", "over"} /\ server \in {"running", "over"}

CanMove(t) == CanGoOn(t) \/ CanEnd(t)

\* Until its transfers are over or cmd.exe has exited, a session whose client
\* is gone can move one of them, or cmd.exe can, unless that is idle or blocked;
\* a client whose session is gone can move one, unless the user is idle.
Unravels ==
    /\ client = "over" \/ broken =>
          server = "over" \/ RelayDone \/ CmdCanRead \/ CmdCanWrite \/ CmdIdle \/ CmdBlocked
          \/ \E t \in ServerTransfers : CanMove(t)
    /\ server = "over" \/ broken =>
          client = "over" \/ (\A t \in ClientTransfers : status[t] # "open") \/ UserIdle
          \/ \E t \in ClientTransfers : CanMove(t)

LEMMA KindStep == KindInv /\ TypeInv /\ [Next]_vars => KindInv'
<1> SUFFICES ASSUME KindInv, TypeInv, [Next]_vars PROVE KindInv'
  OBVIOUS
<1>1. ASSUME NEW t \in Transfers, Transfer(t) PROVE KindInv'
  <2>1. CASE Take(t) \/ Put(t)
    BY <2>1 DEF Take, Put, R!Take, R!Put, shell, KindInv
  <2>2. CASE Close(t)
    <3>1. status' = [status EXCEPT ![t] = "closed"] /\ t \in {"screen", "input"}
          /\ UNCHANGED <<cmd, client, server>>
      BY <2>2 DEF Close, R!Close, shell
    <3>2. QED
      BY <3>1, TransferNames DEF KindInv, TypeInv
  <2>3. CASE Fail(t)
    <3>1. status' = [status EXCEPT ![t] = "failed"] /\ t \in {"keys", "output"}
          /\ UNCHANGED <<cmd, client, server>>
      BY <2>3 DEF Fail, MayFail, R!Fail, shell
    <3>2. QED
      BY <3>1, TransferNames DEF KindInv, TypeInv
  <2>4. QED
    BY <1>1, <2>1, <2>2, <2>3 DEF Transfer
<1>2. CASE ~\E t \in Transfers : Transfer(t)
  <2>1. status' = status /\ (cmd' = cmd \/ cmd' = "exited")
        /\ client' \in {client, "over"} /\ server' \in {server, "over"}
    BY <1>2
    DEF Next, ClientEnds, ClientQuits, ServerEnds, ShutdownFails, Breaks, Type, CmdReads,
        CmdWrites, CmdExits, vars, relay, shell
  <2>2. QED
    BY <2>1 DEF KindInv
<1>3. QED
  BY <1>1, <1>2

LEMMA KindInvariance == Spec => []KindInv
<1>1. Init => KindInv
  BY TransferNames DEF Init, R!Init, KindInv
<1>2. IInv => TypeInv
  BY DEF IInv
<1>3. QED
  BY <1>1, <1>2, KindStep, Invariance, PTL DEF Spec

\* While there is input for cmd.exe, nothing but a full pipe can hold it up.
LEMMA CmdMayMove ==
    ASSUME IInv, KindInv, cmd = "running", server = "running", read < Len(put["input"])
    PROVE  CmdCanRead \/ CmdCanWrite \/ (owed > 0 /\ written = got["output"] + PipeSize)
<1>1. owed \in Nat /\ written \in Nat /\ got["output"] \in Nat /\ PipeSize \in Nat
  BY Numbers
<1>2. written <= got["output"] + PipeSize
  BY Order
<1>3. QED
  BY <1>1, <1>2 DEF CmdCanRead, CmdCanWrite, CmdAlive

LEMMA SessionUnravelsHere ==
    ASSUME TInv, KindInv, client = "over" \/ broken, server = "running", ~RelayDone
    PROVE  \/ CmdCanRead \/ CmdCanWrite \/ CmdIdle \/ CmdBlocked
           \/ CanMove("input") \/ CanMove("output")
<1>1. IInv /\ cmd = "running" /\ "input" \in ServerTransfers /\ "output" \in ServerTransfers
  BY TransferNames DEF TInv, KindInv, RelayDone
<1>2. /\ PeerOver("input") /\ PeerOver("output")
      /\ Running("input") /\ Running("output")
  BY TransferNames DEF PeerOver, Running
<1>3. /\ Len(put["input"]) \in Nat /\ got["input"] \in Nat /\ Len(put["keys"]) \in Nat
      /\ Len(put["output"]) \in Nat /\ got["output"] \in Nat
      /\ read \in Nat /\ written \in Nat /\ owed \in Nat
      /\ PipeSize \in Nat /\ PipeSize > 0
  BY <1>1, Numbers
<1>4. /\ read <= Len(put["input"]) /\ Len(put["input"]) <= got["input"]
      /\ got["input"] <= Len(put["keys"])
      /\ Len(put["output"]) <= got["output"] /\ got["output"] <= written
  BY <1>1, Order
<1>5. CASE status["output"] = "open"
  <2>1. CASE Len(put["output"]) < got["output"]
    BY <1>2, <1>5, <2>1 DEF CanMove, CanEnd, MayFail
  <2>2. CASE Len(put["output"]) = got["output"] /\ got["output"] < written
    BY <1>2, <1>5, <2>2 DEF CanMove, CanGoOn, Given
  <2>3. CASE got["output"] = written
    <3>1. owed > 0 => CmdCanWrite
      BY <1>1, <1>3, <2>3 DEF CmdCanWrite, CmdAlive
    <3>2. owed = 0 => CmdIdle \/ CmdCanRead
      BY <1>1, <1>3, <1>4 DEF CmdIdle, CmdCanRead, CmdAlive
    <3>3. QED
      BY <1>3, <3>1, <3>2
  <2>4. QED
    BY <1>3, <1>4, <2>1, <2>2, <2>3
<1>6. CASE status["output"] = "failed" /\ status["input"] = "open"
  <2>1. CASE Len(put["input"]) = got["input"]
    <3>1. got["input"] = Len(put["keys"]) => CanEnd("input")
      BY <1>2, <1>6, <2>1 DEF CanEnd, AllTaken, Given
    <3>2. got["input"] < Len(put["keys"]) => CanGoOn("input")
      BY <1>2, <1>6, <2>1 DEF CanGoOn, Given
    <3>3. QED
      BY <1>3, <1>4, <3>1, <3>2 DEF CanMove
  <2>2. CASE Len(put["input"]) < got["input"] /\ Len(put["input"]) < read + PipeSize
    BY <1>2, <1>6, <2>2 DEF CanMove, CanGoOn, Drained, Size
  <2>3. CASE Len(put["input"]) >= read + PipeSize
    <3>1. read < Len(put["input"])
      BY <1>3, <2>3
    <3>2. QED
      BY <1>1, <1>6, <3>1, CmdMayMove DEF CmdBlocked
  <2>4. QED
    BY <1>3, <1>4, <2>1, <2>2, <2>3
<1>7. QED
  BY <1>1, <1>5, <1>6, TransferNames DEF KindInv, RelayDone

LEMMA ClientUnravelsHere ==
    ASSUME TInv, KindInv, server = "over" \/ broken, client = "running", ~UserIdle,
           \E t \in ClientTransfers : status[t] = "open"
    PROVE  CanMove("screen") \/ CanMove("keys")
<1>1. IInv
  BY DEF TInv
<1>2. /\ PeerOver("screen") /\ PeerOver("keys")
      /\ Running("screen") /\ Running("keys")
  BY TransferNames DEF PeerOver, Running
<1>3. /\ Len(put["screen"]) \in Nat /\ got["screen"] \in Nat /\ Len(put["output"]) \in Nat
      /\ Len(put["keys"]) \in Nat /\ got["keys"] \in Nat /\ typed \in Nat
  BY <1>1, Numbers
<1>4. /\ Len(put["screen"]) <= got["screen"] /\ got["screen"] <= Len(put["output"])
      /\ Len(put["keys"]) <= got["keys"] /\ got["keys"] <= typed
  BY <1>1, Order
<1>5. CASE status["screen"] = "open"
  <2>1. Len(put["screen"]) < got["screen"] => CanGoOn("screen")
    BY <1>2, <1>5 DEF CanGoOn
  <2>2. Len(put["screen"]) = got["screen"] /\ got["screen"] < Len(put["output"])
            => CanGoOn("screen")
    BY <1>2, <1>5 DEF CanGoOn, Given
  <2>3. Len(put["screen"]) = got["screen"] /\ got["screen"] = Len(put["output"])
            => CanEnd("screen")
    BY <1>2, <1>5 DEF CanEnd, AllTaken, Given
  <2>4. QED
    BY <1>3, <1>4, <2>1, <2>2, <2>3 DEF CanMove
<1>6. CASE status["keys"] = "open"
  <2>1. Len(put["keys"]) < got["keys"] => CanEnd("keys")
    BY <1>2, <1>6 DEF CanEnd, MayFail
  <2>2. Len(put["keys"]) = got["keys"] /\ got["keys"] < typed => CanGoOn("keys")
    BY <1>2, <1>6 DEF CanGoOn, Given
  <2>3. QED
    BY <1>3, <1>4, <2>1, <2>2 DEF CanMove, UserIdle
<1>7. QED
  BY <1>5, <1>6, TransferNames

\* What is left of a session unravels, for any sizes: nothing in it waits for
\* the connection, for the other direction, or for bytes that nobody will send
\* (RemoteCMD.cpp:91, 136).
THEOREM UnravelsThm == Spec => []Unravels
<1>1. TInv /\ KindInv => Unravels
  <2> SUFFICES ASSUME TInv, KindInv PROVE Unravels
    OBVIOUS
  <2>1. client \in {"running", "over"} /\ server \in {"running", "over"}
    BY DEF KindInv
  <2>2. QED
    BY <2>1, SessionUnravelsHere, ClientUnravelsHere, TransferNames DEF Unravels
<1>2. QED
  BY <1>1, TInvariance, KindInvariance, PTL
-----------------------------------------------------------------------------
\* What is left of a session does unravel. Bytes that move and transfers that
\* end are counted: in a session those of cmd.exe too.

Over(t) == IF status[t] = "open" THEN 0 ELSE 1
Count == [t \in Transfers |-> Done[t] + Over(t)]
ServerDone == Count["input"] + Count["output"] + read + written
ClientDone == Count["keys"] + Count["screen"]

\* A transfer's step moves bytes of its own or ends it; no step takes back.
LEMMA StepCounts ==
    ASSUME TInv, NEW t \in Transfers, Transfer(t)
    PROVE  /\ Count[t] \in Nat /\ Count'[t] \in Nat /\ Count[t] < Count'[t]
           /\ \A o \in Transfers \ {t} :
                 got'[o] = got[o] /\ put'[o] = put[o] /\ status'[o] = status[o]
           /\ UNCHANGED <<typed, shell, client, server, broken>>
<1>1. IInv /\ got[t] \in Nat /\ Len(put[t]) \in Nat /\ status[t] = "open"
  BY DEF TInv, IInv, TypeInv, Transfer, Take, Put, Close, Fail, R!Take, R!Put, R!Close, R!Fail
<1>2. Count[t] = got[t] + Len(put[t]) + Over(t)
      /\ Count'[t] = got'[t] + Len(put'[t]) + Over(t)'
  BY DEF Count, Done
<1>3. CASE Take(t)
  <2>1. PICK n \in 1..BufSize : got' = [got EXCEPT ![t] = @ + n]
    BY <1>3 DEF Take, R!Take
  <2>2. n \in Nat /\ n > 0
    BY SessionAssumption
  <2>3. got'[t] = got[t] + n /\ \A o \in Transfers \ {t} : got'[o] = got[o]
    BY <2>1 DEF TInv, IInv, TypeInv
  <2>4. UNCHANGED <<put, status, typed, shell, client, server, broken>>
    BY <1>3 DEF Take, R!Take
  <2>5. QED
    BY <1>1, <1>2, <2>2, <2>3, <2>4 DEF Over
<1>4. CASE Put(t)
  <2>1. /\ \A o \in Transfers \ {t} : put'[o] = put[o]
        /\ Len(put'[t]) \in Nat /\ Len(put'[t]) > Len(put[t])
    BY <1>1, <1>4, PutAdds
  <2>2. UNCHANGED <<got, status, typed, shell, client, server, broken>>
    BY <1>4 DEF Put, R!Put
  <2>3. Over(t) = 0 /\ Over(t)' = 0
    BY <1>1, <2>2 DEF Over
  <2>4. Count[t] \in Nat /\ Count'[t] \in Nat /\ Count[t] < Count'[t]
    BY <1>1, <1>2, <2>1, <2>2, <2>3
  <2>5. QED
    BY <2>1, <2>2, <2>4
<1>5. CASE Close(t) \/ Fail(t)
  <2>1. UNCHANGED <<got, put, typed, shell, client, server, broken>>
    BY <1>5 DEF Close, Fail, R!Close, R!Fail
  <2>2. PICK e \in {"closed", "failed"} : status' = [status EXCEPT ![t] = e]
    BY <1>5 DEF Close, Fail, R!Close, R!Fail
  <2>3. status'[t] = e /\ \A o \in Transfers \ {t} : status'[o] = status[o]
    BY <2>2 DEF TInv, IInv, TypeInv
  <2>4. Over(t) = 0 /\ Over(t)' = 1
    BY <1>1, <2>3 DEF Over
  <2>5. QED
    BY <1>1, <1>2, <2>1, <2>3, <2>4
<1>6. QED
  BY <1>3, <1>4, <1>5 DEF Transfer

LEMMA CountGrows ==
    ASSUME TInv, [Next]_vars, NEW t \in Transfers
    PROVE  /\ Count[t] \in Nat /\ Count'[t] \in Nat /\ Count[t] <= Count'[t]
           /\ status[t] # "open" => status'[t] # "open"
<1>1. Done[t] \in Nat /\ Over(t) \in Nat /\ Count[t] = Done[t] + Over(t)
  BY DoneGrows DEF Count, Over
<1>2. CASE Transfer(t)
  <2>1. status[t] = "open"
    BY <1>2 DEF Transfer, Take, Put, Close, Fail, R!Take, R!Put, R!Close, R!Fail
  <2>2. QED
    BY <1>2, <2>1, StepCounts
<1>3. CASE ~Transfer(t)
  <2>1. got'[t] = got[t] /\ put'[t] = put[t] /\ status'[t] = status[t]
    <3>1. CASE \E o \in Transfers \ {t} : Transfer(o)
      BY <3>1, StepCounts
    <3>2. CASE ~\E o \in Transfers : Transfer(o)
      BY <3>2
      DEF Next, ClientEnds, ClientQuits, ServerEnds, Breaks, Type, CmdReads, CmdWrites, CmdExits,
          vars, relay, shell
    <3>3. QED
      BY <1>3, <3>1, <3>2
  <2>2. Count'[t] = Count[t]
    BY <2>1 DEF Count, Done, Over
  <2>3. QED
    BY <1>1, <2>1, <2>2
<1>4. QED
  BY <1>2, <1>3

LEMMA FourGrow ==
    ASSUME NEW a \in Nat, NEW b \in Nat, NEW c \in Nat, NEW d \in Nat,
           NEW x \in Nat, NEW y \in Nat, NEW z \in Nat, NEW w \in Nat,
           a <= x, b <= y, c <= z, d <= w
    PROVE  /\ a + b <= x + y /\ (a < x \/ b < y => a + b < x + y)
           /\ a + b + c + d <= x + y + z + w
           /\ a < x \/ b < y \/ c < z \/ d < w => a + b + c + d < x + y + z + w
  OBVIOUS

LEMMA WorkGrows ==
    ASSUME TInv, [Next]_vars
    PROVE  /\ ServerDone \in Nat /\ ServerDone' \in Nat /\ ServerDone <= ServerDone'
           /\ ClientDone \in Nat /\ ClientDone' \in Nat /\ ClientDone <= ClientDone'
           /\ (\E t \in ServerTransfers : Transfer(t)) \/ CmdReads \/ CmdWrites
                  => ServerDone < ServerDone'
           /\ (\E t \in ClientTransfers : Transfer(t)) => ClientDone < ClientDone'
<1>1. /\ Count["keys"] \in Nat /\ Count'["keys"] \in Nat /\ Count["keys"] <= Count'["keys"]
      /\ Count["input"] \in Nat /\ Count'["input"] \in Nat /\ Count["input"] <= Count'["input"]
      /\ Count["output"] \in Nat /\ Count'["output"] \in Nat
      /\ Count["output"] <= Count'["output"]
      /\ Count["screen"] \in Nat /\ Count'["screen"] \in Nat
      /\ Count["screen"] <= Count'["screen"]
  BY CountGrows, TransferNames
<1>2. /\ read \in Nat /\ read' \in Nat /\ read <= read'
      /\ written \in Nat /\ written' \in Nat /\ written <= written'
  BY Monotone
<1>3. /\ ServerDone <= ServerDone' /\ ClientDone <= ClientDone'
      /\ Count["input"] < Count'["input"] \/ Count["output"] < Count'["output"]
            \/ read < read' \/ written < written' => ServerDone < ServerDone'
      /\ Count["keys"] < Count'["keys"] \/ Count["screen"] < Count'["screen"]
            => ClientDone < ClientDone'
  BY <1>1, <1>2, FourGrow DEF ServerDone, ClientDone
<1>4. CmdReads \/ CmdWrites => read < read' \/ written < written'
  BY <1>2 DEF CmdReads, CmdWrites
<1>5. /\ Transfer("keys") => Count["keys"] < Count'["keys"]
      /\ Transfer("input") => Count["input"] < Count'["input"]
      /\ Transfer("output") => Count["output"] < Count'["output"]
      /\ Transfer("screen") => Count["screen"] < Count'["screen"]
  BY StepCounts, TransferNames
<1>6. ServerDone \in Nat /\ ServerDone' \in Nat /\ ClientDone \in Nat /\ ClientDone' \in Nat
  BY <1>1, <1>2 DEF ServerDone, ClientDone
<1>7. (\E t \in ServerTransfers : Transfer(t)) => Transfer("input") \/ Transfer("output")
  BY TransferNames, Zenon
<1>8. (\E t \in ClientTransfers : Transfer(t)) => Transfer("keys") \/ Transfer("screen")
  BY TransferNames, Zenon
<1>9. QED
  BY <1>3, <1>4, <1>5, <1>6, <1>7, <1>8

\* The other end does not come back.
LEMMA GoneForGood ==
    ASSUME [Next]_vars
    PROVE  /\ client = "over" => client' = "over"
           /\ server = "over" => server' = "over"
           /\ broken => broken'
<1>1. CASE \E t \in Transfers : Transfer(t)
  <2>1. UNCHANGED <<client, server, broken>>
    BY <1>1 DEF Transfer, Take, Put, Close, Fail
  <2>2. QED
    BY <2>1, Zenon
<1>2. CASE ~\E t \in Transfers : Transfer(t)
  BY <1>2
  DEF Next, ClientEnds, ClientQuits, ServerEnds, Breaks, Type, CmdReads, CmdWrites, CmdExits,
      vars, shell
<1>3. QED
  BY <1>1, <1>2

\* A process that is over takes no step.
LEMMA Rests ==
    ASSUME TInv, [Next]_vars, NEW t \in Transfers, ~Running(t)
    PROVE  got'[t] = got[t] /\ put'[t] = put[t] /\ status'[t] = status[t]
<1>1. ~Transfer(t)
  BY DEF Transfer, Take, Put, Close, Fail
<1>2. CASE \E o \in Transfers \ {t} : Transfer(o)
  BY <1>2, StepCounts
<1>3. CASE ~\E o \in Transfers : Transfer(o)
  BY <1>3
  DEF Next, ClientEnds, ClientQuits, ServerEnds, Breaks, Type, CmdReads, CmdWrites, CmdExits,
      vars, relay, shell
<1>4. QED
  BY <1>1, <1>2, <1>3

LEMMA ResetStays ==
    ASSUME TInv, [Next]_vars, NEW t \in {"input", "screen"}, PeerOver(t), Reset(t)
    PROVE  Reset(t)'
<1> DEFINE other == IF t = "screen" THEN "input" ELSE "screen"
<1>1. CASE broken
  BY <1>1, GoneForGood DEF Reset
<1>2. CASE ~broken
  <2>1. other \in Transfers /\ ~Running(other)
    BY <1>2, TransferNames DEF PeerOver, Running, TInv, IInv, TypeInv
  <2>2. got'[other] = got[other] /\ got[other] \in Nat
    BY <2>1, Rests DEF TInv, IInv, TypeInv
  <2>3. Given(other) \in Nat /\ Given(other)' \in Nat /\ Given(other) <= Given(other)'
    BY <2>1, Grown
  <2>4. Given(other) > got[other]
    BY <1>2 DEF Reset
  <2>5. Given(other)' > got'[other]
    BY <2>2, <2>3, <2>4
  <2>6. QED
    BY <2>5 DEF Reset
<1>3. QED
  BY <1>1, <1>2

\* What a transfer can do stays possible until it does it, or its process ends.
LEMMA MoveKept ==
    ASSUME TInv, [Next]_vars, NEW t \in Transfers, PeerOver(t), CanMove(t)
    PROVE  Transfer(t) \/ CanMove(t)' \/ ~Running(t)'
<1> SUFFICES ASSUME ~Transfer(t), Running(t)' PROVE CanMove(t)'
  OBVIOUS
<1>1. got'[t] = got[t] /\ put'[t] = put[t] /\ status'[t] = status[t] /\ Size(t)' = Size(t)
  <2>1. CASE \E o \in Transfers \ {t} : Transfer(o)
    BY <2>1, StepCounts DEF Size
  <2>2. CASE ~\E o \in Transfers : Transfer(o)
    BY <2>2
    DEF Next, ClientEnds, ClientQuits, ServerEnds, Breaks, Type, CmdReads, CmdWrites, CmdExits,
        vars, relay, shell, Size
  <2>3. QED
    BY <2>1, <2>2
<1>2. /\ Given(t) \in Nat /\ Given(t)' \in Nat /\ Given(t) <= Given(t)'
      /\ Drained(t) \in Nat /\ Drained(t)' \in Nat /\ Drained(t) <= Drained(t)'
      /\ got[t] \in Nat /\ Len(put[t]) \in Nat /\ Size(t) \in Nat
  BY Grown, Monotone, SessionAssumption DEF Size
<1>3. PeerOver(t)'
  BY GoneForGood DEF PeerOver
<1>4. CASE CanGoOn(t)
  <2>1. got[t] < Given(t) => got[t] < Given(t)'
    BY <1>2
  <2>2. Len(put[t]) < Drained(t) + Size(t) => Len(put[t]) < Drained(t)' + Size(t)
    BY <1>2
  <2>3. QED
    BY <1>1, <1>4, <2>1, <2>2 DEF CanGoOn, CanMove
<1>5. CASE CanEnd(t) /\ MayFail(t)
  BY <1>1, <1>3, <1>5 DEF CanEnd, MayFail, CanMove
<1>6. CASE CanEnd(t) /\ ~MayFail(t)
  <2>1. /\ t \in {"screen", "input"} /\ Len(put[t]) = got[t] /\ status[t] = "open"
        /\ AllTaken(t) \/ Reset(t)
    BY <1>6 DEF CanEnd
  <2>2. CASE Reset(t)
    <3>1. Reset(t)'
      BY <2>1, <2>2, ResetStays
    <3>2. QED
      BY <1>1, <1>3, <2>1, <3>1 DEF CanEnd, CanMove
  <2>3. CASE got[t] = Given(t) /\ Given(t)' = Given(t)
    <3>1. AllTaken(t)'
      BY <1>1, <2>3 DEF AllTaken
    <3>2. QED
      BY <1>1, <1>3, <2>1, <3>1 DEF CanEnd, CanMove
  <2>4. CASE got[t] = Given(t) /\ Given(t)' # Given(t)
    <3>1. got'[t] < Given(t)'
      BY <1>1, <1>2, <2>4
    <3>2. QED
      BY <1>1, <2>1, <3>1 DEF CanGoOn, CanMove
  <2>5. QED
    BY <2>1, <2>2, <2>3, <2>4 DEF AllTaken
<1>7. QED
  BY <1>4, <1>5, <1>6 DEF CanMove

\* What is left of a session, with d of its bytes moved and transfers ended:
\* a transfer of it can move, cmd.exe can, or handle() can go on after run().
SessionAt(d) == (client = "over" \/ broken) /\ server = "running" /\ ServerDone = d
SMoveAt(t, d) == SessionAt(d) /\ CanMove(t)
SReadAt(d) == SessionAt(d) /\ CmdCanRead
SWriteAt(d) == SessionAt(d) /\ CmdCanWrite
SEndAt(d) == SessionAt(d) /\ RelayDone

SessionMoved(d) == server = "over" \/ CmdIdle \/ CmdBlocked \/ ServerDone > d

LEMMA SessionAtKept ==
    ASSUME TInv, KindInv, [Next]_vars, NEW d \in Nat, SessionAt(d), KindInv'
    PROVE  SessionMoved(d)' \/ SessionAt(d)'
<1>1. (client = "over" \/ broken)'
  BY GoneForGood, Zenon DEF SessionAt
<1>2. ServerDone' = d \/ ServerDone' > d
  BY WorkGrows DEF SessionAt
<1>3. server' \in {"running", "over"}
  BY DEF KindInv
<1>4. QED
  BY <1>1, <1>2, <1>3 DEF SessionAt, SessionMoved

LEMMA SMoveKept ==
    ASSUME TInv, KindInv, [Next]_vars, KindInv', NEW d \in Nat, NEW t \in ServerTransfers,
           SMoveAt(t, d)
    PROVE  SMoveAt(t, d)' \/ SessionMoved(d)'
<1>1. SessionAt(d) /\ CanMove(t) /\ t \in Transfers /\ t \notin ClientTransfers
  BY TransferNames DEF SMoveAt
<1>2. PeerOver(t) /\ (Running(t)' <=> server' = "running")
  BY <1>1 DEF SessionAt, PeerOver, Running
<1>3. CASE Transfer(t)
  <2>1. ServerDone' > d
    BY <1>1, <1>3, WorkGrows DEF SessionAt
  <2>2. QED
    BY <2>1 DEF SessionMoved
<1>4. CASE CanMove(t)' \/ ~Running(t)'
  BY <1>1, <1>2, <1>4, SessionAtKept DEF SMoveAt, SessionAt
<1>5. QED
  BY <1>1, <1>2, <1>3, <1>4, MoveKept

LEMMA SEndKept ==
    ASSUME TInv, KindInv, [Next]_vars, KindInv', NEW d \in Nat, SEndAt(d)
    PROVE  SEndAt(d)' \/ SessionMoved(d)'
<1>1. cmd = "exited" => cmd' = "exited"
  <2>1. CASE \E t \in Transfers : Transfer(t)
    BY <2>1 DEF Transfer, Take, Put, Close, Fail, R!Take, R!Put, R!Close, R!Fail, shell
  <2>2. QED
    BY <2>1
    DEF Next, ClientEnds, ClientQuits, ServerEnds, ShutdownFails, Breaks, Type, CmdReads,
        CmdWrites, CmdExits, vars, shell
<1>2. \A t \in ServerTransfers : status[t] # "open" => status'[t] # "open"
  BY CountGrows, TransferNames
<1>3. RelayDone'
  BY <1>1, <1>2 DEF SEndAt, RelayDone
<1>4. QED
  BY <1>3, SessionAtKept DEF SEndAt

LEMMA SCmdKept ==
    ASSUME TInv, KindInv, [Next]_vars, KindInv', NEW d \in Nat
    PROVE  /\ SReadAt(d) => SReadAt(d)' \/ SEndAt(d)' \/ SessionMoved(d)'
           /\ SWriteAt(d) => SWriteAt(d)' \/ SEndAt(d)' \/ SessionMoved(d)'
<1> SUFFICES ASSUME SessionAt(d), CmdCanRead \/ CmdCanWrite
             PROVE  \/ SEndAt(d)' \/ SessionMoved(d)'
                    \/ /\ SessionAt(d)'
                       /\ CmdCanRead => CmdCanRead'
                       /\ CmdCanWrite => CmdCanWrite'
  BY DEF SReadAt, SWriteAt
<1>1. SessionMoved(d)' \/ SessionAt(d)'
  BY SessionAtKept
<1>2. CASE CmdReads \/ CmdWrites
  <2>1. ServerDone' > d
    BY <1>2, WorkGrows DEF SessionAt
  <2>2. QED
    BY <2>1 DEF SessionMoved
<1>3. CASE cmd' = "exited"
  BY <1>1, <1>3 DEF SEndAt, RelayDone
<1>4. CASE ~(CmdReads \/ CmdWrites) /\ cmd' # "exited"
  <2>1. UNCHANGED <<read, owed, written>>
    <3>1. CASE \E t \in Transfers : Transfer(t)
      BY <3>1 DEF Transfer, Take, Put, Close, Fail, R!Take, R!Put, R!Close, R!Fail, shell
    <3>2. QED
      BY <1>4, <3>1
      DEF Next, ClientEnds, ClientQuits, ServerEnds, Breaks, Type, CmdExits, vars, shell
  <2>2. cmd' = "running"
    BY <1>4 DEF KindInv
  <2>3. /\ Len(put["input"]) \in Nat /\ Len(put'["input"]) \in Nat
        /\ Len(put["input"]) <= Len(put'["input"])
        /\ got["output"] \in Nat /\ got'["output"] \in Nat /\ got["output"] <= got'["output"]
        /\ read \in Nat /\ written \in Nat /\ PipeSize \in Nat
    BY Monotone, SessionAssumption, TransferNames
  <2>4. read < Len(put["input"]) => read < Len(put'["input"])
    BY <2>3
  <2>5. written < got["output"] + PipeSize => written < got'["output"] + PipeSize
    BY <2>3
  <2>6. server' = "running" => (CmdCanRead => CmdCanRead') /\ (CmdCanWrite => CmdCanWrite')
    BY <2>1, <2>2, <2>4, <2>5 DEF CmdCanRead, CmdCanWrite, CmdAlive
  <2>7. QED
    BY <1>1, <2>6 DEF SessionAt
<1>5. QED
  BY <1>2, <1>3, <1>4

\* The steps that a session waits for are enabled, and each moves it on.
LEMMA SessionSteps ==
    ASSUME TInv, NEW d \in Nat, SessionAt(d)
    PROVE  /\ \A t \in ServerTransfers : <<Transfer(t)>>_vars => SessionMoved(d)'
           /\ <<CmdReads>>_vars => SessionMoved(d)'
           /\ <<CmdWrites>>_vars => SessionMoved(d)'
           /\ <<ServerEnds>>_vars => SessionMoved(d)'
<1>1. ASSUME (\E t \in ServerTransfers : Transfer(t)) \/ CmdReads \/ CmdWrites
      PROVE  SessionMoved(d)'
  <2>1. [Next]_vars
    BY <1>1, TransferNames DEF Next
  <2>2. ServerDone < ServerDone' /\ ServerDone = d
    BY <1>1, <2>1, WorkGrows DEF SessionAt
  <2>3. QED
    BY <2>2 DEF SessionMoved
<1>2. ServerEnds => SessionMoved(d)'
  BY DEF ServerEnds, SessionMoved
<1>3. QED
  BY <1>1, <1>2

\* A session whose client is gone, or that has lost its connection, does get on,
\* for any sizes and whatever else goes on: with d bytes moved and transfers
\* ended it ends, or moves one more, or is kept by a cmd.exe that is idle or
\* whose output has failed (RemoteCMD.cpp:136-147).
THEOREM SessionUnravels ==
    FairSpec /\ []GuardsEnable =>
        \A d \in Nat : SessionAt(d) ~> SessionMoved(d)
<1> SUFFICES ASSUME NEW d \in Nat
             PROVE  FairSpec /\ []GuardsEnable => (SessionAt(d) ~> SessionMoved(d))
  OBVIOUS
<1>1. Fairness => /\ TransferRuns("input") /\ TransferRuns("output") /\ CmdRuns /\ EndsRun
  BY TransferNames DEF Fairness
<1>2. /\ GuardsEnable /\ SMoveAt("input", d) => ENABLED <<Transfer("input")>>_vars
      /\ GuardsEnable /\ SMoveAt("output", d) => ENABLED <<Transfer("output")>>_vars
  <2>1. GuardsEnable => /\ SMoveAt("input", d) => CanRun("input")
                        /\ SMoveAt("output", d) => CanRun("output")
    BY TransferNames DEF GuardsEnable, SMoveAt, CanMove
  <2>2. /\ CanRun("input") => ENABLED <<Transfer("input")>>_vars
        /\ CanRun("output") => ENABLED <<Transfer("output")>>_vars
    BY DEF CanRun
  <2>3. QED
    BY <2>1, <2>2
<1>3. /\ GuardsEnable /\ SReadAt(d) => ENABLED <<CmdReads>>_vars
      /\ GuardsEnable /\ SWriteAt(d) => ENABLED <<CmdWrites>>_vars
      /\ GuardsEnable /\ SEndAt(d) => ENABLED <<ServerEnds>>_vars
  BY DEF GuardsEnable, SReadAt, SWriteAt, SEndAt, SessionAt
<1>4. TInv /\ KindInv /\ SessionAt(d)
        => \/ SessionMoved(d) \/ SEndAt(d) \/ SReadAt(d) \/ SWriteAt(d)
           \/ SMoveAt("input", d) \/ SMoveAt("output", d)
  BY SessionUnravelsHere
  DEF SessionAt, SEndAt, SReadAt, SWriteAt, SMoveAt, SessionMoved
<1>5. TInv /\ KindInv /\ [Next]_vars /\ KindInv' =>
        /\ SMoveAt("input", d) => SMoveAt("input", d)' \/ SessionMoved(d)'
        /\ SMoveAt("output", d) => SMoveAt("output", d)' \/ SessionMoved(d)'
        /\ SEndAt(d) => SEndAt(d)' \/ SessionMoved(d)'
        /\ SReadAt(d) => SReadAt(d)' \/ SEndAt(d)' \/ SessionMoved(d)'
        /\ SWriteAt(d) => SWriteAt(d)' \/ SEndAt(d)' \/ SessionMoved(d)'
  BY SMoveKept, SEndKept, SCmdKept, TransferNames
<1>6. /\ TInv /\ SMoveAt("input", d) /\ <<Transfer("input")>>_vars => SessionMoved(d)'
      /\ TInv /\ SMoveAt("output", d) /\ <<Transfer("output")>>_vars => SessionMoved(d)'
      /\ TInv /\ SReadAt(d) /\ <<CmdReads>>_vars => SessionMoved(d)'
      /\ TInv /\ SWriteAt(d) /\ <<CmdWrites>>_vars => SessionMoved(d)'
      /\ TInv /\ SEndAt(d) /\ <<ServerEnds>>_vars => SessionMoved(d)'
  BY SessionSteps, TransferNames DEF SMoveAt, SReadAt, SWriteAt, SEndAt
<1>7. FairSpec /\ []GuardsEnable => (SMoveAt("input", d) ~> SessionMoved(d))
  BY <1>1, <1>2, <1>5, <1>6, TInvariance, KindInvariance, PTL DEF FairSpec, Spec, TransferRuns
<1>8. FairSpec /\ []GuardsEnable => (SMoveAt("output", d) ~> SessionMoved(d))
  BY <1>1, <1>2, <1>5, <1>6, TInvariance, KindInvariance, PTL DEF FairSpec, Spec, TransferRuns
<1>9. FairSpec /\ []GuardsEnable => (SEndAt(d) ~> SessionMoved(d))
  BY <1>1, <1>3, <1>5, <1>6, TInvariance, KindInvariance, PTL DEF FairSpec, Spec, EndsRun
<1>10. FairSpec /\ []GuardsEnable => (SReadAt(d) ~> SEndAt(d) \/ SessionMoved(d))
  BY <1>1, <1>3, <1>5, <1>6, TInvariance, KindInvariance, PTL DEF FairSpec, Spec, CmdRuns
<1>11. FairSpec /\ []GuardsEnable => (SWriteAt(d) ~> SEndAt(d) \/ SessionMoved(d))
  BY <1>1, <1>3, <1>5, <1>6, TInvariance, KindInvariance, PTL DEF FairSpec, Spec, CmdRuns
<1>12. QED
  BY <1>4, <1>7, <1>8, <1>9, <1>10, <1>11, TInvariance, KindInvariance, PTL DEF FairSpec

\* What is left of a client, in the same way.
ClientAt(d) == (server = "over" \/ broken) /\ client = "running" /\ ClientDone = d
CMoveAt(t, d) == ClientAt(d) /\ CanMove(t)
CEndAt(d) == ClientAt(d) /\ \A t \in ClientTransfers : status[t] # "open"

ClientMoved(d) == client = "over" \/ UserIdle \/ ClientDone > d

LEMMA ClientAtKept ==
    ASSUME TInv, [Next]_vars, KindInv', NEW d \in Nat, ClientAt(d)
    PROVE  ClientMoved(d)' \/ ClientAt(d)'
<1>1. (server = "over" \/ broken)'
  BY GoneForGood, Zenon DEF ClientAt
<1>2. ClientDone' = d \/ ClientDone' > d
  BY WorkGrows DEF ClientAt
<1>3. client' \in {"running", "over"}
  BY DEF KindInv
<1>4. QED
  BY <1>1, <1>2, <1>3 DEF ClientAt, ClientMoved

LEMMA CMoveKept ==
    ASSUME TInv, [Next]_vars, KindInv', NEW d \in Nat, NEW t \in ClientTransfers, CMoveAt(t, d)
    PROVE  CMoveAt(t, d)' \/ ClientMoved(d)'
<1>1. ClientAt(d) /\ CanMove(t) /\ t \in Transfers
  BY TransferNames DEF CMoveAt
<1>2. PeerOver(t) /\ (Running(t)' <=> client' = "running")
  BY <1>1 DEF ClientAt, PeerOver, Running
<1>3. CASE Transfer(t)
  <2>1. ClientDone' > d
    BY <1>1, <1>3, WorkGrows DEF ClientAt
  <2>2. QED
    BY <2>1 DEF ClientMoved
<1>4. CASE CanMove(t)' \/ ~Running(t)'
  BY <1>1, <1>2, <1>4, ClientAtKept DEF CMoveAt, ClientAt
<1>5. QED
  BY <1>1, <1>2, <1>3, <1>4, MoveKept

LEMMA CEndKept ==
    ASSUME TInv, [Next]_vars, KindInv', NEW d \in Nat, CEndAt(d)
    PROVE  CEndAt(d)' \/ ClientMoved(d)'
<1>1. \A t \in ClientTransfers : status[t] # "open" => status'[t] # "open"
  BY CountGrows, TransferNames
<1>2. QED
  BY <1>1, ClientAtKept DEF CEndAt

LEMMA ClientSteps ==
    ASSUME TInv, NEW d \in Nat, ClientAt(d)
    PROVE  /\ \A t \in ClientTransfers : <<Transfer(t)>>_vars => ClientMoved(d)'
           /\ <<ClientEnds>>_vars => ClientMoved(d)'
<1>1. ASSUME NEW t \in ClientTransfers, Transfer(t)
      PROVE  ClientMoved(d)'
  <2>1. [Next]_vars
    BY <1>1, TransferNames DEF Next
  <2>2. ClientDone < ClientDone' /\ ClientDone = d
    BY <1>1, <2>1, WorkGrows DEF ClientAt
  <2>3. QED
    BY <2>2 DEF ClientMoved
<1>2. ClientEnds => ClientMoved(d)'
  BY DEF ClientEnds, ClientMoved
<1>3. QED
  BY <1>1, <1>2

\* A client whose session is gone, or that has lost its connection, gets on as
\* well: it ends, or moves one more byte or ends one more transfer, unless the
\* user is idle (RemoteCMD.cpp:91).
THEOREM ClientUnravels ==
    FairSpec /\ []GuardsEnable =>
        \A d \in Nat : ClientAt(d) ~> ClientMoved(d)
<1> SUFFICES ASSUME NEW d \in Nat
             PROVE  FairSpec /\ []GuardsEnable => (ClientAt(d) ~> ClientMoved(d))
  OBVIOUS
<1>1. Fairness => /\ TransferRuns("keys") /\ TransferRuns("screen") /\ EndsRun
  BY TransferNames DEF Fairness
<1>2. /\ GuardsEnable /\ CMoveAt("keys", d) => ENABLED <<Transfer("keys")>>_vars
      /\ GuardsEnable /\ CMoveAt("screen", d) => ENABLED <<Transfer("screen")>>_vars
  <2>1. GuardsEnable => /\ CMoveAt("keys", d) => CanRun("keys")
                        /\ CMoveAt("screen", d) => CanRun("screen")
    BY TransferNames DEF GuardsEnable, CMoveAt, CanMove
  <2>2. /\ CanRun("keys") => ENABLED <<Transfer("keys")>>_vars
        /\ CanRun("screen") => ENABLED <<Transfer("screen")>>_vars
    BY DEF CanRun
  <2>3. QED
    BY <2>1, <2>2
<1>3. GuardsEnable /\ CEndAt(d) => ENABLED <<ClientEnds>>_vars
  BY DEF GuardsEnable, CEndAt, ClientAt
<1>4. TInv /\ KindInv /\ ClientAt(d)
        => ClientMoved(d) \/ CEndAt(d) \/ CMoveAt("keys", d) \/ CMoveAt("screen", d)
  BY ClientUnravelsHere DEF ClientAt, CEndAt, CMoveAt, ClientMoved
<1>5. TInv /\ [Next]_vars /\ KindInv' =>
        /\ CMoveAt("keys", d) => CMoveAt("keys", d)' \/ ClientMoved(d)'
        /\ CMoveAt("screen", d) => CMoveAt("screen", d)' \/ ClientMoved(d)'
        /\ CEndAt(d) => CEndAt(d)' \/ ClientMoved(d)'
  BY CMoveKept, CEndKept, TransferNames
<1>6. /\ TInv /\ CMoveAt("keys", d) /\ <<Transfer("keys")>>_vars => ClientMoved(d)'
      /\ TInv /\ CMoveAt("screen", d) /\ <<Transfer("screen")>>_vars => ClientMoved(d)'
      /\ TInv /\ CEndAt(d) /\ <<ClientEnds>>_vars => ClientMoved(d)'
  BY ClientSteps, TransferNames DEF CMoveAt, CEndAt
<1>7. FairSpec /\ []GuardsEnable => (CMoveAt("keys", d) ~> ClientMoved(d))
  BY <1>1, <1>2, <1>5, <1>6, TInvariance, KindInvariance, PTL DEF FairSpec, Spec, TransferRuns
<1>8. FairSpec /\ []GuardsEnable => (CMoveAt("screen", d) ~> ClientMoved(d))
  BY <1>1, <1>2, <1>5, <1>6, TInvariance, KindInvariance, PTL DEF FairSpec, Spec, TransferRuns
<1>9. FairSpec /\ []GuardsEnable => (CEndAt(d) ~> ClientMoved(d))
  BY <1>1, <1>3, <1>5, <1>6, TInvariance, KindInvariance, PTL DEF FairSpec, Spec, EndsRun
<1>10. QED
  BY <1>4, <1>7, <1>8, <1>9, TInvariance, KindInvariance, PTL DEF FairSpec

-----------------------------------------------------------------------------
\* The counts of the leads-to theorems cannot grow for ever.

\* cmd.exe writes at most one answer at the start and one for a byte read; and
\* no stage has moved more bytes than were typed and written.
WorkBounded ==
    /\ written + owed <= (read + 1) * MaxAnswer
    /\ OutDone <= 4 * written
    /\ AllDone <= 5 * (typed + written)
    /\ ServerDone <= 3 * (typed + written) + 2
    /\ ClientDone <= 2 * (typed + written) + 2

AnswerInv == written + owed <= (read + 1) * MaxAnswer

LEMMA OneMoreAnswer ==
    ASSUME NEW w \in Nat, NEW r \in Nat, NEW m \in Nat, NEW a \in 0..m, w <= (r + 1) * m
    PROVE  w + a <= (r + 1 + 1) * m
<1>1. (r + 1 + 1) * m = (r + 1) * m + m /\ (r + 1) * m \in Nat
  OBVIOUS
<1>2. QED
  BY <1>1

LEMMA AnswerStep == TInv /\ AnswerInv /\ [Next]_vars => AnswerInv'
<1> SUFFICES ASSUME TInv, AnswerInv, [Next]_vars PROVE AnswerInv'
  OBVIOUS
<1>1. /\ read \in Nat /\ written \in Nat /\ owed \in Nat /\ MaxAnswer \in Nat
      /\ written + owed <= (read + 1) * MaxAnswer
  BY Numbers, SessionAssumption DEF TInv, AnswerInv
<1>2. CASE CmdReads
  <2>1. owed = 0 /\ read' = read + 1 /\ written' = written /\ owed' \in 0..MaxAnswer
    BY <1>2 DEF CmdReads
  <2>2. written <= (read + 1) * MaxAnswer
    BY <1>1, <2>1
  <2>3. written + owed' <= (read + 1 + 1) * MaxAnswer
    BY <1>1, <2>1, <2>2, OneMoreAnswer
  <2>4. QED
    BY <2>1, <2>3 DEF AnswerInv
<1>3. CASE CmdWrites
  <2>1. written' = written + 1 /\ owed' = owed - 1 /\ read' = read
    BY <1>3 DEF CmdWrites
  <2>2. written' + owed' = written + owed
    BY <1>1, <2>1
  <2>3. QED
    BY <1>1, <2>1, <2>2 DEF AnswerInv
<1>4. CASE ~CmdReads /\ ~CmdWrites
  <2>1. UNCHANGED <<read, owed, written>>
    <3>1. CASE \E t \in Transfers : Transfer(t)
      BY <3>1 DEF Transfer, Take, Put, Close, Fail, shell
    <3>2. QED
      BY <1>4, <3>1
      DEF Next, ClientEnds, ClientQuits, ServerEnds, Breaks, Type, CmdExits, vars, shell
  <2>2. QED
    BY <1>1, <2>1 DEF AnswerInv
<1>5. QED
  BY <1>2, <1>3, <1>4

LEMMA WorkHere == TInv /\ AnswerInv => WorkBounded
<1> SUFFICES ASSUME TInv, AnswerInv PROVE WorkBounded
  OBVIOUS
<1> DEFINE k == Len(put["keys"]) i == Len(put["input"]) o == Len(put["output"]) s == Len(put["screen"])
<1>1. IInv
  BY DEF TInv
<1>2. /\ k \in Nat /\ i \in Nat /\ o \in Nat /\ s \in Nat
      /\ got["keys"] \in Nat /\ got["input"] \in Nat /\ got["output"] \in Nat /\ got["screen"] \in Nat
      /\ typed \in Nat /\ read \in Nat /\ written \in Nat
  BY <1>1, Numbers
<1>3. /\ read <= i /\ i <= got["input"] /\ got["input"] <= k /\ k <= got["keys"]
      /\ got["keys"] <= typed
      /\ s <= got["screen"] /\ got["screen"] <= o /\ o <= got["output"] /\ got["output"] <= written
  BY <1>1, Order
<1>4. \A t \in Transfers : Over(t) \in {0, 1}
  BY DEF Over
<1>5. /\ Count["keys"] = got["keys"] + k + Over("keys")
      /\ Count["input"] = got["input"] + i + Over("input")
      /\ Count["output"] = got["output"] + o + Over("output")
      /\ Count["screen"] = got["screen"] + s + Over("screen")
      /\ Done["keys"] = got["keys"] + k /\ Done["input"] = got["input"] + i
      /\ Done["output"] = got["output"] + o /\ Done["screen"] = got["screen"] + s
  BY TransferNames DEF Count, Done
<1>6. Over("keys") \in {0, 1} /\ Over("input") \in {0, 1}
      /\ Over("output") \in {0, 1} /\ Over("screen") \in {0, 1}
  BY <1>4, TransferNames
<1> HIDE DEF k, i, o, s, Over, Count, Done
<1>7. OutDone <= 4 * written /\ AllDone <= 5 * (typed + written)
  BY <1>2, <1>3, <1>5 DEF OutDone, AllDone
<1>8. ServerDone <= 3 * (typed + written) + 2
  BY <1>2, <1>3, <1>5, <1>6 DEF ServerDone
<1>9. ClientDone <= 2 * (typed + written) + 2
  BY <1>2, <1>3, <1>5, <1>6 DEF ClientDone
<1>10. QED
  BY <1>7, <1>8, <1>9 DEF WorkBounded, AnswerInv

\* A step of OutputMoves, KeysMove, SessionUnravels or ClientUnravels raises a
\* count that what was typed bounds, so that each can repeat only finitely
\* often: cmd.exe writes no more than its answers to what it has read.
THEOREM WorkBoundedThm == Spec => []WorkBounded
<1>1. Init => AnswerInv
  <2> SUFFICES ASSUME Init PROVE AnswerInv
    OBVIOUS
  <2>1. written + owed = MaxAnswer /\ (read + 1) * MaxAnswer = MaxAnswer
    BY SessionAssumption DEF Init
  <2>2. QED
    BY <2>1, SessionAssumption DEF AnswerInv
<1>2. QED
  BY <1>1, AnswerStep, WorkHere, TInvariance, PTL DEF Spec

===============================================================================
