---------------------------- MODULE ConsoleProofs -----------------------------
(***************************************************************************)
(* Proofs about Console, for any set of input records and any buffer. What *)
(* makes a read work is that the queue is read by nobody else: the records *)
(* that queue_size has counted stay where they are until the loop takes    *)
(* them out, and the text of the first of them is in the buffer exactly    *)
(* between the peek and the ConsoleEventPeek's destructor.                 *)
(***************************************************************************)
EXTENDS Console, TLAPS

\* What each point of the read knows of the queue.
QueueInv ==
    /\ pc \in {"count", "consume", "terminated"} => Queued
    /\ pc \in {"loop", "consume"} => queueSize > 0 /\ queueSize - turn <= Len(typed) - taken
    /\ pc = "loop" => turn <= queueSize
    /\ pc = "consume" => turn < queueSize

\* A read begins with an empty buffer, and the first turn of its loop, too.
BufferInv ==
    /\ pc \in {"await", "count"} => buf = <<>>
    /\ pc = "loop" /\ turn = 0 => buf = <<>>

\* NothingLost, of a text and the records it is the text of.
Exact(text, seen) ==
    /\ \A k, l \in 1..Len(text) : k < l => Before(text[k], text[l])
    /\ \A k \in 1..Len(text) :
          /\ text[k].from \in 1..seen
          /\ IsText(typed[text[k].from])
          /\ text[k].nth \in 1..typed[text[k].from].repeats
    /\ \A j \in 1..seen : \A n \in 1..typed[j].repeats :
          IsText(typed[j]) =>
              \E k \in 1..Len(text) : text[k].from = j /\ text[k].nth = n

IInv ==
    /\ TypeOK /\ QueueInv /\ BufferInv
    /\ ReadIsDefined /\ NoSpin
    /\ Exact(delivered \o buf, Seen)

-----------------------------------------------------------------------------
LEMMA ExactIsNothingLost == Exact(delivered \o buf, Seen) <=> NothingLost
  BY DEF Exact, NothingLost, IsText

\* A record of the queue is one.
LEMMA RecordType ==
    ASSUME TypeOK, NEW j \in 1..Len(typed)
    PROVE  typed[j] \in Records /\ typed[j] \in Record /\ typed[j].repeats \in Nat
  BY ConsoleAssumption DEF TypeOK, Record

\* The text of a record is as long as its repetitions are.
LEMMA BytesType ==
    ASSUME TypeOK, NEW j \in 1..Len(typed)
    PROVE  /\ Bytes(j) \in Seq(Byte) /\ Len(Bytes(j)) = typed[j].repeats
           /\ \A n \in 1..typed[j].repeats : Bytes(j)[n].from = j /\ Bytes(j)[n].nth = n
<1>1. typed[j] \in Record /\ typed[j].repeats \in Nat
  BY RecordType
<1>2. Char(typed[j]) \in Chars
  BY <1>1 DEF Char, Chars, Record
<1>3. \A n \in 1..typed[j].repeats :
        [from |-> j, nth |-> n, chr |-> Char(typed[j])] \in Byte
  BY <1>2 DEF TypeOK, Byte
<1>4. QED
  BY <1>1, <1>3 DEF Bytes

LEMMA InitInv == Init => IInv
  BY ConsoleAssumption
  DEF Init, IInv, TypeOK, QueueInv, BufferInv, ReadIsDefined, NoSpin, Exact, Seen,
      Points, Ends

-----------------------------------------------------------------------------
\* Putting the text of the next record behind an exact text makes one, again.
LEMMA ExactExtends ==
    ASSUME TypeOK, NEW text \in Seq(Byte), Exact(text, taken), Queued, IsText(First)
    PROVE  Exact(text \o Bytes(taken + 1), taken + 1)
<1> DEFINE new == Bytes(taken + 1)
           all == text \o new
<1>1. taken + 1 \in 1..Len(typed)
  BY DEF TypeOK, Queued
<1>2. /\ new \in Seq(Byte) /\ Len(new) = First.repeats /\ First.repeats \in Nat
      /\ \A n \in 1..First.repeats : new[n].from = taken + 1 /\ new[n].nth = n
  BY <1>1, BytesType, RecordType DEF First
<1> HIDE DEF new
<1>3. /\ Len(all) = Len(text) + First.repeats
      /\ \A k \in 1..Len(text) : all[k] = text[k]
      /\ \A n \in 1..First.repeats : all[Len(text) + n] = new[n]
  BY <1>2
<1>4. \A k \in 1..Len(all) : k > Len(text) =>
        /\ k - Len(text) \in 1..First.repeats
        /\ all[k].from = taken + 1 /\ all[k].nth = k - Len(text)
  <2> SUFFICES ASSUME NEW k \in 1..Len(all), k > Len(text)
               PROVE  /\ k - Len(text) \in 1..First.repeats
                      /\ all[k].from = taken + 1 /\ all[k].nth = k - Len(text)
    OBVIOUS
  <2>1. k - Len(text) \in 1..First.repeats
    BY <1>2, <1>3
  <2>2. k = Len(text) + (k - Len(text))
    BY <1>3, <1>2
  <2>3. all[k] = new[k - Len(text)]
    BY <1>3, <2>1, <2>2
  <2>4. QED
    BY <1>2, <2>1, <2>3
<1> HIDE DEF all
<1>5. \A k \in 1..Len(text) : all[k].from \in 1..taken
  BY <1>3 DEF Exact
<1>6. ASSUME NEW k \in 1..Len(all), NEW l \in 1..Len(all), k < l
      PROVE  Before(all[k], all[l])
  <2>1. CASE l <= Len(text)
    BY <1>3, <1>6, <2>1 DEF Exact
  <2>2. CASE k <= Len(text) /\ l > Len(text)
    <3>1. k \in 1..Len(text)
      BY <2>2
    <3>2. all[k].from \in 1..taken /\ all[l].from = taken + 1
      BY <1>4, <1>5, <2>2, <3>1
    <3>3. all[k].from < all[l].from
      BY <3>2 DEF TypeOK
    <3>4. QED
      BY <3>3 DEF Before
  <2>3. CASE k > Len(text)
    <3>1. l > Len(text) /\ k - Len(text) < l - Len(text)
      BY <1>2, <1>3, <1>6, <2>3
    <3>2. all[k].from = all[l].from /\ all[k].nth < all[l].nth
      BY <1>4, <2>3, <3>1
    <3>3. QED
      BY <3>2 DEF Before
  <2>4. QED
    BY <1>2, <1>3, <2>1, <2>2, <2>3
<1>7. ASSUME NEW k \in 1..Len(all)
      PROVE  /\ all[k].from \in 1..(taken + 1)
             /\ IsText(typed[all[k].from])
             /\ all[k].nth \in 1..typed[all[k].from].repeats
  <2>1. CASE k <= Len(text)
    <3>1. k \in 1..Len(text)
      BY <2>1
    <3>2. all[k] = text[k]
      BY <1>3, <3>1
    <3>3. /\ text[k].from \in 1..taken
          /\ IsText(typed[text[k].from])
          /\ text[k].nth \in 1..typed[text[k].from].repeats
      BY <3>1 DEF Exact
    <3>4. taken \in Nat
      BY DEF TypeOK
    <3>5. QED
      BY <3>2, <3>3, <3>4
  <2>2. CASE k > Len(text)
    BY <1>1, <1>4, <2>2 DEF First, TypeOK
  <2>3. QED
    BY <1>2, <1>3, <2>1, <2>2
<1>8. ASSUME NEW j \in 1..(taken + 1), NEW n \in 1..typed[j].repeats, IsText(typed[j])
      PROVE  \E k \in 1..Len(all) : all[k].from = j /\ all[k].nth = n
  <2>1. CASE j \in 1..taken
    <3>1. PICK k \in 1..Len(text) : text[k].from = j /\ text[k].nth = n
      BY <1>8, <2>1 DEF Exact
    <3>2. k \in 1..Len(all) /\ all[k] = text[k]
      BY <1>2, <1>3
    <3>3. QED
      BY <3>1, <3>2
  <2>2. CASE j = taken + 1
    <3>1. n \in 1..First.repeats
      BY <2>2 DEF First
    <3>2. Len(text) + n \in 1..Len(all) /\ all[Len(text) + n] = new[n]
      BY <1>2, <1>3, <3>1
    <3>3. all[Len(text) + n].from = j /\ all[Len(text) + n].nth = n
      BY <1>2, <2>2, <3>1, <3>2
    <3>4. QED
      BY <3>2, <3>3
  <2>3. taken \in Nat /\ j \in Nat
    BY DEF TypeOK
  <2>4. j \in 1..taken \/ j = taken + 1
    BY <2>3
  <2>5. QED
    BY <2>1, <2>2, <2>4
<1>9. QED
  BY <1>6, <1>7, <1>8 DEF Exact, all, new

\* A record without a text makes no difference.
LEMMA ExactSkips ==
    ASSUME TypeOK, NEW text, Exact(text, taken), Queued, ~IsText(First)
    PROVE  Exact(text, taken + 1)
<1>1. \A k \in 1..Len(text) : text[k].from \in 1..(taken + 1)
  BY DEF Exact, TypeOK
<1>2. \A j \in 1..(taken + 1) : IsText(typed[j]) => j \in 1..taken
  BY DEF First, TypeOK
<1>3. QED
  BY <1>1, <1>2 DEF Exact

-----------------------------------------------------------------------------
\* One lemma per action.

\* A text stays exact when the queue is left alone.
LEMMA SameText ==
    ASSUME NEW text, NEW seen, Exact(text, seen), typed' = typed,
           delivered' \o buf' = text, Seen' = seen
    PROVE  Exact(delivered \o buf, Seen)'
  BY DEF Exact

\* It depends on nothing but the records it is the text of.
LEMMA ExactOfTaken ==
    ASSUME NEW text, NEW seen, Exact(text, seen), \A j \in 1..seen : typed'[j] = typed[j]
    PROVE  Exact(text, seen)'
<1>1. \A j \in 1..seen : IsText(typed[j])' <=> IsText(typed[j])
  BY DEF IsText
<1>2. QED
  BY <1>1 DEF Exact

LEMMA AwaitStep == IInv /\ (Await \/ UNCHANGED vars) => IInv'
<1> SUFFICES ASSUME IInv, Await \/ UNCHANGED vars PROVE IInv'
  OBVIOUS
<1>1. TypeOK' /\ QueueInv' /\ BufferInv' /\ ReadIsDefined' /\ NoSpin'
  BY DEF IInv, Await, vars, TypeOK, Points, QueueInv, BufferInv, ReadIsDefined,
         NoSpin, Queued, First
<1>2. Exact(delivered \o buf, Seen)'
  BY SameText DEF IInv, Await, vars, Seen
<1>3. QED
  BY <1>1, <1>2 DEF IInv

LEMMA CountStep == IInv /\ Count => IInv'
  BY DEF IInv, Count, TypeOK, QueueInv, BufferInv, ReadIsDefined, NoSpin, Exact,
         Seen, Queued, First, Points

LEMMA PeekStep ==
    ASSUME IInv, Peek
    PROVE  IInv'
<1> USE DEF IInv
<1>1. Queued /\ taken + 1 \in 1..Len(typed)
  BY DEF Peek, InLoop, QueueInv, Queued, TypeOK
<1>2. First \in Record /\ First.repeats \in Nat
  BY <1>1, RecordType DEF First
<1>3. Exact(delivered \o buf, taken)
  BY DEF Peek, Seen
<1>4. CASE IsText(First) /\ Fits(First)
  <2>1. pc' = "consume" /\ buf' = buf \o Bytes(taken + 1)
    BY <1>1, <1>4 DEF Peek, AfterPeek
  <2>2. Bytes(taken + 1) \in Seq(Byte) /\ Len(Bytes(taken + 1)) = First.repeats
    BY <1>1, BytesType DEF First
  <2>3. TypeOK'
    BY <2>1, <2>2 DEF Peek, TypeOK, Points
  <2>4. QueueInv' /\ BufferInv' /\ NoSpin'
    BY <1>1, <2>1 DEF Peek, InLoop, QueueInv, BufferInv, NoSpin, Queued, TypeOK
  <2>5. ReadIsDefined'
    BY <1>2, <1>4, <2>1, <2>2, ConsoleAssumption DEF Fits, ReadIsDefined, TypeOK
  <2>6. delivered' \o buf' = (delivered \o buf) \o Bytes(taken + 1)
    <3>1. buf \in Seq(Byte) /\ delivered \in Seq(Byte)
      BY DEF TypeOK
    <3>2. delivered \o (buf \o Bytes(taken + 1)) = (delivered \o buf) \o Bytes(taken + 1)
      BY <2>2, <3>1
    <3>3. QED
      BY <2>1, <3>2 DEF Peek
  <2>7. Exact((delivered \o buf) \o Bytes(taken + 1), taken + 1)
    <3>1. delivered \o buf \in Seq(Byte)
      BY DEF TypeOK
    <3>2. QED
      BY <1>1, <1>3, <1>4, <3>1, ExactExtends
  <2>8. Exact(delivered \o buf, Seen)'
    BY <2>1, <2>6, <2>7, SameText DEF Peek, Seen
  <2>9. QED
    BY <2>3, <2>4, <2>5, <2>8
<1>5. CASE IsText(First) /\ ~Fits(First)
  <2>1. pc' = "return" /\ buf' = buf
    BY <1>1, <1>5 DEF Peek, AfterPeek
  <2>2. TypeOK' /\ QueueInv' /\ BufferInv' /\ ReadIsDefined'
    BY <2>1 DEF Peek, TypeOK, Points, QueueInv, BufferInv, ReadIsDefined
  <2>3. turn = 0 => Oversize(First)
    BY <1>2, <1>5, ConsoleAssumption DEF Peek, BufferInv, Fits, Oversize
  <2>4. NoSpin'
    BY <1>1, <2>1, <2>3 DEF Peek, NoSpin, TypeOK, Queued, First, Oversize, IsText
  <2>5. Exact(delivered \o buf, Seen)'
    BY <2>1, <1>3, SameText DEF Peek, Seen
  <2>6. QED
    BY <2>2, <2>4, <2>5
<1>6. CASE ~IsText(First)
  <2>1. pc' = "consume" /\ buf' = buf
    BY <1>1, <1>6 DEF Peek, AfterPeek
  <2>2. TypeOK' /\ QueueInv' /\ BufferInv' /\ ReadIsDefined' /\ NoSpin'
    BY <1>1, <2>1
    DEF Peek, InLoop, TypeOK, Points, QueueInv, BufferInv, ReadIsDefined, NoSpin,
        Queued
  <2>3. Exact(delivered \o buf, taken + 1)
    BY <1>1, <1>3, <1>6, ExactSkips
  <2>4. Exact(delivered \o buf, Seen)'
    BY <2>1, <2>3, SameText DEF Peek, Seen
  <2>5. QED
    BY <2>2, <2>4
<1>7. QED
  BY <1>4, <1>5, <1>6

LEMMA ConsumeStep ==
    ASSUME IInv, Consume
    PROVE  IInv'
<1>1. TypeOK' /\ QueueInv'
  BY DEF IInv, Consume, TypeOK, Points, QueueInv, Queued
<1>2. BufferInv' /\ ReadIsDefined' /\ NoSpin'
  BY DEF IInv, Consume, TypeOK, BufferInv, ReadIsDefined, NoSpin
<1>3. Exact(delivered \o buf, Seen)'
  BY DEF IInv, Consume, Seen, Exact
<1>4. QED
  BY <1>1, <1>2, <1>3 DEF IInv

LEMMA LoopEndsStep ==
    ASSUME IInv, LoopEnds
    PROVE  IInv'
<1>1. TypeOK' /\ QueueInv' /\ BufferInv' /\ ReadIsDefined'
  BY DEF IInv, LoopEnds, TypeOK, Points, QueueInv, BufferInv, ReadIsDefined
<1>2. NoSpin'
  BY DEF IInv, LoopEnds, InLoop, TypeOK, QueueInv, NoSpin
<1>3. Exact(delivered \o buf, Seen)'
  BY SameText DEF IInv, LoopEnds, Seen
<1>4. QED
  BY <1>1, <1>2, <1>3 DEF IInv

LEMMA ReturnStep ==
    ASSUME IInv, Return
    PROVE  IInv'
<1>1. TypeOK' /\ QueueInv' /\ BufferInv' /\ ReadIsDefined' /\ NoSpin'
  BY DEF IInv, Return, TypeOK, Points, QueueInv, BufferInv, ReadIsDefined, NoSpin
<1>2. Exact(delivered \o buf, Seen)'
  BY SameText DEF IInv, Return, Seen
<1>3. QED
  BY <1>1, <1>2 DEF IInv

\* What is in the buffer goes to the socket from its beginning on.
LEMMA WriteStep ==
    ASSUME IInv, Write
    PROVE  IInv'
<1> USE DEF IInv
<1>1. PICK n \in 1..Len(buf) : /\ delivered' = delivered \o SubSeq(buf, 1, n)
                               /\ buf' = SubSeq(buf, n + 1, Len(buf))
  BY DEF Write
<1>2. buf \in Seq(Byte) /\ delivered \in Seq(Byte) /\ Len(buf) \in Nat /\ n \in Nat
  BY DEF TypeOK
<1>3. SubSeq(buf, 1, n) \in Seq(Byte) /\ SubSeq(buf, n + 1, Len(buf)) \in Seq(Byte)
  BY <1>2
<1>4. Len(SubSeq(buf, n + 1, Len(buf))) <= Len(buf)
  BY <1>2
<1>5. pc = "write" /\ pc' \in {"await", "write"} /\ (pc' = "await" => buf' = <<>>)
      /\ UNCHANGED <<typed, taken, queueSize, turn>>
  BY DEF Write
<1>6. TypeOK' /\ QueueInv' /\ BufferInv' /\ ReadIsDefined' /\ NoSpin'
  <2>1. buf' \in Seq(Byte) /\ delivered' \in Seq(Byte) /\ Len(buf') <= Len(buf)
    BY <1>1, <1>2, <1>3, <1>4
  <2>2. Len(buf) <= BufSize
    BY DEF ReadIsDefined
  <2>3. Len(buf') <= BufSize
    BY <1>2, <2>1, <2>2, ConsoleAssumption
  <2>4. TypeOK'
    BY <1>5, <2>1 DEF TypeOK, Points
  <2>5. QED
    BY <1>5, <2>3, <2>4 DEF QueueInv, BufferInv, ReadIsDefined, NoSpin
<1>7. SubSeq(buf, 1, n) \o SubSeq(buf, n + 1, Len(buf)) = buf
  BY <1>2
<1>8. (delivered \o SubSeq(buf, 1, n)) \o SubSeq(buf, n + 1, Len(buf)) = delivered \o buf
  <2> DEFINE sent == SubSeq(buf, 1, n)
             rest == SubSeq(buf, n + 1, Len(buf))
  <2>1. sent \in Seq(Byte) /\ rest \in Seq(Byte)
    BY <1>3
  <2>2. sent \o rest = buf
    BY <1>7
  <2> HIDE DEF sent, rest
  <2>3. (delivered \o sent) \o rest = delivered \o (sent \o rest)
    BY <1>2, <2>1
  <2>4. QED
    BY <2>2, <2>3 DEF sent, rest
<1>9. Exact(delivered \o buf, Seen)'
  BY <1>1, <1>5, <1>8, SameText DEF Seen
<1>10. QED
  BY <1>6, <1>9

LEMMA WriteFailsStep ==
    ASSUME IInv, WriteFails
    PROVE  IInv'
<1>1. TypeOK' /\ QueueInv' /\ BufferInv' /\ ReadIsDefined' /\ NoSpin'
  BY DEF IInv, WriteFails, TypeOK, Ends, QueueInv, BufferInv, ReadIsDefined, NoSpin
<1>2. Exact(delivered \o buf, Seen)'
  BY SameText DEF IInv, WriteFails, Seen
<1>3. QED
  BY <1>1, <1>2 DEF IInv

LEMMA CallFailsStep ==
    ASSUME IInv, CallFails
    PROVE  IInv'
<1>1. /\ UNCHANGED <<typed, taken, queueSize, turn, buf, delivered>>
      /\ pc' \in {"thrown", "terminated"} /\ (pc' = "terminated") = (pc = "consume")
      /\ pc \in {"count", "loop", "consume"}
  BY DEF CallFails
<1>2. TypeOK' /\ QueueInv' /\ BufferInv' /\ ReadIsDefined' /\ NoSpin'
  BY <1>1 DEF IInv, TypeOK, QueueInv, BufferInv, ReadIsDefined, NoSpin, Queued, First, Ends
<1>3. Seen' = Seen
  BY <1>1 DEF Seen
<1>4. Exact(delivered \o buf, Seen)'
  BY <1>1, <1>3 DEF IInv, Exact
<1>5. QED
  BY <1>2, <1>4 DEF IInv

\* A record that arrives leaves those that are there, and what is known of them.
LEMMA TypeStep ==
    ASSUME IInv, Type
    PROVE  IInv'
<1> USE DEF IInv
<1>1. PICK r \in Records : typed' = Append(typed, r)
  BY DEF Type
<1>2. /\ typed' \in Seq(Records) /\ Len(typed') = Len(typed) + 1
      /\ \A j \in 1..Len(typed) : typed'[j] = typed[j]
  BY <1>1 DEF TypeOK
<1>3. Queued => Queued' /\ First' = First
  BY <1>2 DEF Type, Queued, First, TypeOK
<1>4. TypeOK' /\ QueueInv' /\ BufferInv' /\ ReadIsDefined'
  BY <1>2 DEF Type, TypeOK, QueueInv, BufferInv, ReadIsDefined, Queued
<1>5. NoSpin'
  BY <1>3 DEF Type, NoSpin, Oversize, IsText
<1>6. Seen' = Seen /\ Seen \in 0..Len(typed)
  BY DEF Type, Seen, TypeOK, QueueInv, Queued
<1>7. \A j \in 1..Seen : typed'[j] = typed[j]
  BY <1>2, <1>6
<1>8. Exact(delivered \o buf, Seen)'
  BY <1>6, <1>7, ExactOfTaken DEF Type
<1>9. QED
  BY <1>4, <1>5, <1>8

LEMMA NextInv == IInv /\ [Next]_vars => IInv'
  BY AwaitStep, CountStep, PeekStep, ConsumeStep, LoopEndsStep, ReturnStep, WriteStep,
     WriteFailsStep, CallFailsStep, TypeStep
  DEF Next, Read

-----------------------------------------------------------------------------
\* The inductive invariant holds of every behaviour of the read.
THEOREM Invariance == Spec => []IInv
  BY InitInv, NextInv, PTL DEF Spec

\* Every variable keeps its type, for any records and any buffer; what is read
\* out of the queue has been in it.
THEOREM TypeCorrect == Spec => []TypeOK
  BY Invariance, PTL DEF IInv

\* The assertions at Handle.cpp:302 and 402 hold, since no peek and no read finds
\* the queue empty, and fill_n never writes past the end of the buffer, whatever
\* repeat counts the records have (Handle.cpp:359-366).
THEOREM ReadIsDefinedThm == Spec => []ReadIsDefined
  BY Invariance, PTL DEF IInv

\* A read never returns without having taken a record, except before a key that
\* no buffer holds (Handle.cpp:332-362).
THEOREM NoSpinThm == Spec => []NoSpin
  BY Invariance, PTL DEF IInv

\* What the socket has taken and what is in the buffer is the text of the records
\* that were taken, all of it and in order, for any records, any buffer, any
\* number of reads and any split of the writes (Handle.cpp:322-409).
THEOREM NothingLostThm == Spec => []NothingLost
  BY Invariance, ExactIsNothingLost, PTL DEF IInv

-----------------------------------------------------------------------------
\* Liveness, from the fairness of the thread that reads. That a step of Read
\* can be taken is the hypothesis []ReadsOn, which the provers do not see into.
\* When a write ends is up to the connection: that none lasts for ever is the
\* hypothesis []<>(pc # "write").

\* The record after the first j is at the head of the queue, and the read goes
\* on: how many steps it takes at the most to take that record out, a write of
\* any length counted as one. A record that does not fit behind others is the
\* first one of the next read.
Rank ==
    IF pc = "consume" THEN 1
    ELSE IF pc = "loop" THEN (IF InLoop /\ AfterPeek(First) = "consume" THEN 2 ELSE 7)
    ELSE IF pc = "count" THEN 3
    ELSE IF pc = "await" THEN 4
    ELSE IF pc = "write" THEN 5
    ELSE 6

AtHead(j) == taken = j /\ j < Len(typed) /\ pc \in Points /\ ~Oversize(First)

At(j, i) == AtHead(j) /\ Rank = i
Near(j, i) == AtHead(j) /\ Rank \in 1..i

\* It is taken; or a call has failed, the connection is lost, or it is a key
\* that no buffer holds.
TakenOrStuck(j) == taken > j \/ pc \in Ends \/ Oversize(First)

LEMMA ReadNears ==
    ASSUME IInv, NEW j \in Nat, AtHead(j), Read
    PROVE  TakenOrStuck(j)' \/ (AtHead(j)' /\ Rank' \in 1..Rank - 1)
<1>1. /\ taken = j /\ Queued /\ typed \in Seq(Records) /\ First.repeats \in Nat
      /\ Len(typed) \in Nat /\ queueSize \in Nat /\ turn \in Nat
  BY RecordType DEF IInv, TypeOK, AtHead, Queued, First
<1>2. CASE Consume
  BY <1>1, <1>2 DEF Consume, TakenOrStuck
<1>3. ASSUME ~Consume PROVE /\ UNCHANGED <<typed, taken>> /\ First' = First
                            /\ Oversize(First)' = Oversize(First)
  BY <1>3 DEF Read, Await, Count, Peek, LoopEnds, Return, First
<1>4. CASE Await
  BY <1>1, <1>3, <1>4 DEF Await, Consume, AtHead, Rank, Points
<1>5. CASE Count
  <2>1. buf = <<>> /\ turn' < queueSize'
    BY <1>1, <1>5 DEF IInv, BufferInv, Count, Queued, TypeOK
  <2>2. AfterPeek(First) = "consume"
    BY <1>1, <2>1, ConsoleAssumption DEF AtHead, Oversize, AfterPeek, Fits
  <2>3. AfterPeek(First)' = "consume"
    BY <1>3, <1>5, <2>2 DEF Count, Consume, AfterPeek, Fits, IsText
  <2>4. pc = "count" /\ pc' = "loop" /\ Rank = 3 /\ Rank' = 2
    BY <1>5, <2>1, <2>3 DEF Count, Rank, InLoop
  <2>5. AtHead(j)'
    BY <1>3, <1>5, <2>4 DEF AtHead, Points, Count, Consume
  <2>6. QED
    BY <2>4, <2>5
<1>6. CASE Peek
  <2>1. AtHead(j)' /\ pc' = AfterPeek(First)
    BY <1>1, <1>3, <1>6 DEF Peek, AtHead, Points, AfterPeek, Consume
  <2>2. QED
    BY <1>6, <2>1 DEF Peek, Rank, AfterPeek
<1>7. CASE LoopEnds
  BY <1>1, <1>3, <1>7 DEF LoopEnds, Consume, AtHead, Rank, Points
<1>8. CASE Return
  BY <1>1, <1>3, <1>8 DEF Return, Consume, AtHead, Rank, Points
<1>9. QED
  BY <1>2, <1>4, <1>5, <1>6, <1>7, <1>8 DEF Read

LEMMA WriteNears ==
    ASSUME IInv, NEW j \in Nat, AtHead(j), Write \/ WriteFails
    PROVE  TakenOrStuck(j)' \/ (AtHead(j)' /\ Rank = 5 /\ Rank' \in 4..5)
<1>1. CASE WriteFails
  BY <1>1 DEF WriteFails, TakenOrStuck, Ends
<1>2. CASE Write
  BY <1>2 DEF Write, AtHead, Rank, Points, First, Oversize, IsText
<1>3. QED
  BY <1>1, <1>2

\* Records that arrive change nothing about the one at the head.
LEMMA HeadKept ==
    ASSUME IInv, NEW j \in Nat, AtHead(j), CallFails \/ Type \/ UNCHANGED vars
    PROVE  TakenOrStuck(j)' \/ (AtHead(j)' /\ Rank' = Rank)
<1>1. CASE CallFails
  BY <1>1 DEF CallFails, TakenOrStuck, Ends
<1>2. CASE Type
  <2>1. PICK r \in Records : typed' = Append(typed, r)
    BY <1>2 DEF Type
  <2>2. /\ typed \in Seq(Records) /\ Len(typed) \in Nat /\ taken = j
        /\ Len(typed') = Len(typed) + 1
        /\ \A k \in 1..Len(typed) : typed'[k] = typed[k]
    BY <2>1 DEF IInv, TypeOK, AtHead
  <2>3. First' = First
    <3>1. taken' = taken /\ taken + 1 \in 1..Len(typed)
      BY <1>2, <2>2 DEF AtHead, Type
    <3>2. QED
      BY <2>2, <3>1 DEF First
  <2>4. UNCHANGED <<taken, pc, queueSize, turn, buf>>
    BY <1>2 DEF Type
  <2>5. AtHead(j)'
    BY <2>2, <2>3, <2>4 DEF AtHead, Oversize, IsText
  <2>6. Rank' = Rank
    BY <2>3, <2>4 DEF Rank, InLoop, AfterPeek, IsText, Fits
  <2>7. QED
    BY <2>5, <2>6
<1>3. CASE UNCHANGED vars
  BY <1>3 DEF vars, AtHead, Rank, InLoop, AfterPeek, IsText, Fits, First, Oversize
<1>4. QED
  BY <1>1, <1>2, <1>3

LEMMA NearKept ==
    ASSUME IInv, NEW j \in Nat, NEW i \in 1..7, At(j, i), [Next]_vars
    PROVE  \/ At(j, i)' /\ ~Read
           \/ Near(j, i - 1)'
           \/ TakenOrStuck(j)'
<1>1. AtHead(j) /\ Rank = i
  BY DEF At
<1>2. CASE Read
  <2>1. Rank' \in 1..Rank - 1 => Rank' \in 1..i - 1
    BY <1>1
  <2>2. QED
    BY <1>1, <1>2, <2>1, ReadNears DEF Near
<1>3. CASE (CallFails \/ Type \/ UNCHANGED vars) /\ ~Read
  BY <1>1, <1>3, HeadKept DEF At
<1>4. CASE (Write \/ WriteFails) /\ ~Read
  <2>1. Rank' \in 4..5 /\ Rank = 5 => Rank' = i \/ Rank' \in 1..i - 1
    BY <1>1
  <2>2. QED
    BY <1>1, <1>4, <2>1, WriteNears DEF At, Near
<1>5. QED
  BY <1>2, <1>3, <1>4 DEF Next

\* One step of the way.
Nears(j, i, h) == Near(j, i) ~> Near(j, h) \/ TakenOrStuck(j)

LEMMA AtOrNearer ==
    ASSUME NEW j \in Nat, NEW i \in 1..7, NEW h \in Nat, i = h + 1, Near(j, i)
    PROVE  At(j, i) \/ Near(j, h)
<1>1. Rank \in 1..i => Rank = i \/ Rank \in 1..h
  OBVIOUS
<1>2. QED
  BY <1>1 DEF At, Near

\* Where the thread moves, it does.
LEMMA OneNearer ==
    ASSUME NEW j \in Nat, NEW i \in 1..7 \ {5}, NEW h \in Nat, i = h + 1
    PROVE  FairSpec /\ []ReadsOn => Nears(j, i, h)
<1>1. h = i - 1
  OBVIOUS
<1>2. IInv /\ [Next]_vars /\ At(j, i) => At(j, i)' \/ (Near(j, h) \/ TakenOrStuck(j))'
  BY <1>1, NearKept
<1>3. IInv /\ At(j, i) /\ <<Read>>_vars => (Near(j, h) \/ TakenOrStuck(j))'
  BY <1>1, NearKept DEF Next
<1>4. ReadsOn /\ At(j, i) => ENABLED <<Read>>_vars
  <2>1. At(j, i) => pc \in Points \ {"write"} /\ taken < Len(typed)
    BY DEF At, AtHead, Rank
  <2>2. QED
    BY <2>1 DEF ReadsOn, Points, Queued
<1>5. Near(j, i) => At(j, i) \/ Near(j, h)
  BY AtOrNearer
<1>6. QED
  BY <1>2, <1>3, <1>4, <1>5, Invariance, PTL DEF FairSpec, Spec, ReadRuns, Nears

\* Where it waits for the socket, the write ends.
LEMMA WriteEnds ==
    ASSUME NEW j \in Nat
    PROVE  FairSpec /\ []<>(pc # "write") => Nears(j, 5, 4)
<1>1. IInv /\ [Next]_vars /\ At(j, 5) => At(j, 5)' \/ (Near(j, 4) \/ TakenOrStuck(j))'
  BY NearKept
<1>2. At(j, 5) => ~(pc # "write")
  BY DEF At, AtHead, Rank
<1>3. Near(j, 5) => At(j, 5) \/ Near(j, 4)
  BY AtOrNearer
<1>4. QED
  BY <1>1, <1>2, <1>3, Invariance, PTL DEF FairSpec, Spec, Nears

\* The record at the head of the queue does not stay there: whatever is typed
\* meanwhile, and however often it is put back because the buffer is full, it is
\* taken out - one record of TypedIsRead at a time, for any buffer - unless a
\* call fails, the connection is lost, or it is a key repeated more often than
\* the buffer is long (Handle.cpp:332-362). That is so while the socket goes on
\* taking what was read before, in parts as small as it likes.
THEOREM TakesNext ==
    FairSpec /\ []ReadsOn /\ []<>(pc # "write") =>
        \A j \in Nat : taken = j /\ j < Len(typed) ~> TakenOrStuck(j)
<1> DEFINE Hyp == FairSpec /\ []ReadsOn /\ []<>(pc # "write")
<1> SUFFICES ASSUME NEW j \in Nat
             PROVE  Hyp => (taken = j /\ j < Len(typed) ~> TakenOrStuck(j))
  OBVIOUS
<1>1. FairSpec /\ []ReadsOn =>
        /\ Nears(j, 7, 6) /\ Nears(j, 6, 5) /\ Nears(j, 4, 3)
        /\ Nears(j, 3, 2) /\ Nears(j, 2, 1) /\ Nears(j, 1, 0)
  BY OneNearer
<1>2. FairSpec /\ []<>(pc # "write") => Nears(j, 5, 4)
  BY WriteEnds
<1>3. IInv /\ (taken = j /\ j < Len(typed)) => Near(j, 7) \/ TakenOrStuck(j)
  <2>1. Rank \in 1..7
    BY DEF Rank
  <2>2. QED
    BY <2>1 DEF IInv, TypeOK, Near, AtHead, TakenOrStuck
<1>4. ~Near(j, 0)
  BY DEF Near
<1>5. FairSpec => []IInv
  BY Invariance, PTL DEF FairSpec
<1>6. QED
  BY <1>1, <1>2, <1>3, <1>4, <1>5, PTL DEF Nears

===============================================================================
