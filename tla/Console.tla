-------------------------------- MODULE Console --------------------------------
(***************************************************************************)
(* The client's keyboard: Windows' queue of input records and the          *)
(* coroutine ConsoleAsyncIO::read_async_into (Handle.cpp), which its       *)
(* transfer calls again and again; between two reads the transfer writes   *)
(* what it has read to the socket, which may take any time, and fail.      *)
(*                                                                         *)
(* A read waits for the handle, looks how long the queue is, and then      *)
(* peeks at one record per turn of its loop. The ConsoleEventPeek of the   *)
(* turn takes the record out of the queue when it is destroyed, unless it  *)
(* was told to reject() it. Records are added at any time.                 *)
(*                                                                         *)
(* The queue is kept whole, with the number of records that were taken.    *)
(* A byte of text carries the record that it comes from and its place      *)
(* among the repetitions of that key. The echo to the screen (WriteConsole)*)
(* changes nothing here and is left out.                                   *)
(***************************************************************************)
EXTENDS Naturals, Sequences

CONSTANTS
    Records,    \* the input records that occur
    BufSize,    \* size of the buffer that async_transfer reads into
    MaxTyped    \* bound: records that arrive

Chars == {"nul", "cr", "lf", "a"}

\* An INPUT_RECORD: whether it is a KEY_EVENT, and that event's bKeyDown,
\* AsciiChar and wRepeatCount.
Record == [key : BOOLEAN, down : BOOLEAN, chr : Chars, repeats : Nat]

ASSUME ConsoleAssumption ==
    /\ Records \subseteq Record
    /\ BufSize \in Nat \ {0}
    /\ MaxTyped \in Nat

VARIABLES
    typed,      \* the records put into the queue, in order
    taken,      \* how many of them were taken out
    pc,         \* what the read does next; or how it came to its end
    queueSize,  \* queue_size
    turn,       \* i: the turns of the loop that are over
    buf,        \* the bytes of the buffer that are read and not yet written
    delivered   \* the bytes that the socket has taken

vars == <<typed, taken, pc, queueSize, turn, buf, delivered>>

Points == {"await", "count", "loop", "consume", "return", "write"}
Ends == {"thrown", "asserted", "terminated", "over"}
Byte == [from : Nat, nth : Nat, chr : Chars]

Init ==
    /\ typed = <<>> /\ taken = 0
    /\ pc = "await"
    /\ queueSize = 0 /\ turn = 0
    /\ buf = <<>> /\ delivered = <<>>

-----------------------------------------------------------------------------
\* What a record is to the read.

\* A key that is pressed, and not shift, ctrl and the like.
IsText(r) == r.key /\ r.down /\ r.chr # "nul"

Char(r) == IF r.chr = "cr" THEN "lf" ELSE r.chr

\* std::fill_n with the character of the j-th record.
Bytes(j) == [n \in 1..typed[j].repeats |-> [from |-> j, nth |-> n, chr |-> Char(typed[j])]]

\* Mutant: compared with the whole buffer, not with what is left of it.
FitsEmpty(r) == r.repeats <= BufSize

\* repeats <= data.size(), data being what is left of the buffer.
Fits(r) == r.repeats <= BufSize - Len(buf)

Queued == taken < Len(typed)
First == typed[taken + 1]

-----------------------------------------------------------------------------
\* read_async_into.

\* Mutant: the read does not wait.
AwaitNothing ==
    /\ pc = "await"
    /\ pc' = "count"
    /\ UNCHANGED <<typed, taken, queueSize, turn, buf, delivered>>

\* Mutant: the handle is signaled by new records only, not by those put back.
AwaitNew ==
    /\ pc = "await" /\ Len(typed) - taken > queueSize - turn
    /\ pc' = "count"
    /\ UNCHANGED <<typed, taken, queueSize, turn, buf, delivered>>

\* co_await event_signaled{handle}: the handle is signaled while the queue is
\* not empty.
Await ==
    /\ pc = "await" /\ Queued
    /\ pc' = "count"
    /\ UNCHANGED <<typed, taken, queueSize, turn, buf, delivered>>

\* console_input_queue_size().
Count ==
    /\ pc = "count"
    /\ queueSize' = Len(typed) - taken /\ turn' = 0
    /\ pc' = "loop"
    /\ UNCHANGED <<typed, taken, buf, delivered>>

\* Mutant: one turn too many.
InLoopOneMore == turn <= queueSize

InLoop == turn < queueSize

\* Mutants: a record that does not fit is dropped; one that is no text is put
\* back.
AfterPeekDrops(r) == "consume"
AfterPeekKeeps(r) == IF IsText(r) /\ Fits(r) THEN "consume" ELSE "return"

\* Where the turn goes after it has looked at r: a text that does not fit is
\* rejected and the loop left; everything else is consumed.
AfterPeek(r) == IF IsText(r) /\ ~Fits(r) THEN "return" ELSE "consume"

\* A peek that finds nothing fails assert(read == 1).
Peek ==
    /\ pc = "loop" /\ InLoop
    /\ pc' = IF Queued THEN AfterPeek(First) ELSE "asserted"
    /\ buf' = IF Queued /\ IsText(First) /\ Fits(First) THEN buf \o Bytes(taken + 1) ELSE buf
    /\ UNCHANGED <<typed, taken, queueSize, turn, delivered>>

\* The destructor of the ConsoleEventPeek reads the record out of the queue.
Consume ==
    /\ pc = "consume" /\ Queued
    /\ taken' = taken + 1 /\ turn' = turn + 1
    /\ pc' = "loop"
    /\ UNCHANGED <<typed, queueSize, buf, delivered>>

LoopEnds ==
    /\ pc = "loop" /\ ~InLoop
    /\ pc' = "return"
    /\ UNCHANGED <<typed, taken, queueSize, turn, buf, delivered>>

\* The bytes are echoed and returned. The transfer writes them, and when there
\* are none reads again at once.
Return ==
    /\ pc = "return"
    /\ pc' = IF buf = <<>> THEN "await" ELSE "write"
    /\ UNCHANGED <<typed, taken, queueSize, turn, buf, delivered>>

\* One write of write_async_full_from completes: the socket has taken some of
\* the bytes. The transfer reads again once it has taken all.
Write ==
    /\ pc = "write"
    /\ \E n \in 1..Len(buf) :
          /\ delivered' = delivered \o SubSeq(buf, 1, n)
          /\ buf' = SubSeq(buf, n + 1, Len(buf))
    /\ pc' = IF buf' = <<>> THEN "await" ELSE "write"
    /\ UNCHANGED <<typed, taken, queueSize, turn>>

\* The connection is lost: an error, or the end of the stream before the last
\* byte, and the transfer is over.
WriteFails ==
    /\ pc = "write"
    /\ pc' = "over"
    /\ UNCHANGED <<typed, taken, queueSize, turn, buf, delivered>>

\* Counting or peeking fails: an exception, which drops what is in the buffer.
\* The destructor's call fails: its exception meets a noexcept.
CallFails ==
    /\ \/ pc = "count"
       \/ pc = "loop" /\ InLoop
       \/ pc = "consume"
    /\ pc' = IF pc = "consume" THEN "terminated" ELSE "thrown"
    /\ UNCHANGED <<typed, taken, queueSize, turn, buf, delivered>>

\* A key or the mouse is used, the window resized.
Type ==
    /\ pc \in Points /\ Len(typed) < MaxTyped
    /\ \E r \in Records : typed' = Append(typed, r)
    /\ UNCHANGED <<taken, pc, queueSize, turn, buf, delivered>>

Read == Await \/ Count \/ Peek \/ Consume \/ LoopEnds \/ Return

Next == Read \/ Write \/ WriteFails \/ CallFails \/ Type

Spec == Init /\ [][Next]_vars

\* The thread runs on. When a write completes is up to the connection, which may
\* take nothing for ever; nobody has to type, and no call has to fail.
ReadRuns == WF_vars(Read)

FairSpec == Spec /\ ReadRuns

-----------------------------------------------------------------------------
\* Properties.

TypeOK ==
    /\ typed \in Seq(Records)
    /\ taken \in 0..Len(typed)
    /\ pc \in Points \cup Ends
    /\ queueSize \in Nat /\ turn \in Nat
    /\ buf \in Seq(Byte) /\ delivered \in Seq(Byte)

\* A key whose repetitions do not even fit into an empty buffer.
Oversize(r) == IsText(r) /\ r.repeats > BufSize

\* A read meets no precondition that does not hold. A peek finds a record (the
\* comment at Handle.cpp:401): PeekConsoleInput itself does not promise it, it
\* follows from queue_size, since nobody else reads the queue. And fill_n does
\* not run past the end of the buffer, whatever is repeated (Handle.cpp:365).
ReadIsDefined == pc # "asserted" /\ Len(buf) <= BufSize

\* The records whose text has been put into a buffer: those that were taken,
\* and the one that is about to be.
Seen == IF pc \in {"consume", "terminated"} THEN taken + 1 ELSE taken

Before(b, c) == b.from < c.from \/ (b.from = c.from /\ b.nth < c.nth)

\* A key pressed, released or repeated is the text it stands for exactly: every
\* repetition of every record taken out of the queue has gone to the socket or is
\* in the buffer, nothing else is, and all in the order typed, however records
\* arrive and are put back between the reads, and however the socket splits the
\* writes (Handle.cpp:357, 405; IOBase.hpp:138-141).
NothingLost ==
    LET text == delivered \o buf
    IN /\ \A k, l \in 1..Len(text) : k < l => Before(text[k], text[l])
       /\ \A k \in 1..Len(text) :
             /\ text[k].from \in 1..Seen
             /\ LET r == typed[text[k].from]
                IN r.key /\ r.down /\ r.chr # "nul" /\ text[k].nth \in 1..r.repeats
       /\ \A j \in 1..Seen : \A n \in 1..typed[j].repeats :
             typed[j].key /\ typed[j].down /\ typed[j].chr # "nul" =>
                 \E k \in 1..Len(text) : text[k].from = j /\ text[k].nth = n

\* A read that was woken takes something out of the queue: the transfer does
\* not spin on a handle that stays signaled. The one exception is a key held
\* down for longer than the buffer is: it is put back for ever (Handle.cpp:359).
NoSpin == pc = "return" => turn > 0 \/ (Queued /\ Oversize(First))

\* Until it has returned, the read is blocked at its await only, and there only
\* while the queue is empty: a record put back keeps the handle signaled
\* (Handle.cpp:325, 360).
ReadsOn ==
    pc \in {"count", "loop", "consume", "return"} \/ (pc = "await" /\ Queued)
        => ENABLED <<Read>>_vars

\* What is typed is delivered, unless a call fails, such a key comes before it,
\* or the connection is lost or takes nothing any more. Records that arrive
\* during a read, or while the transfer waits for the socket, are not forgotten
\* (Handle.cpp:330; IOBase.hpp:165-176).
TypedIsRead ==
    \/ <>[](pc = "write")
    \/ \A j \in 1..MaxTyped :
           Len(typed) >= j ~>
               \/ pc = "await" /\ taken >= j
               \/ pc \in Ends
               \/ \E i \in 1..Len(typed) : i <= j /\ Oversize(typed[i])

=============================================================================
