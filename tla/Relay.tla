------------------------------- MODULE Relay --------------------------------
(***************************************************************************)
(* What a set of abel::async_transfer coroutines promises (IOBase.hpp):    *)
(* each task t copies one byte stream to another through one buffer.       *)
(* Byte k of a stream is the number k, so a stream that was copied without *)
(* loss, duplication or reordering reads 1, 2, 3, ...                      *)
(*                                                                         *)
(* A task takes a chunk only when the previous one has been delivered in   *)
(* full; it may close only with an empty buffer; when it fails, what is    *)
(* left in the buffer is lost.                                             *)
(***************************************************************************)
EXTENDS Naturals, Sequences

CONSTANTS
    Tasks,      \* the transfers that run side by side
    BufSize     \* bytes a transfer reads at a time (buf_size)

VARIABLES
    got,        \* got[t]: how many bytes t has taken from its source
    put,        \* put[t]: the bytes t has delivered, in order
    status      \* status[t]: "open", "closed" or "failed"

vars == <<got, put, status>>

\* The n bytes of a stream that follow the first `from` ones.
Chunk(from, n) == [i \in 1..n |-> from + i]

Init ==
    /\ got = [t \in Tasks |-> 0]
    /\ put = [t \in Tasks |-> <<>>]
    /\ status = [t \in Tasks |-> "open"]

\* Take up to BufSize bytes from the source into the empty buffer.
Take(t) ==
    /\ status[t] = "open"
    /\ Len(put[t]) = got[t]
    /\ \E n \in 1..BufSize : got' = [got EXCEPT ![t] = @ + n]
    /\ UNCHANGED <<put, status>>

\* Deliver the next bytes of the buffer, all of them or some.
Put(t) ==
    /\ status[t] = "open"
    /\ \E n \in 1..BufSize :
          /\ Len(put[t]) + n <= got[t]
          /\ put' = [put EXCEPT ![t] = @ \o Chunk(Len(put[t]), n)]
    /\ UNCHANGED <<got, status>>

\* The end of a stream: nothing that was taken is left undelivered.
Close(t) ==
    /\ status[t] = "open"
    /\ Len(put[t]) = got[t]
    /\ status' = [status EXCEPT ![t] = "closed"]
    /\ UNCHANGED <<got, put>>

\* An operation failed: the rest of the buffer is dropped.
Fail(t) ==
    /\ status[t] = "open"
    /\ status' = [status EXCEPT ![t] = "failed"]
    /\ UNCHANGED <<got, put>>

Next == \E t \in Tasks : Take(t) \/ Put(t) \/ Close(t) \/ Fail(t)

Spec == Init /\ [][Next]_vars

=============================================================================
