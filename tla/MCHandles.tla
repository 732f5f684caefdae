------------------------------ MODULE MCHandles -------------------------------
(***************************************************************************)
(* An instance of Handles for TLC: two connections, whose ClientConns and  *)
(* threads behave alike.                                                   *)
(***************************************************************************)
EXTENDS Handles, TLC

HandleValues == 1..16

AlikeConns == Permutations(Conns)

=============================================================================
