------------------------------ MODULE MCConsole -------------------------------
(***************************************************************************)
(* An instance of Console for TLC: with a buffer of 3 bytes, keys that fit *)
(* its rest or not, keys that never fit, and records that are no text.     *)
(***************************************************************************)
EXTENDS Console

Press(c, n) == [key |-> TRUE, down |-> TRUE, chr |-> c, repeats |-> n]

Mouse == [key |-> FALSE, down |-> TRUE, chr |-> "a", repeats |-> 1]
KeyUp == [key |-> TRUE, down |-> FALSE, chr |-> "a", repeats |-> 1]
Shift == Press("nul", 1)

SomeRecords == {Mouse, KeyUp, Shift, Press("cr", 1), Press("a", 2), Press("a", 3), Press("a", 4)}

=============================================================================
