---------------------------- MODULE MCCommandLine -----------------------------
(***************************************************************************)
(* Instances of CommandLine for TLC: a word for each way the parser can    *)
(* go, a port that fits 16 bits and one that does not.                     *)
(***************************************************************************)
EXTENDS CommandLine

SomeWords == {"-h", "--svc", "-c", "--server", "--host", "--port", "9000", "65536", "word"}

SomeNumerals == [w \in {"9000", "65536"} |-> IF w = "9000" THEN 9000 ELSE 65536]

=============================================================================
