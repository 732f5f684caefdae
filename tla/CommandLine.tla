----------------------------- MODULE CommandLine ------------------------------
(***************************************************************************)
(* From the command line to the role the process plays: ArgParser          *)
(* (ArgParse.hpp/.cpp), Args and main() (RemoteCMD.cpp), and the second    *)
(* command line, the one that the service manager hands to ServiceMain and *)
(* that ServerSvc::work parses.                                            *)
(*                                                                         *)
(* A word stands for one element of argv. Numeral gives the number that a  *)
(* word of digits spells; from_chars refuses any other word, and a number  *)
(* that does not fit std::uint16_t.                                        *)
(***************************************************************************)
EXTENDS Naturals, Sequences

CONSTANTS
    Words,      \* the words that occur on command lines
    Numeral,    \* Numeral[w], for the words w that consist of digits
    MaxWords,   \* bound: words on the program's command line
    MaxStart    \* bound: words given to "sc start"

ASSUME CommandLineAssumption ==
    /\ DOMAIN Numeral \subseteq Words
    /\ Numeral \in [DOMAIN Numeral -> Nat]
    /\ "" \notin DOMAIN Numeral
    /\ MaxWords \in Nat /\ MaxStart \in Nat

Flags == {"svc", "client", "server"}
Options == Flags \cup {"help", "host", "port"}

\* known_args: the words that lookup_known_arg takes for each option.
KnownArgs ==
    [help |-> {"--help", "-h"}, svc |-> {"--svc"}, client |-> {"--client", "-c"},
     server |-> {"--server", "-s"}, host |-> {"--host"}, port |-> {"--port"}]

Names(w, o) == w \in KnownArgs[o]
Known(w) == \E o \in Options : Names(w, o)

\* std::uint16_t.
Ports == 0..65535

\* Mutant: from_chars into an int, cut to 16 bits nowhere.
ValidPortWide(w) == w \in DOMAIN Numeral

\* handler_store_int for a std::uint16_t.
ValidPort(w) == w \in DOMAIN Numeral /\ Numeral[w] \in Ports

\* Two functions parse a command line: main() and ServerSvc::work.
Mains == {"main", "service"}

DefaultArgs ==
    [svc |-> FALSE, client |-> FALSE, server |-> FALSE,
     host |-> "127.0.0.1", port |-> 12345]

Hosts == Words \cup {"127.0.0.1"}
ArgsType ==
    [svc : BOOLEAN, client : BOOLEAN, server : BOOLEAN, host : Hosts, port : Ports]

VARIABLES
    in,         \* whose command line is being handled, one of Mains
    stage,      \* "parse", "dispatch", "scm", "setup", "serving", "relaying", "exited"
    words,      \* words[m]: argv of m without argv[0]
    pos,        \* cur_pos
    args,       \* args[m]: the Args of m
    exit,       \* how the process ended: "no", "help", "error", "crash", "done"
    peer        \* what the program listens at or is connected to

vars == <<in, stage, words, pos, args, exit, peer>>

Stages == {"parse", "dispatch", "scm", "setup", "serving", "relaying", "exited"}
NoPeer == [host |-> "", port |-> 0]

\* Command lines of at most n words.
Lines(n) == UNION {[1..k -> Words] : k \in 0..n}

Init ==
    /\ in = "main" /\ stage = "parse"
    /\ \E line \in Lines(MaxWords) : words = [main |-> line, service |-> <<>>]
    /\ pos = 0
    /\ args = [m \in Mains |-> DefaultArgs]
    /\ exit = "no" /\ peer = NoPeer

-----------------------------------------------------------------------------
\* ArgParser::parse: one turn of its loop looks up a word and runs its handler.

Line == words[in]

\* The process ends. An exception that leaves main's try block is reported; one
\* that leaves the service's worker thread ends the process.
Exit(how) ==
    /\ stage' = "exited" /\ exit' = how
    /\ UNCHANGED <<in, words, pos, args, peer>>

Fail == Exit(IF in = "main" THEN "error" ELSE "crash")

\* next_arg() returns a word that names o.
Option(o) ==
    /\ stage = "parse" /\ pos < Len(Line)
    /\ Names(Line[pos + 1], o)

\* Mutant: the handler reads its value with peek_arg and leaves it in place.
TakeValuePeeks(o, v) ==
    /\ args' = [args EXCEPT ![in][o] = v]
    /\ pos' = pos + 1

\* A handler with a value calls next_arg() once more.
TakeValue(o, v) ==
    /\ args' = [args EXCEPT ![in][o] = v]
    /\ pos' = pos + 2

\* at() throws when there is no word left; check_arg lets that case through.
HasValue == pos + 1 < Len(Line)
Value == Line[pos + 2]

\* Mutant: the word of a flag is looked at but not consumed.
ParseFlagStays ==
    /\ \E o \in Flags :
          /\ Option(o)
          /\ args' = [args EXCEPT ![in][o] = TRUE]
    /\ UNCHANGED <<in, stage, words, pos, exit, peer>>

ParseFlag ==
    /\ \E o \in Flags :
          /\ Option(o)
          /\ args' = [args EXCEPT ![in][o] = TRUE]
    /\ pos' = pos + 1
    /\ UNCHANGED <<in, stage, words, exit, peer>>

\* Mutant: the usage is printed and the parse goes on.
ParseHelpGoesOn ==
    /\ Option("help")
    /\ pos' = pos + 1
    /\ UNCHANGED <<in, stage, words, args, exit, peer>>

\* handler_help prints the usage and calls exit(0).
ParseHelp == Option("help") /\ Exit("help")

ParseHost ==
    /\ Option("host") /\ HasValue
    /\ TakeValue("host", Value)
    /\ UNCHANGED <<in, stage, words, exit, peer>>

ParsePort ==
    /\ Option("port") /\ HasValue /\ ValidPort(Value)
    /\ TakeValue("port", Numeral[Value])
    /\ UNCHANGED <<in, stage, words, exit, peer>>

\* A positional or unknown word, a missing value, or a port that is no uint16.
ParseFail ==
    /\ stage = "parse" /\ pos < Len(Line)
    /\ \/ ~Known(Line[pos + 1])
       \/ (Option("host") \/ Option("port")) /\ ~HasValue
       \/ Option("port") /\ HasValue /\ ~ValidPort(Value)
    /\ Fail

ParseEnd ==
    /\ stage = "parse" /\ pos = Len(Line)
    /\ stage' = (IF in = "main" THEN "dispatch" ELSE "setup")
    /\ UNCHANGED <<in, words, pos, args, exit, peer>>

-----------------------------------------------------------------------------
\* main() after the parse.

Main == args["main"]

ExactlyOne == Main.server # Main.client

DispatchFail == stage = "dispatch" /\ ~ExactlyOne /\ Fail

\* --svc: StartServiceCtrlDispatcher blocks while the service exists; it
\* returns at once when the process was not started by the service manager.
\* Otherwise the socket is set up in this thread.
Dispatch ==
    /\ stage = "dispatch" /\ ExactlyOne
    /\ stage' = IF Main.svc THEN "scm" ELSE "setup"
    /\ UNCHANGED <<in, words, pos, args, exit, peer>>

NotAService == stage = "scm" /\ Exit("done")

\* The service manager calls ServiceMain with the words of its own start
\* request; the worker thread parses those into a new Args.
ServiceMain ==
    /\ stage = "scm"
    /\ \E line \in Lines(MaxStart) : words' = [words EXCEPT !["service"] = line]
    /\ in' = "service" /\ stage' = "parse" /\ pos' = 0
    /\ UNCHANGED <<args, exit, peer>>

\* Server::setup binds the port on every address; a service is always a server.
Listen ==
    /\ stage = "setup" /\ (in = "service" \/ Main.server)
    /\ peer' = [host |-> "0.0.0.0", port |-> args[in].port]
    /\ stage' = "serving"
    /\ UNCHANGED <<in, words, pos, args, exit>>

Connect ==
    /\ stage = "setup" /\ in = "main" /\ ~Main.server
    /\ peer' = [host |-> Main.host, port |-> Main.port]
    /\ stage' = "relaying"
    /\ UNCHANGED <<in, words, pos, args, exit>>

\* WSAStartup, bind, listen or connect fails.
SetupFail == stage = "setup" /\ Fail

Parse == ParseFlag \/ ParseHelp \/ ParseHost \/ ParsePort \/ ParseFail \/ ParseEnd

\* The process has ended, or serves or relays from now on.
Settled == stage \in {"serving", "relaying", "exited"} /\ UNCHANGED vars

Next ==
    \/ Parse \/ DispatchFail \/ Dispatch \/ NotAService \/ ServiceMain
    \/ Listen \/ Connect \/ SetupFail \/ Settled

Spec == Init /\ [][Next]_vars

\* The thread that parses is never blocked.
FairSpec == Spec /\ WF_vars(Parse)

-----------------------------------------------------------------------------
\* What a command line means, without a cursor.

TakesValue(w) == Names(w, "host") \/ Names(w, "port")

\* The places where the options are: the least set that has the first place and,
\* with each option, the place after it and its value.
NextPlace(line, i) == IF TakesValue(line[i]) THEN i + 2 ELSE i + 1

Closed(line, S) == 1 \in S /\ \A i \in S \cap 1..Len(line) : NextPlace(line, i) \in S

Places(line) ==
    {i \in 1..Len(line) + 2 :
        \A S \in SUBSET (1..Len(line) + 2) : Closed(line, S) => i \in S}

AtOption(line) == Places(line) \cap 1..Len(line)

\* The option at i ends the parse.
Wrong(line, i) ==
    \/ ~Known(line[i])
    \/ TakesValue(line[i]) /\ i = Len(line)
    \/ Names(line[i], "port") /\ i < Len(line) /\ ~ValidPort(line[i + 1])

Ends(line) == {i \in AtOption(line) : Wrong(line, i) \/ Names(line[i], "help")}

Latest(S) == CHOOSE i \in S : \A j \in S : j <= i

\* The value of the last o on the line, or the default.
LastValue(line, o, default) ==
    LET at == {i \in AtOption(line) : Names(line[i], o)}
    IN IF at = {} THEN default ELSE line[Latest(at) + 1]

Means(line) ==
    LET given(o) == \E i \in AtOption(line) : Names(line[i], o)
        port == LastValue(line, "port", "")
    IN [svc |-> given("svc"), client |-> given("client"), server |-> given("server"),
        host |-> LastValue(line, "host", DefaultArgs.host),
        port |-> IF port = "" THEN DefaultArgs.port ELSE Numeral[port]]

-----------------------------------------------------------------------------
\* Properties.

TypeOK ==
    /\ in \in Mains /\ stage \in Stages
    /\ words \in [Mains -> Seq(Words)]
    /\ pos \in 0..Len(words[in])
    /\ args \in [Mains -> ArgsType]
    /\ exit \in {"no", "help", "error", "crash", "done"}
    /\ peer \in [host : Hosts \cup {"", "0.0.0.0"}, port : Ports]

\* The cursor walk of parse() and its handlers computes what the line means:
\* when it ends, every option was taken in its place and the last value counts
\* (ArgParse.cpp:11).
ParsesWhatIsMeant ==
    (stage \notin {"parse", "exited"}) =>
        Ends(words[in]) = {} /\ args[in] = Means(words[in])

\* A line ends the program during the parse exactly for what is first on it:
\* help before any error is help, an error before help is an error.
StopsAtFirst ==
    (stage = "exited" /\ exit \in {"help", "error"} /\ in = "main" /\ Ends(words["main"]) # {}) =>
        LET first == CHOOSE i \in Ends(words["main"]) : \A j \in Ends(words["main"]) : i <= j
        IN exit = (IF Wrong(words["main"], first) THEN "error" ELSE "help")

\* Every parse ends, whatever the line.
ParseEnds == stage = "parse" ~> stage # "parse"

\* The usage text says "--svc: Run as a Windows service. Requires server mode"
\* (RemoteCMD.cpp:33).
SvcRequiresServer == (in = "service" \/ stage = "scm") => Main.server

\* It says "--port <port>: Port to connect to / listen at" (RemoteCMD.cpp:37),
\* and the Makefile puts --port on the service's command line and starts it
\* with no words of its own (Makefile:1, Makefile:10).
ListensAtPort ==
    stage = "serving" /\ words["service"] = <<>> => peer.port = Main.port

=============================================================================
