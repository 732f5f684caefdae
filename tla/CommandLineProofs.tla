-------------------------- MODULE CommandLineProofs ---------------------------
(***************************************************************************)
(* Proofs about CommandLine, for any words and lines of any length: the    *)
(* cursor of ArgParser::parse visits the places where the options are, and *)
(* no other, and what it has put into Args by then is what the line means  *)
(* up to the cursor.                                                       *)
(***************************************************************************)
EXTENDS CommandLine, TLAPS

\* The options before the cursor were visited: none reaches over it, and none
\* ends the parse.
Walked(line, p) ==
    /\ p + 1 \in Places(line)
    /\ \A i \in AtOption(line) : i <= p =>
          NextPlace(line, i) <= p + 1 /\ ~Wrong(line, i) /\ ~Names(line[i], "help")

\* The options o that the cursor has passed, and the value of the last.
Taken(line, p, o) == {i \in AtOption(line) : i <= p /\ Names(line[i], o)}

LastTaken(line, p, o, default) ==
    LET at == Taken(line, p, o)
    IN IF at = {} THEN default ELSE line[Latest(at) + 1]

PortOf(w) == IF w = "" THEN DefaultArgs.port ELSE Numeral[w]

\* What the line means up to the cursor.
MeansUpTo(a, line, p) ==
    /\ \A o \in Flags : a[o] <=> Taken(line, p, o) # {}
    /\ a.host = LastTaken(line, p, "host", DefaultArgs.host)
    /\ a.port = PortOf(LastTaken(line, p, "port", ""))

\* The service parses its own line into a new Args, after main() is through.
ControlInv ==
    /\ stage \in {"dispatch", "scm"} => in = "main"
    /\ in = "main" => args["service"] = DefaultArgs
    /\ stage \notin {"parse", "exited"} => pos = Len(words[in])

WalkInv ==
    stage # "exited" => Walked(words[in], pos) /\ MeansUpTo(args[in], words[in], pos)

IInv == TypeOK /\ ControlInv /\ WalkInv /\ StopsAtFirst

-----------------------------------------------------------------------------
\* Words.

\* A word names one option.
LEMMA OneName ==
    ASSUME NEW w, NEW o \in Options, NEW u \in Options, Names(w, o), Names(w, u)
    PROVE  o = u
  BY DEF Names, KnownArgs, Options, Flags

LEMMA NumeralType ==
    ASSUME NEW w \in DOMAIN Numeral
    PROVE  w \in Words /\ w # "" /\ Numeral[w] \in Nat
  BY CommandLineAssumption

-----------------------------------------------------------------------------
\* Places.

LEMMA PlacesClosed ==
    ASSUME NEW line \in Seq(Words)
    PROVE  /\ 1 \in Places(line)
           /\ \A i \in AtOption(line) : NextPlace(line, i) \in Places(line)
<1>1. Len(line) \in Nat
  OBVIOUS
<1>2. 1 \in Places(line)
  BY <1>1 DEF Places, Closed
<1>3. ASSUME NEW i \in AtOption(line) PROVE NextPlace(line, i) \in Places(line)
  <2>1. i \in 1..Len(line) /\ i \in Places(line)
    BY DEF AtOption
  <2>2. NextPlace(line, i) \in 1..Len(line) + 2
    BY <1>1, <2>1 DEF NextPlace
  <2>3. ASSUME NEW S \in SUBSET (1..Len(line) + 2), Closed(line, S) PROVE NextPlace(line, i) \in S
    BY <2>1, <2>3 DEF Places, Closed
  <2>4. QED
    BY <2>2, <2>3 DEF Places
<1>4. QED
  BY <1>2, <1>3

\* There is no place between an option that is reached and the next.
LEMMA NoPlaceBetween ==
    ASSUME NEW line \in Seq(Words), NEW p \in Nat, p < Len(line), Walked(line, p),
           NEW j \in Places(line), p + 1 < j
    PROVE  NextPlace(line, p + 1) <= j
<1> DEFINE q == NextPlace(line, p + 1)
           S == {i \in Places(line) : i <= p + 1} \cup (q..Len(line) + 2)
<1>1. Len(line) \in Nat /\ q \in {p + 2, p + 3}
  BY DEF NextPlace
<1>2. p + 1 \in AtOption(line)
  BY <1>1 DEF Walked, AtOption
<1>3. S \in SUBSET (1..Len(line) + 2)
  BY <1>1 DEF Places
<1>4. Closed(line, S)
  <2>1. 1 \in S
    BY PlacesClosed
  <2>2. ASSUME NEW i \in S, i \in 1..Len(line) PROVE NextPlace(line, i) \in S
    <3>1. CASE i \in Places(line) /\ i <= p
      <4>1. i \in AtOption(line)
        BY <2>2, <3>1 DEF AtOption
      <4>2. NextPlace(line, i) \in Places(line) /\ NextPlace(line, i) <= p + 1
        BY <3>1, <4>1, PlacesClosed DEF Walked
      <4>3. QED
        BY <4>2
    <3>2. CASE i = p + 1
      BY <1>1, <3>2
    <3>3. CASE i >= q
      BY <1>1, <2>2, <3>3 DEF NextPlace
    <3>4. QED
      BY <1>1, <2>2, <3>1, <3>2, <3>3 DEF Places
  <2>3. QED
    BY <2>1, <2>2 DEF Closed
<1> HIDE DEF S
<1>5. j \in S
  BY <1>3, <1>4 DEF Places
<1>6. QED
  BY <1>1, <1>5 DEF S, Places

\* The cursor goes from an option to the next.
LEMMA WalkOn ==
    ASSUME NEW line \in Seq(Words), NEW p \in Nat, p < Len(line), Walked(line, p),
           ~Wrong(line, p + 1), ~Names(line[p + 1], "help"),
           NEW q \in Nat, q + 1 = NextPlace(line, p + 1)
    PROVE  /\ Walked(line, q) /\ q <= Len(line)
           /\ \A i \in AtOption(line) : i <= q <=> i <= p \/ i = p + 1
<1>1. Len(line) \in Nat /\ q \in {p + 1, p + 2}
  BY DEF NextPlace
<1>2. p + 1 \in AtOption(line)
  BY <1>1 DEF Walked, AtOption
<1>3. q + 1 \in Places(line)
  BY <1>2, PlacesClosed
<1>4. \A i \in AtOption(line) : i \in Nat /\ i \in Places(line)
  BY <1>1 DEF AtOption
<1>5. \A i \in AtOption(line) : i <= q <=> i <= p \/ i = p + 1
  <2> SUFFICES ASSUME NEW i \in AtOption(line), p + 1 < i PROVE q < i
    BY <1>1, <1>4
  <2>1. q + 1 <= i
    BY <1>4, NoPlaceBetween
  <2>2. QED
    BY <1>4, <2>1
<1>6. q <= Len(line)
  BY <1>1 DEF Wrong, NextPlace
<1>7. Walked(line, q)
  <2>1. ASSUME NEW i \in AtOption(line), i <= p PROVE NextPlace(line, i) <= q + 1
    <3>1. NextPlace(line, i) <= p + 1 /\ NextPlace(line, i) \in Nat
      BY <1>4, <2>1 DEF Walked, NextPlace
    <3>2. QED
      BY <1>1, <3>1
  <2>2. QED
    BY <1>3, <1>5, <2>1 DEF Walked
<1>8. QED
  BY <1>5, <1>6, <1>7

\* The first option that ends the parse is where the cursor stops.
LEMMA StopHere ==
    ASSUME NEW line \in Seq(Words), NEW p \in Nat, p < Len(line), Walked(line, p),
           Wrong(line, p + 1) \/ Names(line[p + 1], "help")
    PROVE  p + 1 = CHOOSE i \in Ends(line) : \A j \in Ends(line) : i <= j
<1>1. Len(line) \in Nat
  OBVIOUS
<1>2. p + 1 \in Ends(line)
  BY <1>1 DEF Walked, AtOption, Ends
<1>3. \A j \in Ends(line) : j \in Nat /\ p + 1 <= j
  BY <1>1 DEF Walked, AtOption, Ends
<1>4. QED
  BY <1>2, <1>3

-----------------------------------------------------------------------------
\* Values.

\* What the cursor has taken when it goes from p to q over the option o0.
LEMMA TakenOn ==
    ASSUME NEW line \in Seq(Words), NEW p \in Nat, NEW q \in Nat,
           p + 1 \in AtOption(line),
           \A i \in AtOption(line) : i <= q <=> i <= p \/ i = p + 1,
           NEW o0 \in Options, Names(line[p + 1], o0), NEW o \in Options
    PROVE  Taken(line, q, o) = IF o = o0 THEN Taken(line, p, o) \cup {p + 1} ELSE Taken(line, p, o)
<1>1. o # o0 => ~Names(line[p + 1], o)
  BY OneName
<1>2. CASE o = o0
  BY <1>2 DEF Taken
<1>3. CASE o # o0
  BY <1>1, <1>3 DEF Taken
<1>4. QED
  BY <1>2, <1>3

\* The option that was passed last has the last value.
LEMMA LastOn ==
    ASSUME NEW line \in Seq(Words), NEW p \in Nat, NEW q \in Nat, NEW o \in Options, NEW default,
           p + 1 \in Taken(line, q, o), \A j \in Taken(line, q, o) : j <= p + 1
    PROVE  LastTaken(line, q, o, default) = line[p + 2]
<1> DEFINE at == Taken(line, q, o)
<1>1. p + 1 \in at /\ \A j \in at : j \in Nat /\ j <= p + 1
  BY DEF Taken, AtOption
<1>2. Latest(at) = p + 1
  BY <1>1 DEF Latest
<1>3. at # {} /\ Latest(at) + 1 = p + 2
  BY <1>1, <1>2
<1>4. QED
  BY <1>3 DEF LastTaken

LEMMA LastSame ==
    ASSUME NEW line, NEW p, NEW q, NEW o, NEW default, Taken(line, q, o) = Taken(line, p, o)
    PROVE  LastTaken(line, q, o, default) = LastTaken(line, p, o, default)
  BY DEF LastTaken

\* Nothing is taken at the start of a line.
LEMMA AtStart ==
    ASSUME NEW line \in Seq(Words)
    PROVE  Walked(line, 0) /\ MeansUpTo(DefaultArgs, line, 0)
<1>1. \A i \in AtOption(line) : ~(i <= 0)
  BY DEF AtOption
<1>2. \A o : Taken(line, 0, o) = {}
  BY <1>1 DEF Taken
<1>3. Walked(line, 0)
  BY <1>1, PlacesClosed DEF Walked
<1>4. MeansUpTo(DefaultArgs, line, 0)
  <2>1. \A o, default : LastTaken(line, 0, o, default) = default
    BY <1>2 DEF LastTaken
  <2>2. \A o \in Flags : ~DefaultArgs[o]
    BY DEF Flags, DefaultArgs
  <2>3. QED
    BY <1>2, <2>1, <2>2 DEF MeansUpTo, PortOf
<1>5. QED
  BY <1>3, <1>4

\* At the end of the line the cursor has taken everything.
LEMMA AtEnd ==
    ASSUME NEW line \in Seq(Words), NEW a \in ArgsType, Walked(line, Len(line)),
           MeansUpTo(a, line, Len(line))
    PROVE  Ends(line) = {} /\ a = Means(line)
<1>1. \A i \in AtOption(line) : i <= Len(line)
  BY DEF AtOption
<1>2. Ends(line) = {}
  BY <1>1 DEF Walked, Ends
<1>3. \A o : Taken(line, Len(line), o) = {i \in AtOption(line) : Names(line[i], o)}
  BY <1>1 DEF Taken
<1>4. \A o, default : LastTaken(line, Len(line), o, default) = LastValue(line, o, default)
  BY <1>3 DEF LastTaken, LastValue
<1>5. \A o \in Flags : a[o] <=> \E i \in AtOption(line) : Names(line[i], o)
  BY <1>3 DEF MeansUpTo
<1>6. /\ a.svc = (\E i \in AtOption(line) : Names(line[i], "svc"))
      /\ a.client = (\E i \in AtOption(line) : Names(line[i], "client"))
      /\ a.server = (\E i \in AtOption(line) : Names(line[i], "server"))
  <2>1. a.svc \in BOOLEAN /\ a.client \in BOOLEAN /\ a.server \in BOOLEAN
    BY DEF ArgsType
  <2>2. QED
    BY <1>5, <2>1 DEF Flags
<1>7. /\ a.host = LastValue(line, "host", DefaultArgs.host)
      /\ a.port = PortOf(LastValue(line, "port", ""))
  BY <1>4 DEF MeansUpTo
<1>8. a = Means(line)
  BY <1>6, <1>7 DEF ArgsType, Means, PortOf
<1>9. QED
  BY <1>2, <1>8

\* A flag is stored.
LEMMA FlagOn ==
    ASSUME NEW line \in Seq(Words), NEW p \in Nat, NEW q \in Nat,
           p + 1 \in AtOption(line),
           \A i \in AtOption(line) : i <= q <=> i <= p \/ i = p + 1,
           NEW o \in Flags, Names(line[p + 1], o),
           NEW a \in ArgsType, MeansUpTo(a, line, p)
    PROVE  /\ [a EXCEPT ![o] = TRUE] \in ArgsType
           /\ MeansUpTo([a EXCEPT ![o] = TRUE], line, q)
<1> DEFINE b == [a EXCEPT ![o] = TRUE]
<1>1. b \in ArgsType /\ b[o] = TRUE /\ b.host = a.host /\ b.port = a.port
      /\ \A u \in Flags \ {o} : b[u] = a[u]
  BY DEF ArgsType, Flags
<1> HIDE DEF b
<1>2. \A u \in Options : Taken(line, q, u) =
        IF u = o THEN Taken(line, p, u) \cup {p + 1} ELSE Taken(line, p, u)
  BY TakenOn DEF Options
<1>3. \A u \in Flags : b[u] <=> Taken(line, q, u) # {}
  <2>1. Taken(line, q, o) # {}
    BY <1>2 DEF Options
  <2>2. \A u \in Flags \ {o} : Taken(line, q, u) = Taken(line, p, u)
    BY <1>2 DEF Options
  <2>3. ASSUME NEW u \in Flags \ {o} PROVE b[u] <=> Taken(line, q, u) # {}
    <3>1. b[u] = a[u]
      BY <1>1
    <3>2. a[u] <=> Taken(line, p, u) # {}
      BY DEF MeansUpTo
    <3>3. QED
      BY <2>2, <3>1, <3>2
  <2>4. QED
    BY <1>1, <2>1, <2>3
<1>4. \A default : /\ LastTaken(line, q, "host", default) = LastTaken(line, p, "host", default)
                   /\ LastTaken(line, q, "port", default) = LastTaken(line, p, "port", default)
  BY <1>2, LastSame DEF Options, Flags
<1>5. QED
  BY <1>1, <1>3, <1>4 DEF MeansUpTo, b

\* A host, or a port, is stored.
LEMMA ValueOn ==
    ASSUME NEW line \in Seq(Words), NEW p \in Nat, NEW q \in Nat,
           p + 1 \in AtOption(line), p + 2 \in 1..Len(line),
           \A i \in AtOption(line) : i <= q <=> i <= p \/ i = p + 1,
           NEW a \in ArgsType, MeansUpTo(a, line, p)
    PROVE  /\ Names(line[p + 1], "host") =>
                 /\ [a EXCEPT !["host"] = line[p + 2]] \in ArgsType
                 /\ MeansUpTo([a EXCEPT !["host"] = line[p + 2]], line, q)
           /\ Names(line[p + 1], "port") /\ ValidPort(line[p + 2]) =>
                 /\ [a EXCEPT !["port"] = Numeral[line[p + 2]]] \in ArgsType
                 /\ MeansUpTo([a EXCEPT !["port"] = Numeral[line[p + 2]]], line, q)
<1>1. ASSUME Names(line[p + 1], "host")
      PROVE  /\ [a EXCEPT !["host"] = line[p + 2]] \in ArgsType
             /\ MeansUpTo([a EXCEPT !["host"] = line[p + 2]], line, q)
  <2> DEFINE b == [a EXCEPT !["host"] = line[p + 2]]
  <2>1. b \in ArgsType /\ b.host = line[p + 2] /\ b.port = a.port /\ \A u \in Flags : b[u] = a[u]
    BY DEF ArgsType, Flags, Hosts
  <2> HIDE DEF b
  <2>2. \A u \in Options : Taken(line, q, u) =
          IF u = "host" THEN Taken(line, p, u) \cup {p + 1} ELSE Taken(line, p, u)
    <3>1. "host" \in Options
      BY DEF Options
    <3>2. QED
      BY <1>1, <3>1, TakenOn
  <2>3. \A u \in Flags : Taken(line, q, u) = Taken(line, p, u)
    BY <2>2 DEF Options, Flags
  <2>4. \A u \in Flags : b[u] <=> Taken(line, q, u) # {}
    BY <2>1, <2>3 DEF MeansUpTo
  <2>5. LastTaken(line, q, "port", "") = LastTaken(line, p, "port", "")
    <3>1. Taken(line, q, "port") = Taken(line, p, "port")
      BY <2>2 DEF Options
    <3>2. QED
      BY <3>1 DEF LastTaken
  <2>6. LastTaken(line, q, "host", DefaultArgs.host) = line[p + 2]
    <3>1. "host" \in Options
      BY DEF Options
    <3>2. Taken(line, q, "host") = Taken(line, p, "host") \cup {p + 1}
      BY <2>2, <3>1
    <3>3. \A j \in Taken(line, p, "host") : j \in Nat /\ j <= p
      BY DEF Taken, AtOption
    <3>4. p + 1 \in Taken(line, q, "host") /\ \A j \in Taken(line, q, "host") : j <= p + 1
      BY <3>2, <3>3
    <3>5. QED
      BY <3>1, <3>4, LastOn
  <2>7. QED
    BY <2>1, <2>4, <2>5, <2>6 DEF MeansUpTo, b
<1>2. ASSUME Names(line[p + 1], "port"), ValidPort(line[p + 2])
      PROVE  /\ [a EXCEPT !["port"] = Numeral[line[p + 2]]] \in ArgsType
             /\ MeansUpTo([a EXCEPT !["port"] = Numeral[line[p + 2]]], line, q)
  <2> DEFINE b == [a EXCEPT !["port"] = Numeral[line[p + 2]]]
  <2>1. Numeral[line[p + 2]] \in Ports
    BY <1>2 DEF ValidPort
  <2>2. /\ b \in ArgsType /\ b.host = a.host /\ b.port = Numeral[line[p + 2]]
        /\ \A u \in Flags : b[u] = a[u]
    BY <2>1 DEF ArgsType, Flags
  <2> HIDE DEF b
  <2>3. \A u \in Options : Taken(line, q, u) =
          IF u = "port" THEN Taken(line, p, u) \cup {p + 1} ELSE Taken(line, p, u)
    <3>1. "port" \in Options
      BY DEF Options
    <3>2. QED
      BY <1>2, <3>1, TakenOn
  <2>4. \A u \in Flags : Taken(line, q, u) = Taken(line, p, u)
    BY <2>3 DEF Options, Flags
  <2>5. \A u \in Flags : b[u] <=> Taken(line, q, u) # {}
    BY <2>2, <2>4 DEF MeansUpTo
  <2>6. LastTaken(line, q, "host", DefaultArgs.host) = LastTaken(line, p, "host", DefaultArgs.host)
    BY <2>3, LastSame DEF Options
  <2>7. LastTaken(line, q, "port", "") = line[p + 2]
    <3>1. "port" \in Options
      BY DEF Options
    <3>2. Taken(line, q, "port") = Taken(line, p, "port") \cup {p + 1}
      BY <2>3, <3>1
    <3>3. \A j \in Taken(line, p, "port") : j \in Nat /\ j <= p
      BY DEF Taken, AtOption
    <3>4. p + 1 \in Taken(line, q, "port") /\ \A j \in Taken(line, q, "port") : j <= p + 1
      BY <3>2, <3>3
    <3>5. QED
      BY <3>1, <3>4, LastOn
  <2>8. PortOf(line[p + 2]) = Numeral[line[p + 2]]
    BY <1>2, CommandLineAssumption DEF ValidPort, PortOf
  <2>9. QED
    BY <2>2, <2>5, <2>6, <2>7, <2>8 DEF MeansUpTo, b
<1>3. QED
  BY <1>1, <1>2

-----------------------------------------------------------------------------
LEMMA LineIsSeq ==
    ASSUME NEW n \in Nat, NEW line \in Lines(n)
    PROVE  line \in Seq(Words)
<1>1. PICK k \in 0..n : line \in [1..k -> Words]
  BY DEF Lines
<1>2. k \in Nat
  OBVIOUS
<1>3. line = [i \in 1..k |-> line[i]] /\ \A i \in 1..k : line[i] \in Words
  BY <1>1
<1>4. QED
  BY <1>2, <1>3

LEMMA Bounds == MaxWords \in Nat /\ MaxStart \in Nat
  BY CommandLineAssumption

LEMMA InitInv == Init => IInv
<1> SUFFICES ASSUME Init PROVE IInv
  OBVIOUS
<1>1. PICK line \in Lines(MaxWords) : words = [main |-> line, service |-> <<>>]
  BY DEF Init
<1>2. line \in Seq(Words) /\ words \in [Mains -> Seq(Words)] /\ words["main"] = line
  <2>1. line \in Seq(Words)
    BY Bounds, LineIsSeq
  <2>2. <<>> \in Seq(Words)
    OBVIOUS
  <2>3. words["main"] = line /\ words["service"] = <<>> /\ DOMAIN words = Mains
    BY <1>1 DEF Mains
  <2>4. words = [m \in Mains |-> words[m]]
    BY <1>1, <2>3 DEF Mains
  <2>5. \A m \in Mains : words[m] \in Seq(Words)
    BY <2>1, <2>2, <2>3 DEF Mains
  <2>6. QED
    BY <2>1, <2>3, <2>4, <2>5
<1>3. DefaultArgs \in ArgsType
  BY DEF DefaultArgs, ArgsType, Hosts, Ports
<1>4. TypeOK
  <2>1. peer \in [host : Hosts \cup {"", "0.0.0.0"}, port : Ports]
    <3>1. peer = [host |-> "", port |-> 0]
      BY DEF Init, NoPeer
    <3>2. 0 \in Ports
      BY DEF Ports
    <3>3. QED
      BY <3>1, <3>2
  <2>2. pos \in 0..Len(words[in])
    BY <1>2 DEF Init
  <2>3. args \in [Mains -> ArgsType]
    BY <1>3 DEF Init
  <2>4. QED
    BY <1>2, <2>1, <2>2, <2>3 DEF Init, TypeOK, Mains, Stages
<1>5. ControlInv /\ StopsAtFirst
  BY DEF Init, ControlInv, StopsAtFirst, Mains
<1>6. WalkInv
  BY <1>2, AtStart DEF Init, WalkInv, Mains
<1>7. QED
  BY <1>4, <1>5, <1>6 DEF IInv

LEMMA LineType ==
    ASSUME TypeOK
    PROVE  Line \in Seq(Words) /\ Len(Line) \in Nat /\ pos \in Nat
<1>1. words[in] \in Seq(Words)
  BY DEF TypeOK
<1>2. Len(words[in]) \in Nat
  BY <1>1
<1>3. pos \in 0..Len(words[in])
  BY DEF TypeOK
<1>4. pos \in Nat
  BY <1>2, <1>3
<1>5. QED
  BY <1>1, <1>2, <1>4 DEF Line

\* An option's word, and what its handler leaves.
LEMMA OptionStep ==
    ASSUME IInv, NEW o \in Options \ {"help"}, Option(o), ~Wrong(Line, pos + 1),
           UNCHANGED <<in, stage, words, exit, peer>>,
           NEW b \in ArgsType, args' = [args EXCEPT ![in] = b],
           pos' = NextPlace(Line, pos + 1) - 1,
           pos + 1 \in AtOption(Line) /\ (\A i \in AtOption(Line) : i <= pos' <=> i <= pos \/ i = pos + 1)
               => MeansUpTo(b, Line, pos')
    PROVE  IInv'
<1>1. Line \in Seq(Words) /\ Len(Line) \in Nat /\ pos \in Nat
  BY LineType DEF IInv
<1>2. stage = "parse" /\ pos < Len(Line) /\ Names(Line[pos + 1], o)
  BY DEF Option
<1>3. ~Names(Line[pos + 1], "help")
  BY <1>2, OneName DEF Options
<1>4. Walked(Line, pos)
  BY <1>2 DEF IInv, WalkInv, Line
<1>5. pos' \in Nat /\ pos' + 1 = NextPlace(Line, pos + 1)
  BY <1>1 DEF NextPlace
<1>6. /\ Walked(Line, pos') /\ pos' <= Len(Line)
      /\ \A i \in AtOption(Line) : i <= pos' <=> i <= pos \/ i = pos + 1
  BY <1>1, <1>2, <1>3, <1>4, <1>5, WalkOn
<1>7. MeansUpTo(b, Line, pos')
  BY <1>1, <1>2, <1>4, <1>6 DEF Walked, AtOption
<1>8. args' \in [Mains -> ArgsType] /\ args'[in] = b
  BY DEF IInv, TypeOK
<1>9. TypeOK'
  <2>1. pos' \in 0..Len(words[in])
    BY <1>1, <1>5, <1>6 DEF Line
  <2>2. QED
    BY <1>8, <2>1 DEF IInv, TypeOK
<1>10. ControlInv'
  BY <1>2 DEF IInv, TypeOK, ControlInv, Mains
<1>11. WalkInv'
  BY <1>6, <1>7, <1>8 DEF WalkInv, Line
<1>12. StopsAtFirst'
  BY <1>2 DEF StopsAtFirst
<1>13. QED
  BY <1>9, <1>10, <1>11, <1>12 DEF IInv

LEMMA ParseFlagStep ==
    ASSUME IInv, ParseFlag
    PROVE  IInv'
<1>1. PICK o \in Flags : Option(o) /\ args' = [args EXCEPT ![in][o] = TRUE]
  BY DEF ParseFlag
<1> DEFINE b == [args[in] EXCEPT ![o] = TRUE]
<1>2. Line \in Seq(Words) /\ Len(Line) \in Nat /\ pos \in Nat
  BY LineType DEF IInv
<1>3. stage = "parse" /\ pos < Len(Line) /\ Names(Line[pos + 1], o)
  BY <1>1 DEF Option
<1>4. Known(Line[pos + 1]) /\ ~TakesValue(Line[pos + 1])
  <2>1. \A u \in {"help", "host", "port"} : ~Names(Line[pos + 1], u)
    BY <1>3, OneName DEF Options, Flags
  <2>2. QED
    BY <1>3, <2>1 DEF Known, TakesValue, Options
<1>5. ~Wrong(Line, pos + 1) /\ pos' = NextPlace(Line, pos + 1) - 1
  BY <1>2, <1>4 DEF Wrong, NextPlace, TakesValue, ParseFlag
<1>6. args[in] \in ArgsType /\ MeansUpTo(args[in], Line, pos)
  BY <1>3 DEF IInv, TypeOK, WalkInv, Line
<1>7. b \in ArgsType
  BY DEF IInv, TypeOK, ArgsType, Flags
<1>8. pos + 1 \in AtOption(Line) /\ (\A i \in AtOption(Line) : i <= pos' <=> i <= pos \/ i = pos + 1)
        => MeansUpTo(b, Line, pos')
  <2>1. pos' \in Nat
    BY <1>2 DEF ParseFlag
  <2>2. QED
    BY <1>2, <1>3, <1>6, <2>1, FlagOn
<1>9. args' = [args EXCEPT ![in] = b]
  BY <1>1
<1> HIDE DEF b
<1>10. o \in Options \ {"help"}
  BY DEF Options, Flags
<1>11. QED
  BY <1>1, <1>5, <1>7, <1>8, <1>9, <1>10, OptionStep DEF ParseFlag

\* ParseHost and ParsePort.
LEMMA ParseValueStep ==
    ASSUME IInv, ParseHost \/ ParsePort
    PROVE  IInv'
<1>1. Line \in Seq(Words) /\ Len(Line) \in Nat /\ pos \in Nat
  BY LineType DEF IInv
<1>2. PICK o \in {"host", "port"} :
        /\ Option(o) /\ HasValue /\ (o = "port" => ValidPort(Value))
        /\ TakeValue(o, IF o = "host" THEN Value ELSE Numeral[Value])
        /\ UNCHANGED <<in, stage, words, exit, peer>>
  BY DEF ParseHost, ParsePort
<1> DEFINE v == IF o = "host" THEN Value ELSE Numeral[Value]
           b == [args[in] EXCEPT ![o] = v]
<1>3. stage = "parse" /\ pos < Len(Line) /\ Names(Line[pos + 1], o)
  BY <1>2 DEF Option
<1>4. pos + 2 \in 1..Len(Line) /\ Value = Line[pos + 2]
  BY <1>1, <1>2 DEF HasValue, Value
<1>5. Known(Line[pos + 1]) /\ TakesValue(Line[pos + 1])
  BY <1>3 DEF Known, TakesValue, Options
<1>6. Names(Line[pos + 1], "port") => o = "port"
  BY <1>3, OneName DEF Options
<1>7. ~Wrong(Line, pos + 1) /\ pos' = NextPlace(Line, pos + 1) - 1
  BY <1>1, <1>2, <1>4, <1>5, <1>6 DEF Wrong, NextPlace, TakeValue
<1>8. args[in] \in ArgsType /\ MeansUpTo(args[in], Line, pos)
  BY <1>3 DEF IInv, TypeOK, WalkInv, Line
<1>9. args' = [args EXCEPT ![in] = b]
  BY <1>2 DEF TakeValue
<1>10. b \in ArgsType
  <2>1. CASE o = "host"
    BY <1>1, <1>4, <1>8, <2>1 DEF ArgsType, Hosts
  <2>2. CASE o = "port"
    BY <1>2, <1>8, <2>2 DEF ArgsType, ValidPort
  <2>3. QED
    BY <2>1, <2>2
<1>11. pos + 1 \in AtOption(Line) /\ (\A i \in AtOption(Line) : i <= pos' <=> i <= pos \/ i = pos + 1)
         => MeansUpTo(b, Line, pos')
  <2> SUFFICES ASSUME pos + 1 \in AtOption(Line),
                      \A i \in AtOption(Line) : i <= pos' <=> i <= pos \/ i = pos + 1
               PROVE  MeansUpTo(b, Line, pos')
    OBVIOUS
  <2>1. pos' \in Nat
    BY <1>1, <1>7 DEF NextPlace
  <2>2. CASE o = "host"
    BY <1>1, <1>3, <1>4, <1>8, <2>1, <2>2, ValueOn
  <2>3. CASE o = "port"
    BY <1>1, <1>2, <1>3, <1>4, <1>8, <2>1, <2>3, ValueOn
  <2>4. QED
    BY <2>2, <2>3
<1> HIDE DEF b
<1>12. o \in Options \ {"help"}
  BY DEF Options
<1>13. QED
  BY <1>2, <1>7, <1>9, <1>10, <1>11, <1>12, OptionStep

-----------------------------------------------------------------------------
\* The ends of the process.

LEMMA ExitStep ==
    ASSUME IInv, NEW how \in {"help", "error", "crash", "done"}, Exit(how),
           StopsAtFirst'
    PROVE  IInv'
<1>1. TypeOK'
  BY DEF IInv, TypeOK, Exit, Stages
<1>2. ControlInv' /\ WalkInv'
  BY DEF IInv, Exit, ControlInv, WalkInv
<1>3. QED
  BY <1>1, <1>2 DEF IInv

LEMMA ParseHelpStep ==
    ASSUME IInv, ParseHelp
    PROVE  IInv'
<1>1. Line \in Seq(Words) /\ Len(Line) \in Nat /\ pos \in Nat
  BY LineType DEF IInv
<1>2. stage = "parse" /\ pos < Len(Line) /\ Names(Line[pos + 1], "help") /\ Exit("help")
  BY DEF ParseHelp, Option
<1>3. Walked(Line, pos)
  BY <1>2 DEF IInv, WalkInv, Line
<1>4. pos + 1 = CHOOSE i \in Ends(Line) : \A j \in Ends(Line) : i <= j
  BY <1>1, <1>2, <1>3, StopHere
<1>5. ~Wrong(Line, pos + 1)
  <2>1. \A u \in {"host", "port"} : ~Names(Line[pos + 1], u)
    BY <1>2, OneName DEF Options
  <2>2. QED
    BY <1>2, <2>1 DEF Wrong, Known, TakesValue, Options
<1>6. StopsAtFirst'
  BY <1>2, <1>4, <1>5 DEF StopsAtFirst, Exit, Line
<1>7. QED
  BY <1>2, <1>6, ExitStep

LEMMA ParseFailStep ==
    ASSUME IInv, ParseFail
    PROVE  IInv'
<1>1. Line \in Seq(Words) /\ Len(Line) \in Nat /\ pos \in Nat
  BY LineType DEF IInv
<1>2. stage = "parse" /\ pos < Len(Line)
  BY DEF ParseFail
<1>3. PICK how \in {"error", "crash"} : Exit(how) /\ (how = "error") = (in = "main")
  BY DEF ParseFail, Fail
<1>4. Walked(Line, pos)
  BY <1>2 DEF IInv, WalkInv, Line
<1>5. Wrong(Line, pos + 1)
  BY <1>1, <1>2 DEF ParseFail, Wrong, Option, HasValue, Value, TakesValue
<1>6. pos + 1 = CHOOSE i \in Ends(Line) : \A j \in Ends(Line) : i <= j
  BY <1>1, <1>2, <1>4, <1>5, StopHere
<1>7. StopsAtFirst'
  BY <1>3, <1>5, <1>6 DEF StopsAtFirst, Exit, Line
<1>8. QED
  BY <1>3, <1>7, ExitStep

\* What ends the process later ends no line with a word that does.
LEMMA LaterEndStep ==
    ASSUME IInv, DispatchFail \/ NotAService \/ SetupFail
    PROVE  IInv'
<1>1. stage \in {"dispatch", "scm", "setup"}
  BY DEF DispatchFail, NotAService, SetupFail
<1>2. PICK how \in {"error", "crash", "done"} : Exit(how)
  BY DEF DispatchFail, NotAService, SetupFail, Fail
<1>3. Ends(words[in]) = {}
  <2>1. pos = Len(words[in]) /\ Walked(words[in], pos) /\ MeansUpTo(args[in], words[in], pos)
    BY <1>1 DEF IInv, ControlInv, WalkInv
  <2>2. words[in] \in Seq(Words) /\ args[in] \in ArgsType
    BY DEF IInv, TypeOK
  <2>3. QED
    BY <2>1, <2>2, AtEnd
<1>4. StopsAtFirst'
  BY <1>2, <1>3 DEF StopsAtFirst, Exit
<1>5. QED
  BY <1>2, <1>4, ExitStep

-----------------------------------------------------------------------------
\* From stage to stage.

LEMMA StageStep ==
    ASSUME IInv, ParseEnd \/ Dispatch \/ Settled \/ UNCHANGED vars
    PROVE  IInv'
<1>1. UNCHANGED <<in, words, pos, args, exit, peer>>
  BY DEF ParseEnd, Dispatch, Settled, vars
<1>2. \/ stage' = stage
      \/ stage = "parse" /\ pos = Len(words[in]) /\ stage' = (IF in = "main" THEN "dispatch" ELSE "setup")
      \/ stage = "dispatch" /\ stage' \in {"scm", "setup"}
  BY DEF ParseEnd, Dispatch, Settled, vars, Line
<1>3. TypeOK'
  BY <1>1, <1>2 DEF IInv, TypeOK, Stages
<1>4. ControlInv'
  BY <1>1, <1>2 DEF IInv, ControlInv
<1>5. WalkInv'
  BY <1>1, <1>2 DEF IInv, WalkInv
<1>6. StopsAtFirst'
  <2>1. stage' = "exited" => stage = "exited"
    BY <1>2
  <2>2. QED
    BY <1>1, <2>1 DEF IInv, StopsAtFirst
<1>7. QED
  BY <1>3, <1>4, <1>5, <1>6 DEF IInv

LEMMA ConnectStep ==
    ASSUME IInv, Listen \/ Connect
    PROVE  IInv'
<1>1. /\ stage = "setup" /\ stage' \in {"serving", "relaying"}
      /\ UNCHANGED <<in, words, pos, args, exit>>
  BY DEF Listen, Connect
<1>2. peer' \in [host : Hosts \cup {"", "0.0.0.0"}, port : Ports]
  <2>1. \A m \in Mains : args[m].host \in Hosts /\ args[m].port \in Ports
    BY DEF IInv, TypeOK, ArgsType
  <2>2. in \in Mains /\ "main" \in Mains
    BY DEF IInv, TypeOK, Mains
  <2>3. CASE Listen
    BY <2>1, <2>2, <2>3 DEF Listen, Main
  <2>4. CASE Connect
    BY <2>1, <2>2, <2>4 DEF Connect, Main
  <2>5. QED
    BY <2>3, <2>4
<1>3. TypeOK'
  BY <1>1, <1>2 DEF IInv, TypeOK, Stages
<1>4. ControlInv' /\ StopsAtFirst'
  BY <1>1 DEF IInv, ControlInv, StopsAtFirst
<1>5. WalkInv'
  BY <1>1 DEF IInv, WalkInv
<1>6. QED
  BY <1>3, <1>4, <1>5 DEF IInv

\* The service starts over with a line and an Args of its own.
LEMMA ServiceMainStep ==
    ASSUME IInv, ServiceMain
    PROVE  IInv'
<1>1. PICK line \in Lines(MaxStart) : words' = [words EXCEPT !["service"] = line]
  BY DEF ServiceMain
<1>2. line \in Seq(Words) /\ "service" \in Mains
  BY Bounds, LineIsSeq DEF Mains
<1>3. words' \in [Mains -> Seq(Words)] /\ words'["service"] = line
  BY <1>1, <1>2 DEF IInv, TypeOK
<1>4. /\ stage = "scm" /\ stage' = "parse" /\ in' = "service" /\ pos' = 0
      /\ UNCHANGED <<args, exit, peer>>
  BY DEF ServiceMain
<1>5. args["service"] = DefaultArgs
  BY <1>4 DEF IInv, ControlInv
<1>6. TypeOK'
  <2>1. Len(line) \in Nat
    BY <1>2
  <2>2. pos' \in 0..Len(words'[in'])
    BY <1>3, <1>4, <2>1
  <2>3. QED
    BY <1>2, <1>3, <1>4, <2>2 DEF IInv, TypeOK, Stages
<1>7. ControlInv' /\ StopsAtFirst'
  BY <1>4 DEF ControlInv, StopsAtFirst
<1>8. WalkInv'
  BY <1>2, <1>3, <1>4, <1>5, AtStart DEF WalkInv
<1>9. QED
  BY <1>6, <1>7, <1>8 DEF IInv

LEMMA NextInv == IInv /\ [Next]_vars => IInv'
  BY ParseFlagStep, ParseValueStep, ParseHelpStep, ParseFailStep, LaterEndStep, StageStep,
     ConnectStep, ServiceMainStep
  DEF Next, Parse

-----------------------------------------------------------------------------
\* The inductive invariant holds of every run of the program.
THEOREM Invariance == Spec => []IInv
  BY InitInv, NextInv, PTL DEF Spec

\* Every variable keeps its type, for any words and lines of any length; the
\* cursor never leaves the line, and a port always fits 16 bits.
THEOREM TypeCorrect == Spec => []TypeOK
  BY Invariance, PTL DEF IInv

\* The cursor of parse() and of its handlers computes what the line means
\* (ArgParse.cpp:5-48): any line, main's and the service's.
THEOREM ParsesWhatIsMeantThm == Spec => []ParsesWhatIsMeant
<1>1. ASSUME IInv, stage \notin {"parse", "exited"}
      PROVE  Ends(words[in]) = {} /\ args[in] = Means(words[in])
  <2>1. pos = Len(words[in]) /\ Walked(words[in], pos) /\ MeansUpTo(args[in], words[in], pos)
    BY <1>1 DEF IInv, ControlInv, WalkInv
  <2>2. words[in] \in Seq(Words) /\ args[in] \in ArgsType
    BY <1>1 DEF IInv, TypeOK
  <2>3. QED
    BY <2>1, <2>2, AtEnd
<1>2. IInv => ParsesWhatIsMeant
  BY <1>1 DEF ParsesWhatIsMeant
<1>3. QED
  BY <1>2, Invariance, PTL

\* The first word that is help or an error decides how the program ends, on any
\* line (ArgParse.cpp:5-48).
THEOREM StopsAtFirstThm == Spec => []StopsAtFirst
  BY Invariance, PTL DEF IInv

\* Every turn of parse() that does not end it goes forward over at least one
\* word, and not past the end of the line: a line of n words is parsed in at most
\* n turns. This is the step of ParseEnds, for lines of any length
\* (ArgParse.cpp:11-29).
ParseAdvances ==
    [][stage = "parse" /\ stage' = "parse" =>
          /\ pos < pos' /\ pos' <= Len(words[in])
          /\ UNCHANGED <<in, words>>]_vars

THEOREM ParseAdvancesThm == Spec => ParseAdvances
<1>1. ASSUME IInv, IInv', [Next]_vars, ~UNCHANGED vars, stage = "parse", stage' = "parse"
      PROVE  pos < pos' /\ pos' <= Len(words[in]) /\ UNCHANGED <<in, words>>
  <2>1. pos \in Nat /\ pos' \in 0..Len(words'[in'])
    <3>1. pos \in Nat
      BY <1>1, LineType DEF IInv
    <3>2. TypeOK'
      BY <1>1 DEF IInv
    <3>3. pos' \in 0..Len(words'[in'])
      BY <3>2, Zenon DEF TypeOK
    <3>4. QED
      BY <3>1, <3>3
  <2>2. CASE ParseFlag \/ ParseHost \/ ParsePort
    <3>1. UNCHANGED <<in, words>> /\ pos' \in {pos + 1, pos + 2}
      BY <2>2 DEF ParseFlag, ParseHost, ParsePort, TakeValue
    <3>2. pos' <= Len(words[in])
      BY <2>1, <3>1
    <3>3. QED
      BY <2>1, <3>1, <3>2
  <2>3. CASE ~(ParseFlag \/ ParseHost \/ ParsePort)
    BY <1>1, <2>3
    DEF Next, Parse, ParseHelp, ParseFail, ParseEnd, DispatchFail, Dispatch, NotAService,
        ServiceMain, Listen, Connect, SetupFail, Settled, Exit, Fail
  <2>4. QED
    BY <2>2, <2>3
<1>2. QED
  BY <1>1, Invariance, NextInv, PTL DEF Spec, ParseAdvances

===============================================================================
