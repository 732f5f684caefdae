---------------------------- MODULE HandlesProofs -----------------------------
(***************************************************************************)
(* Proofs about Handles, for any connections and any handles. Each full    *)
(* expression of the code keeps one owner per open handle because moves    *)
(* swap and destructors close; a session's handles stay its own because    *)
(* the accept loop only destroys the ClientConns of threads that ended; so *)
(* that no call is made on a handle that is closed or somebody else's.     *)
(***************************************************************************)
EXTENDS Handles, TLAPS

\* OwnedOnce, of the slots s and the open handles o.
Exact(s, o) ==
    /\ o = {s[t] : t \in Slots} \ {Null}
    /\ \A t, u \in Slots : s[t] = s[u] /\ s[t] # Null => t = u

\* A valuation of the slots.
Valuations == [Slots -> Handles \cup {Null}]

Holds(c, M) == \A m \in M : slot[<<c, m>>] # Null

\* What a session uses; its thread's handle is the accept loop's.
Own == {"socket", "read", "write", "outRead", "outWrite", "inRead", "inWrite",
        "process", "mainThread", "outDone", "inDone"}

\* What a session holds at each point of ClientConn::handle.
SessionInv(c) ==
    /\ session[c] \notin {"none", "ended"} => Holds(c, {"socket"})
    /\ session[c] \in {"outWrite", "outMove", "inWrite", "inMove"} => Holds(c, {"read"})
    /\ session[c] \in {"outMove", "inMove"} => Holds(c, {"write"})
    /\ session[c] \in {"inRead", "inWrite", "inMove", "process", "transfers", "relay", "end"} =>
          Holds(c, {"outRead", "outWrite"})
    /\ session[c] \in {"process", "transfers", "relay", "end"} => Holds(c, {"inRead", "inWrite"})
    /\ session[c] \in {"transfers", "relay", "end"} => Holds(c, {"process", "mainThread"})
    /\ session[c] \notin {"transfers", "relay", "end"} =>
          slot[<<c, "process">>] = Null /\ slot[<<c, "mainThread">>] = Null
    /\ session[c] = "relay" => Holds(c, {"outDone", "inDone"})
    /\ session[c] # "relay" => slot[<<c, "outDone">>] = Null /\ slot[<<c, "inDone">>] = Null
    /\ session[c] = "relay" => \A m \in Borrowed : borrowed[c][m] = slot[<<c, m>>]

\* What the accept loop holds.
ServeInv ==
    /\ serve \in {"reap", "make"} => slot[<<Main, "accepted">>] # Null
    /\ serve \in {"start", "push"} => client \in Conns
    /\ serve = "start" => session[client] = "none" /\ Holds(client, {"socket"})

IInv ==
    /\ TypeOK /\ OwnedOnce
    /\ serve # "unwound" => ServeInv /\ \A c \in Conns : SessionInv(c)

-----------------------------------------------------------------------------
\* The slots of the connections and of the accept loop are slots, all different.
LEMMA SlotFacts ==
    /\ \A c \in Conns : \A m \in Members \cup Locals : <<c, m>> \in Slots
    /\ <<Main, "listen">> \in Slots /\ <<Main, "accepted">> \in Slots
    /\ \A t \in Slots : t = <<t[1], t[2]>>
    /\ \A c \in Conns : Main # c
    /\ Borrowed \subseteq Members \cup Locals
  BY HandlesAssumption DEF Slots, Members, Locals, Borrowed, Relayed, Events

\* What OwnedOnce is about: who holds what is open, and nothing twice.
LEMMA OwnedOnceIsExact == OwnedOnce <=> Exact(slot, opened)
  BY DEF OwnedOnce, Exact

\* The value of the next handle is one that no open handle has.
LEMMA FreshIsNew ==
    ASSUME NEW S \in SUBSET Handles, S # Handles
    PROVE  Fresh(S) \in Handles /\ Fresh(S) \notin S
  BY DEF Fresh

\* The destructors of any owners leave everybody else's handles open.
LEMMA DestroyKeeps ==
    ASSUME NEW s \in Valuations, NEW S \in SUBSET Slots, Exact(s, opened), Destroy(s, S)
    PROVE  /\ slot' \in Valuations /\ Exact(slot', opened')
           /\ \A t \in Slots : slot'[t] = IF t \in S THEN Null ELSE s[t]
<1>1. \A t \in Slots : slot'[t] = IF t \in S THEN Null ELSE s[t]
  BY DEF Destroy
<1>2. slot' \in Valuations
  BY DEF Destroy, Valuations
<1>3. ASSUME NEW t \in Slots, NEW u \in Slots, slot'[t] = slot'[u], slot'[t] # Null PROVE t = u
  BY <1>1, <1>3 DEF Exact
<1>4. opened' = {slot'[t] : t \in Slots} \ {Null}
  <2>1. ASSUME NEW h, h \in opened' PROVE h \in {slot'[t] : t \in Slots} \ {Null}
    <3>1. h \in opened /\ \A t \in S : h # s[t]
      BY <2>1 DEF Destroy
    <3>2. PICK t \in Slots : h = s[t] /\ h # Null
      BY <3>1 DEF Exact
    <3>3. slot'[t] = h
      BY <1>1, <3>1, <3>2
    <3>4. QED
      BY <3>2, <3>3
  <2>2. ASSUME NEW h, h \in {slot'[t] : t \in Slots} \ {Null} PROVE h \in opened'
    <3>1. PICK t \in Slots : slot'[t] = h /\ h # Null
      BY <2>2
    <3>2. t \notin S /\ s[t] = h
      BY <1>1, <3>1
    <3>3. h \in opened /\ \A u \in S : s[u] # h
      BY <3>1, <3>2 DEF Exact
    <3>4. QED
      BY <3>3 DEF Destroy
  <2>3. QED
    BY <2>1, <2>2
<1>5. QED
  BY <1>1, <1>2, <1>3, <1>4 DEF Exact

\* A swap changes the owners of two handles, and no more.
LEMMA MoveKeeps ==
    ASSUME NEW s \in Valuations, NEW o, Exact(s, o), NEW to \in Slots, NEW from \in Slots, to # from
    PROVE  /\ MoveAssign(s, to, from) \in Valuations /\ Exact(MoveAssign(s, to, from), o)
           /\ \A t \in Slots : MoveAssign(s, to, from)[t] =
                 IF t = to THEN s[from] ELSE IF t = from THEN s[to] ELSE s[t]
<1> DEFINE m == MoveAssign(s, to, from)
<1>1. \A t \in Slots : m[t] = IF t = to THEN s[from] ELSE IF t = from THEN s[to] ELSE s[t]
  BY DEF MoveAssign, Valuations
<1>2. m \in Valuations
  BY DEF MoveAssign, Valuations
<1> HIDE DEF m
<1>3. {m[t] : t \in Slots} = {s[t] : t \in Slots}
  <2>1. \A t \in Slots : \E u \in Slots : m[t] = s[u]
    BY <1>1
  <2>2. \A t \in Slots : \E u \in Slots : s[t] = m[u]
    BY <1>1
  <2>3. QED
    BY <2>1, <2>2
<1>4. \A t, u \in Slots : m[t] = m[u] /\ m[t] # Null => t = u
  BY <1>1 DEF Exact
<1>5. QED
  BY <1>1, <1>2, <1>3, <1>4 DEF Exact, m

\* A call's result is owned by the slot it is validated into, and by no other;
\* what that slot held before is closed.
LEMMA AcquireKeeps ==
    ASSUME slot \in Valuations, opened \subseteq Handles, Exact(slot, opened),
           NEW to \in Slots, Acquire(to)
    PROVE  /\ slot' \in Valuations /\ Exact(slot', opened')
           /\ slot'[to] # Null /\ \A t \in Slots \ {to} : slot'[t] = slot[t]
<1> DEFINE h == Fresh(opened)
<1>1. h \in Handles /\ h \notin opened /\ h # Null
  BY FreshIsNew, HandlesAssumption DEF Acquire
<1>2. slot'[to] = h /\ \A t \in Slots \ {to} : slot'[t] = slot[t]
  BY DEF Acquire, Valuations
<1>3. slot' \in Valuations
  BY <1>1 DEF Acquire, Valuations
<1>4. opened' = (opened \cup {h}) \ {slot[to]}
  BY DEF Acquire
<1> HIDE DEF h
<1>5. \A t \in Slots : slot[t] # h
  BY <1>1 DEF Exact
<1>6. \A t, u \in Slots : slot'[t] = slot'[u] /\ slot'[t] # Null => t = u
  BY <1>2, <1>5 DEF Exact
<1>7. opened' = {slot'[t] : t \in Slots} \ {Null}
  <2>1. ASSUME NEW x, x \in opened' PROVE x \in {slot'[t] : t \in Slots} \ {Null}
    <3>1. CASE x = h
      BY <1>1, <1>2, <3>1
    <3>2. CASE x # h
      <4>1. x \in opened /\ x # slot[to]
        BY <1>4, <2>1, <3>2
      <4>2. PICK t \in Slots : x = slot[t] /\ x # Null
        BY <4>1 DEF Exact
      <4>3. slot'[t] = x
        BY <1>2, <4>1, <4>2
      <4>4. QED
        BY <4>2, <4>3
    <3>3. QED
      BY <3>1, <3>2
  <2>2. ASSUME NEW t \in Slots, slot'[t] # Null PROVE slot'[t] \in opened'
    <3>1. CASE t = to
      BY <1>2, <1>4, <1>5, <3>1
    <3>2. CASE t # to
      <4>1. slot'[t] = slot[t] /\ slot[t] \in opened
        BY <1>2, <2>2, <3>2 DEF Exact
      <4>2. slot[t] # slot[to]
        BY <2>2, <3>2, <4>1 DEF Exact
      <4>3. QED
        BY <1>4, <4>1, <4>2
    <3>3. QED
      BY <3>1, <3>2
  <2>3. QED
    BY <2>1, <2>2
<1>8. QED
  BY <1>1, <1>2, <1>3, <1>6, <1>7 DEF Exact

\* Two calls' results, in slots that held nothing, are two different handles.
LEMMA AcquireTwoKeeps ==
    ASSUME slot \in Valuations, opened \subseteq Handles, Exact(slot, opened),
           NEW P \in Slots, NEW T \in Slots, P # T, slot[P] = Null, slot[T] = Null,
           AcquireTwo(P, T)
    PROVE  /\ slot' \in Valuations /\ Exact(slot', opened')
           /\ slot'[P] # Null /\ slot'[T] # Null
           /\ \A t \in Slots \ {P, T} : slot'[t] = slot[t]
<1> DEFINE h == Fresh(opened)
           k == Fresh(opened \cup {h})
<1>1. /\ h \in Handles /\ h \notin opened /\ h # Null
      /\ k \in Handles /\ k \notin opened /\ k # Null /\ k # h
  <2>1. opened # Handles
    BY DEF AcquireTwo
  <2>2. h \in Handles /\ h \notin opened
    BY <2>1, FreshIsNew
  <2>3. opened \cup {h} \in SUBSET Handles /\ opened \cup {h} # Handles
    BY <2>2 DEF AcquireTwo
  <2>4. k \in Handles /\ k \notin opened \cup {h}
    BY <2>3, FreshIsNew
  <2>5. QED
    BY <2>2, <2>4, HandlesAssumption
<1>2. /\ slot' = [slot EXCEPT ![P] = h, ![T] = k]
      /\ opened' = opened \cup {h, k}
  BY DEF AcquireTwo
<1> HIDE DEF h, k
<1>3. slot'[P] = h /\ slot'[T] = k /\ \A t \in Slots \ {P, T} : slot'[t] = slot[t]
  BY <1>2 DEF Valuations
<1>4. slot' \in Valuations
  BY <1>1, <1>2 DEF Valuations
<1>5. \A t \in Slots : slot[t] # h /\ slot[t] # k
  BY <1>1 DEF Exact
<1>6. Exact(slot', opened')
  <2>1. \A t, u \in Slots : slot'[t] = slot'[u] /\ slot'[t] # Null => t = u
    BY <1>1, <1>3, <1>5 DEF Exact
  <2>2. ASSUME NEW x, x \in opened' PROVE x \in {slot'[t] : t \in Slots} \ {Null}
    <3>1. CASE x \in opened
      <4>1. PICK t \in Slots : x = slot[t] /\ x # Null
        BY <3>1 DEF Exact
      <4>2. slot'[t] = x
        BY <1>3, <4>1
      <4>3. QED
        BY <4>1, <4>2
    <3>2. CASE x \in {h, k}
      BY <1>1, <1>3, <3>2
    <3>3. QED
      BY <1>2, <2>2, <3>1, <3>2
  <2>3. ASSUME NEW t \in Slots, slot'[t] # Null PROVE slot'[t] \in opened'
    <3>1. CASE t \in {P, T}
      BY <1>2, <1>3, <3>1
    <3>2. CASE t \notin {P, T}
      <4>1. slot'[t] = slot[t] /\ slot[t] \in opened
        BY <1>3, <2>3, <3>2 DEF Exact
      <4>2. QED
        BY <1>2, <4>1
    <3>3. QED
      BY <3>1, <3>2
  <2>4. QED
    BY <2>1, <2>2, <2>3 DEF Exact
<1>7. QED
  BY <1>1, <1>3, <1>4, <1>6

-----------------------------------------------------------------------------
LEMMA InitInv == Init => IInv
<1> SUFFICES ASSUME Init PROVE IInv
  OBVIOUS
<1>1. TypeOK
  BY DEF Init, TypeOK, ServePoints, SessionPoints, NothingBorrowed
<1>2. Exact(slot, opened)
  BY DEF Init, Exact
<1>3. \A c \in Conns : SessionInv(c)
  BY SlotFacts DEF Init, SessionInv, Locals, Events
<1>4. QED
  BY <1>1, <1>2, <1>3, OwnedOnceIsExact DEF Init, IInv, ServeInv

\* A step of the session of c leaves the slots of everybody else alone, so that
\* only what c itself holds has to be looked at.
LEMMA SessionFrame ==
    ASSUME IInv, NEW c \in Conns, serve # "unwound", session[c] # "none",
           NEW next \in SessionPoints, session' = [session EXCEPT ![c] = next], OnlySession,
           \A d \in Conns \ {c} : borrowed'[d] = borrowed[d],
           borrowed' \in [Conns -> [Borrowed -> Handles \cup {Null}]],
           slot' \in Valuations, Exact(slot', opened'),
           \A t \in Slots : t[1] # c => slot'[t] = slot[t],
           SessionInv(c)'
    PROVE  IInv'
<1>1. opened' \subseteq Handles
  BY DEF Exact, Valuations
<1>2. TypeOK' /\ OwnedOnce'
  BY <1>1 DEF IInv, TypeOK, OnlySession, OwnedOnce, Exact, Valuations
<1>3. \A d \in Conns \ {c} : \A m \in Members \cup Locals : slot'[<<d, m>>] = slot[<<d, m>>]
  BY SlotFacts
<1>4. session'[c] = next /\ \A d \in Conns \ {c} : session'[d] = session[d]
  BY DEF IInv, TypeOK
<1>5. ASSUME NEW d \in Conns \ {c} PROVE SessionInv(d)'
  <2>1. SessionInv(d)
    BY DEF IInv
  <2>2. \A m \in Own : slot'[<<d, m>>] = slot[<<d, m>>]
    BY <1>3 DEF Members, Locals, Events, Own
  <2>3. \A m \in Borrowed : slot'[<<d, m>>] = slot[<<d, m>>]
    BY <2>2 DEF Borrowed, Relayed, Events, Own
  <2>4. session'[d] = session[d]
    BY <1>4
  <2>5. borrowed'[d] = borrowed[d]
    OBVIOUS
  <2>6. QED
    BY <2>1, <2>2, <2>3, <2>4, <2>5 DEF SessionInv, Holds, Own
<1>6. ServeInv'
  <2>1. ServeInv
    BY DEF IInv
  <2>2. slot'[<<Main, "accepted">>] = slot[<<Main, "accepted">>]
    BY SlotFacts
  <2>3. \A d \in Conns \ {c} : slot'[<<d, "socket">>] = slot[<<d, "socket">>]
    BY <1>3 DEF Members
  <2>4. QED
    BY <1>4, <2>1, <2>2, <2>3 DEF ServeInv, OnlySession, Holds
<1>7. QED
  BY <1>2, <1>5, <1>6 DEF IInv

\* The end that is created is a handle of its own.
LEMMA CreatePipeEndStep ==
    ASSUME IInv, NEW c \in Conns, CreatePipeEnd(c)
    PROVE  IInv'
<1>1. PICK m \in {"read", "write"}, p \in SessionPoints, q \in SessionPoints :
        /\ Goes(c, p, q) /\ Acquire(<<c, m>>)
        /\ \/ m = "read" /\ <<p, q>> \in {<<"outRead", "outWrite">>, <<"inRead", "inWrite">>}
           \/ m = "write" /\ <<p, q>> \in {<<"outWrite", "outMove">>, <<"inWrite", "inMove">>}
  BY DEF CreatePipeEnd, SessionPoints
<1>2. <<c, m>> \in Slots
  BY SlotFacts DEF Locals
<1>3. slot \in Valuations /\ opened \subseteq Handles /\ Exact(slot, opened)
  BY OwnedOnceIsExact DEF IInv, TypeOK, Valuations
<1>4. /\ slot' \in Valuations /\ Exact(slot', opened')
      /\ slot'[<<c, m>>] # Null /\ \A t \in Slots \ {<<c, m>>} : slot'[t] = slot[t]
  BY <1>1, <1>2, <1>3, AcquireKeeps
<1>5. SessionInv(c)'
  <2>1. SessionInv(c) /\ session'[c] = q /\ session[c] = p
    BY <1>1 DEF IInv, TypeOK, Goes
  <2>2. \A n \in Members \cup Locals : n # m => slot'[<<c, n>>] = slot[<<c, n>>]
    BY <1>4, SlotFacts
  <2>3. \A n \in Own : n # m => slot'[<<c, n>>] = slot[<<c, n>>]
    BY <2>2 DEF Members, Locals, Events, Own
  <2>4. QED
    BY <1>1, <1>4, <2>1, <2>3 DEF SessionInv, Holds, Own
<1>6. \A t \in Slots : t[1] # c => slot'[t] = slot[t]
  BY <1>4
<1>7. QED
  BY <1>1, <1>4, <1>5, <1>6, SessionFrame DEF CreatePipeEnd, Goes, IInv, TypeOK

\* The two ends change their owners, and `result` is left with what the members
\* held before, which its destructor closes.
LEMMA AssignPipeStep ==
    ASSUME IInv, NEW c \in Conns, AssignPipe(c)
    PROVE  IInv'
<1>1. PICK r \in {"outRead", "inRead"}, w \in {"outWrite", "inWrite"},
           p \in SessionPoints, q \in SessionPoints :
        /\ Goes(c, p, q) /\ MovePipe(c, r, w)
        /\ \/ r = "outRead" /\ w = "outWrite" /\ p = "outMove" /\ q = "inRead"
           \/ r = "inRead" /\ w = "inWrite" /\ p = "inMove" /\ q = "process"
  BY DEF AssignPipe, SessionPoints
<1> DEFINE R == <<c, r>>  W == <<c, w>>  rr == <<c, "read">>  ww == <<c, "write">>
           s1 == MoveAssign(slot, R, rr)
           s2 == MoveAssign(s1, W, ww)
<1>2. /\ R \in Slots /\ W \in Slots /\ rr \in Slots /\ ww \in Slots
      /\ R # rr /\ W # ww /\ W # R /\ W # rr /\ ww # R /\ ww # rr
  BY SlotFacts DEF Members, Locals, Events, Own
<1>3. slot \in Valuations /\ Exact(slot, opened)
  BY OwnedOnceIsExact DEF IInv, TypeOK, Valuations
<1> HIDE DEF R, W, rr, ww
<1>4. /\ s1 \in Valuations /\ Exact(s1, opened)
      /\ \A t \in Slots : s1[t] = IF t = R THEN slot[rr] ELSE IF t = rr THEN slot[R] ELSE slot[t]
  BY <1>2, <1>3, MoveKeeps
<1> HIDE DEF s1
<1>5. /\ s2 \in Valuations /\ Exact(s2, opened)
      /\ \A t \in Slots : s2[t] = IF t = W THEN s1[ww] ELSE IF t = ww THEN s1[W] ELSE s1[t]
  BY <1>2, <1>4, MoveKeeps
<1> HIDE DEF s2
<1>6. /\ slot' \in Valuations /\ Exact(slot', opened')
      /\ \A t \in Slots : slot'[t] = IF t \in {rr, ww} THEN Null ELSE s2[t]
  <2>1. Destroy(s2, {rr, ww})
    BY <1>1 DEF MovePipe, s2, s1, R, W, rr, ww
  <2>2. QED
    BY <1>2, <1>5, <2>1, DestroyKeeps
<1>7. slot'[R] = slot[rr] /\ slot'[W] = slot[ww]
  BY <1>2, <1>4, <1>5, <1>6
<1>8. \A t \in Slots : t \notin {R, W, rr, ww} => slot'[t] = slot[t]
  BY <1>4, <1>5, <1>6
<1>9. SessionInv(c)'
  <2>1. SessionInv(c) /\ session'[c] = q /\ session[c] = p
    BY <1>1 DEF IInv, TypeOK, Goes
  <2>2. \A n \in Members \cup Locals : n \notin {r, w, "read", "write"} => slot'[<<c, n>>] = slot[<<c, n>>]
    BY <1>8, SlotFacts DEF R, W, rr, ww
  <2>3. \A n \in Own \ {"read", "write"} :
          n \notin {r, w} => slot'[<<c, n>>] = slot[<<c, n>>]
    BY <2>2 DEF Members, Locals, Events, Own
  <2>4. slot[<<c, "read">>] # Null /\ slot[<<c, "write">>] # Null
    BY <1>1, <2>1 DEF SessionInv, Holds, Own
  <2>5. slot'[<<c, r>>] # Null /\ slot'[<<c, w>>] # Null
    BY <1>7, <2>4 DEF R, W, rr, ww
  <2>6. QED
    BY <1>1, <2>1, <2>3, <2>5 DEF SessionInv, Holds, Own
<1>10. \A t \in Slots : t[1] # c => slot'[t] = slot[t]
  BY <1>8 DEF R, W, rr, ww
<1>11. QED
  BY <1>1, <1>6, <1>9, <1>10, SessionFrame DEF AssignPipe, Goes, IInv, TypeOK

\* CreateProcess fills the two slots of `cmd`.
LEMMA CreateProcessStep ==
    ASSUME IInv, NEW c \in Conns, CreateProcess(c)
    PROVE  IInv'
<1> DEFINE P == <<c, "process">>
           T == <<c, "mainThread">>
<1>1. slot \in Valuations /\ opened \subseteq Handles /\ Exact(slot, opened)
  BY OwnedOnceIsExact DEF IInv, TypeOK, Valuations
<1>2. P \in Slots /\ T \in Slots /\ P # T
  BY SlotFacts DEF Locals
<1>3. SessionInv(c) /\ session'[c] = "transfers" /\ session[c] = "process"
  BY DEF CreateProcess, IInv, TypeOK, Goes
<1>4. slot[P] = Null /\ slot[T] = Null
  BY <1>3 DEF SessionInv
<1>5. AcquireTwo(P, T)
  BY DEF CreateProcess
<1> HIDE DEF P, T
<1>6. /\ slot' \in Valuations /\ Exact(slot', opened')
      /\ slot'[P] # Null /\ slot'[T] # Null
      /\ \A t \in Slots \ {P, T} : slot'[t] = slot[t]
  BY <1>1, <1>2, <1>4, <1>5, AcquireTwoKeeps
<1>7. SessionInv(c)'
  <2>1. \A n \in Members \cup Locals : n \notin {"process", "mainThread"} =>
          slot'[<<c, n>>] = slot[<<c, n>>]
    BY <1>6, SlotFacts DEF P, T
  <2>2. \A n \in Own : n \notin {"process", "mainThread"} => slot'[<<c, n>>] = slot[<<c, n>>]
    BY <2>1 DEF Members, Locals, Events, Own
  <2>3. slot'[<<c, "process">>] # Null /\ slot'[<<c, "mainThread">>] # Null
    BY <1>6 DEF P, T
  <2>4. QED
    BY <1>3, <2>2, <2>3 DEF SessionInv, Holds, Own
<1>8. \A t \in Slots : t[1] # c => slot'[t] = slot[t]
  BY <1>6 DEF P, T
<1>9. QED
  BY <1>6, <1>7, <1>8, SessionFrame DEF CreateProcess, Goes, SessionPoints, IInv, TypeOK

\* The transfers borrow what the session holds, the events of their envs, too.
LEMMA CreateTransfersStep ==
    ASSUME IInv, NEW c \in Conns, CreateTransfers(c)
    PROVE  IInv'
<1> DEFINE P == <<c, "outDone">>
           T == <<c, "inDone">>
<1>1. slot \in Valuations /\ opened \subseteq Handles /\ Exact(slot, opened)
  BY OwnedOnceIsExact DEF IInv, TypeOK, Valuations
<1>2. P \in Slots /\ T \in Slots /\ P # T
  BY SlotFacts DEF Locals, Events
<1>3. SessionInv(c) /\ session'[c] = "relay" /\ session[c] = "transfers"
  BY DEF CreateTransfers, IInv, TypeOK, Goes
<1>4. slot[P] = Null /\ slot[T] = Null
  BY <1>3 DEF SessionInv
<1>5. AcquireTwo(P, T)
  BY DEF CreateTransfers
<1> HIDE DEF P, T
<1>6. /\ slot' \in Valuations /\ Exact(slot', opened')
      /\ slot'[P] # Null /\ slot'[T] # Null
      /\ \A t \in Slots \ {P, T} : slot'[t] = slot[t]
  BY <1>1, <1>2, <1>4, <1>5, AcquireTwoKeeps
<1>7. /\ borrowed' \in [Conns -> [Borrowed -> Handles \cup {Null}]]
      /\ \A m \in Borrowed : borrowed'[c][m] = slot'[<<c, m>>]
      /\ \A d \in Conns \ {c} : borrowed'[d] = borrowed[d]
  <2>1. \A m \in Borrowed : slot'[<<c, m>>] \in Handles \cup {Null}
    BY <1>6, SlotFacts DEF Valuations
  <2>2. QED
    BY <2>1 DEF CreateTransfers, IInv, TypeOK
<1>8. SessionInv(c)'
  <2>1. \A n \in Members \cup Locals : n \notin Events => slot'[<<c, n>>] = slot[<<c, n>>]
    BY <1>6, SlotFacts DEF P, T, Events
  <2>2. \A n \in Own : n \notin {"outDone", "inDone"} => slot'[<<c, n>>] = slot[<<c, n>>]
    BY <2>1 DEF Members, Locals, Events, Own
  <2>3. slot'[<<c, "outDone">>] # Null /\ slot'[<<c, "inDone">>] # Null
    BY <1>6 DEF P, T
  <2>4. QED
    BY <1>3, <1>7, <2>2, <2>3 DEF SessionInv, Holds, Own
<1>9. \A t \in Slots : t[1] # c => slot'[t] = slot[t]
  BY <1>6 DEF P, T
<1>10. QED
  BY <1>6, <1>7, <1>8, <1>9, SessionFrame DEF CreateTransfers, Goes, SessionPoints

\* The transfers end, and nobody's handles change but their own events.
LEMMA RelayReturnsStep ==
    ASSUME IInv, NEW c \in Conns, RelayReturns(c)
    PROVE  IInv'
<1>1. /\ borrowed' \in [Conns -> [Borrowed -> Handles \cup {Null}]]
      /\ \A d \in Conns \ {c} : borrowed'[d] = borrowed[d]
  BY DEF RelayReturns, EndTransfers, NothingBorrowed, IInv, TypeOK
<1>2. EventsOf(c) \in SUBSET Slots /\ \A t \in EventsOf(c) : t[1] = c
  BY DEF EventsOf, Slots, Locals
<1>3. /\ slot' \in Valuations /\ Exact(slot', opened')
      /\ \A t \in Slots : slot'[t] = IF t \in EventsOf(c) THEN Null ELSE slot[t]
  <2>1. slot \in Valuations /\ Exact(slot, opened)
    BY OwnedOnceIsExact DEF IInv, TypeOK, Valuations
  <2>2. Destroy(slot, EventsOf(c))
    BY DEF RelayReturns
  <2>3. QED
    BY <1>2, <2>1, <2>2, DestroyKeeps
<1>4. SessionInv(c)'
  <2>1. SessionInv(c) /\ session'[c] = "end" /\ session[c] = "relay"
    BY DEF RelayReturns, IInv, TypeOK, Goes
  <2>2. \A n \in Members \cup Locals : n \notin Events => slot'[<<c, n>>] = slot[<<c, n>>]
    BY <1>3, SlotFacts DEF EventsOf
  <2>3. \A n \in Own : n \notin {"outDone", "inDone"} => slot'[<<c, n>>] = slot[<<c, n>>]
    BY <2>2 DEF Members, Locals, Events, Own
  <2>4. slot'[<<c, "outDone">>] = Null /\ slot'[<<c, "inDone">>] = Null
    BY <1>3, SlotFacts DEF EventsOf, Events, Locals
  <2>5. QED
    BY <2>1, <2>3, <2>4 DEF SessionInv, Holds, Own
<1>5. QED
  BY <1>1, <1>2, <1>3, <1>4, SessionFrame DEF RelayReturns, Goes, SessionPoints

\* The locals are destroyed, however far the session had come.
LEMMA LeaveTryStep ==
    ASSUME IInv, NEW c \in Conns, LeaveTry(c)
    PROVE  IInv'
<1>1. PICK p \in SessionPoints \ {"none", "ended"} : Goes(c, p, "ended")
  BY DEF LeaveTry
<1>2. /\ borrowed' \in [Conns -> [Borrowed -> Handles \cup {Null}]]
      /\ \A d \in Conns \ {c} : borrowed'[d] = borrowed[d]
  BY DEF LeaveTry, EndTransfers, NothingBorrowed, IInv, TypeOK
<1>3. LocalsOf(c) \in SUBSET Slots /\ \A t \in LocalsOf(c) : t[1] = c
  BY DEF LocalsOf, Slots
<1>4. /\ slot' \in Valuations /\ Exact(slot', opened')
      /\ \A t \in Slots : slot'[t] = IF t \in LocalsOf(c) THEN Null ELSE slot[t]
  <2>1. slot \in Valuations /\ Exact(slot, opened)
    BY OwnedOnceIsExact DEF IInv, TypeOK, Valuations
  <2>2. Destroy(slot, LocalsOf(c))
    BY DEF LeaveTry
  <2>3. QED
    BY <1>3, <2>1, <2>2, DestroyKeeps
<1>5. SessionInv(c)'
  <2>1. session'[c] = "ended"
    BY <1>1 DEF IInv, TypeOK, Goes
  <2>2. \A m \in {"process", "mainThread", "outDone", "inDone"} : slot'[<<c, m>>] = Null
    BY <1>4, SlotFacts DEF LocalsOf, Locals, Events
  <2>3. QED
    BY <2>1, <2>2 DEF SessionInv
<1>6. QED
  BY <1>1, <1>2, <1>3, <1>4, <1>5, SessionFrame DEF LeaveTry, Goes, SessionPoints

-----------------------------------------------------------------------------
\* A step of the accept loop that leaves alone what the sessions at work hold,
\* and the locals of all.
LEMMA ServeFrame ==
    ASSUME IInv, serve # "unwound", UNCHANGED <<session, borrowed>>,
           serve' \in ServePoints, client' \in Conns \cup {Main}, clients' \subseteq Conns,
           slot' \in Valuations, Exact(slot', opened'),
           \A c \in Conns : \A m \in Locals : slot'[<<c, m>>] = slot[<<c, m>>],
           \A c \in Conns : Running(c) => \A m \in Members : slot'[<<c, m>>] = slot[<<c, m>>],
           serve' # "unwound" => ServeInv'
    PROVE  IInv'
<1>1. opened' \subseteq Handles
  BY DEF Exact, Valuations
<1>2. TypeOK' /\ OwnedOnce'
  BY <1>1 DEF IInv, TypeOK, OwnedOnce, Exact, Valuations
<1>3. ASSUME NEW c \in Conns PROVE SessionInv(c)'
  <2>1. SessionInv(c)
    BY DEF IInv
  <2>2. \A m \in {"process", "mainThread", "outDone", "inDone"} : slot'[<<c, m>>] = slot[<<c, m>>]
    BY DEF Locals, Events
  <2>3. CASE Running(c)
    <3>1. \A m \in Own : slot'[<<c, m>>] = slot[<<c, m>>]
      BY <2>3 DEF Members, Locals, Events, Own
    <3>2. \A m \in Borrowed : slot'[<<c, m>>] = slot[<<c, m>>]
      BY <3>1 DEF Borrowed, Relayed, Events, Own
    <3>3. QED
      BY <2>1, <3>1, <3>2 DEF SessionInv, Holds, Own
  <2>4. CASE ~Running(c)
    BY <2>1, <2>2, <2>4 DEF SessionInv, Running
  <2>5. QED
    BY <2>3, <2>4
<1>4. QED
  BY <1>2, <1>3 DEF IInv

LEMMA ListenStep ==
    ASSUME IInv, Listen
    PROVE  IInv'
<1>1. slot \in Valuations /\ opened \subseteq Handles /\ Exact(slot, opened)
  BY OwnedOnceIsExact DEF IInv, TypeOK, Valuations
<1>2. /\ slot' \in Valuations /\ Exact(slot', opened')
      /\ \A t \in Slots \ {<<Main, "listen">>} : slot'[t] = slot[t]
  BY <1>1, AcquireKeeps, SlotFacts DEF Listen
<1>3. \A c \in Conns : \A m \in Members \cup Locals : slot'[<<c, m>>] = slot[<<c, m>>]
  BY <1>2, SlotFacts
<1>4. serve = "setup" /\ serve' = "accept" /\ ServeInv'
  BY DEF Listen, Serve, ServeInv
<1>5. QED
  BY <1>2, <1>3, <1>4, ServeFrame DEF Listen, OnlyServe, ServePoints, IInv, TypeOK

LEMMA AcceptStep ==
    ASSUME IInv, Accept
    PROVE  IInv'
<1>1. slot \in Valuations /\ opened \subseteq Handles /\ Exact(slot, opened)
  BY OwnedOnceIsExact DEF IInv, TypeOK, Valuations
<1>2. /\ slot' \in Valuations /\ Exact(slot', opened') /\ slot'[<<Main, "accepted">>] # Null
      /\ \A t \in Slots \ {<<Main, "accepted">>} : slot'[t] = slot[t]
  BY <1>1, AcquireKeeps, SlotFacts DEF Accept
<1>3. \A c \in Conns : \A m \in Members \cup Locals : slot'[<<c, m>>] = slot[<<c, m>>]
  BY <1>2, SlotFacts
<1>4. serve = "accept" /\ serve' = "reap" /\ ServeInv'
  BY <1>2 DEF Accept, Serve, ServeInv
<1>5. QED
  BY <1>2, <1>3, <1>4, ServeFrame DEF Accept, OnlyServe, ServePoints, IInv, TypeOK

\* Only the ClientConns of threads that ended lose their handles.
LEMMA ReapStep ==
    ASSUME IInv, Reap
    PROVE  IInv'
<1> DEFINE S == MembersOf({c \in clients : ~Running(c)})
<1>1. S \in SUBSET Slots /\ \A t \in S : t[1] \in Conns /\ ~Running(t[1]) /\ t[2] \in Members
  BY DEF MembersOf, Slots, IInv, TypeOK
<1>2. /\ slot' \in Valuations /\ Exact(slot', opened')
      /\ \A t \in Slots : slot'[t] = IF t \in S THEN Null ELSE slot[t]
  <2>1. slot \in Valuations /\ Exact(slot, opened)
    BY OwnedOnceIsExact DEF IInv, TypeOK, Valuations
  <2>2. Destroy(slot, S)
    BY DEF Reap
  <2>3. QED
    BY <1>1, <2>1, <2>2, DestroyKeeps
<1> HIDE DEF S
<1>3. \A c \in Conns : \A m \in Locals : slot'[<<c, m>>] = slot[<<c, m>>]
  <2>1. \A c \in Conns : \A m \in Locals : <<c, m>> \notin S
    BY <1>1 DEF Members, Locals, Events, Own
  <2>2. QED
    BY <1>2, <2>1, SlotFacts
<1>4. \A c \in Conns : Running(c) => \A m \in Members : slot'[<<c, m>>] = slot[<<c, m>>]
  BY <1>1, <1>2, SlotFacts
<1>5. slot'[<<Main, "accepted">>] = slot[<<Main, "accepted">>]
  BY <1>1, <1>2, SlotFacts
<1>6. serve = "reap" /\ serve' = "make" /\ ServeInv'
  BY <1>5 DEF Reap, Serve, ServeInv, IInv
<1>7. clients' \subseteq Conns
  BY DEF Reap, IInv, TypeOK
<1>8. QED
  BY <1>2, <1>3, <1>4, <1>6, <1>7, ServeFrame DEF Reap, OnlyServe, ServePoints, IInv, TypeOK

LEMMA MakeStep ==
    ASSUME IInv, Make
    PROVE  IInv'
<1>1. PICK c \in Conns :
        /\ session[c] = "none" /\ client' = c
        /\ slot' = MoveAssign(slot, <<c, "socket">>, <<Main, "accepted">>)
  BY DEF Make
<1>2. /\ <<c, "socket">> \in Slots /\ <<Main, "accepted">> \in Slots
      /\ <<c, "socket">> # <<Main, "accepted">>
  BY SlotFacts DEF Members
<1>3. slot \in Valuations /\ Exact(slot, opened)
  BY OwnedOnceIsExact DEF IInv, TypeOK, Valuations
<1>4. /\ slot' \in Valuations /\ Exact(slot', opened)
      /\ slot'[<<c, "socket">>] = slot[<<Main, "accepted">>]
      /\ \A t \in Slots : t \notin {<<c, "socket">>, <<Main, "accepted">>} => slot'[t] = slot[t]
  BY <1>1, <1>2, <1>3, MoveKeeps
<1>5. Exact(slot', opened')
  BY <1>4 DEF Make
<1>6. \A d \in Conns : \A m \in Locals : slot'[<<d, m>>] = slot[<<d, m>>]
  BY <1>4, SlotFacts DEF Locals, Events
<1>7. \A d \in Conns : Running(d) => \A m \in Members : slot'[<<d, m>>] = slot[<<d, m>>]
  BY <1>1, <1>4, SlotFacts DEF Running
<1>8. serve = "make" /\ serve' = "start" /\ ServeInv'
  BY <1>1, <1>4 DEF Make, Serve, OnlyServe, ServeInv, Holds, IInv
<1>9. QED
  BY <1>1, <1>4, <1>5, <1>6, <1>7, <1>8, ServeFrame
  DEF Make, OnlyServe, ServePoints, IInv, TypeOK

\* The thread that starts works on a ClientConn that has its socket.
LEMMA StartStep ==
    ASSUME IInv, Start
    PROVE  IInv'
<1>1. client \in Conns /\ session[client] = "none" /\ slot[<<client, "socket">>] # Null
  BY DEF Start, Serve, IInv, ServeInv, Holds
<1>2. slot \in Valuations /\ opened \subseteq Handles /\ Exact(slot, opened)
  BY OwnedOnceIsExact DEF IInv, TypeOK, Valuations
<1>3. <<client, "thread">> \in Slots
  BY <1>1, SlotFacts DEF Members
<1>4. /\ slot' \in Valuations /\ Exact(slot', opened')
      /\ \A t \in Slots \ {<<client, "thread">>} : slot'[t] = slot[t]
  BY <1>2, <1>3, AcquireKeeps DEF Start
<1>5. opened' \subseteq Handles
  BY <1>4 DEF Exact, Valuations
<1>6. TypeOK' /\ OwnedOnce'
  BY <1>4, <1>5
  DEF Start, Serve, ServePoints, SessionPoints, IInv, TypeOK, OwnedOnce, Exact, Valuations
<1>7. ASSUME NEW c \in Conns PROVE SessionInv(c)'
  <2>1. SessionInv(c)
    BY DEF IInv, Start, Serve
  <2>2. \A m \in Members \cup Locals : m # "thread" => slot'[<<c, m>>] = slot[<<c, m>>]
    BY <1>4, SlotFacts
  <2>3. \A m \in Own : slot'[<<c, m>>] = slot[<<c, m>>]
    BY <2>2 DEF Members, Locals, Events, Own
  <2>4. \A m \in Borrowed : slot'[<<c, m>>] = slot[<<c, m>>]
    BY <2>3 DEF Borrowed, Relayed, Events, Own
  <2>5. session'[c] = IF c = client THEN "outRead" ELSE session[c]
    BY <1>1 DEF Start, IInv, TypeOK
  <2>6. QED
    BY <1>1, <2>1, <2>3, <2>4, <2>5 DEF Start, SessionInv, Holds, Own
<1>8. ServeInv'
  BY <1>1 DEF Start, Serve, ServeInv
<1>9. QED
  BY <1>6, <1>7, <1>8 DEF IInv

LEMMA PushStep ==
    ASSUME IInv, Push
    PROVE  IInv'
<1>1. {<<Main, "accepted">>} \in SUBSET Slots
  BY SlotFacts
<1>2. /\ slot' \in Valuations /\ Exact(slot', opened')
      /\ \A t \in Slots : slot'[t] = IF t \in {<<Main, "accepted">>} THEN Null ELSE slot[t]
  <2>1. slot \in Valuations /\ Exact(slot, opened)
    BY OwnedOnceIsExact DEF IInv, TypeOK, Valuations
  <2>2. Destroy(slot, {<<Main, "accepted">>})
    BY DEF Push
  <2>3. QED
    BY <1>1, <2>1, <2>2, DestroyKeeps
<1>3. \A c \in Conns : \A m \in Members \cup Locals : slot'[<<c, m>>] = slot[<<c, m>>]
  BY <1>2, SlotFacts
<1>4. serve = "push" /\ serve' = "accept" /\ client \in Conns /\ ServeInv'
  BY DEF Push, Serve, ServeInv, IInv
<1>5. QED
  BY <1>2, <1>3, <1>4, ServeFrame DEF Push, OnlyServe, ServePoints, IInv, TypeOK

\* Everything the server owns is closed; nothing more is claimed of the sessions.
LEMMA UnwindStep ==
    ASSUME IInv, Unwind
    PROVE  IInv'
<1> DEFINE S == MembersOf(Conns) \cup ({Main} \X {"listen", "accepted"})
<1>1. S \in SUBSET Slots
  BY DEF MembersOf, Slots
<1>2. slot' \in Valuations /\ Exact(slot', opened')
  <2>1. slot \in Valuations /\ Exact(slot, opened)
    BY OwnedOnceIsExact DEF IInv, TypeOK, Valuations
  <2>2. Destroy(slot, S)
    BY DEF Unwind
  <2>3. QED
    BY <1>1, <2>1, <2>2, DestroyKeeps
<1>3. opened' \subseteq Handles
  BY <1>2 DEF Exact, Valuations
<1>4. TypeOK' /\ OwnedOnce'
  BY <1>2, <1>3
  DEF Unwind, Serve, OnlyServe, ServePoints, IInv, TypeOK, OwnedOnce, Exact, Valuations
<1>5. serve' = "unwound"
  BY DEF Unwind, Serve
<1>6. QED
  BY <1>4, <1>5 DEF IInv

LEMMA StutterStep ==
    ASSUME IInv, UNCHANGED vars
    PROVE  IInv'
<1>1. TypeOK' /\ OwnedOnce'
  BY DEF vars, IInv, TypeOK, OwnedOnce
<1>2. ServeInv' <=> ServeInv
  BY DEF vars, ServeInv, Holds
<1>3. \A c \in Conns : SessionInv(c)' <=> SessionInv(c)
  BY DEF vars, SessionInv, Holds
<1>4. QED
  BY <1>1, <1>2, <1>3 DEF vars, IInv

LEMMA NextInv == IInv /\ [Next]_vars => IInv'
  BY ListenStep, AcceptStep, ReapStep, MakeStep, StartStep, PushStep, UnwindStep,
     CreatePipeEndStep, AssignPipeStep, CreateProcessStep, CreateTransfersStep,
     RelayReturnsStep, LeaveTryStep, StutterStep
  DEF Next, ServeNext, SessionNext

-----------------------------------------------------------------------------
\* The inductive invariant holds of every behaviour of the server.
THEOREM Invariance == Spec => []IInv
  BY InitInv, NextInv, PTL DEF Spec

\* Every variable keeps its type, for any connections and any handles.
THEOREM TypeCorrect == Spec => []TypeOK
  BY Invariance, PTL DEF IInv

\* No handle leaks and none is closed twice, at any number of connections, with
\* every call that may fail and every exception that may leave a try block or
\* serve() (Handle.hpp:199-209, Socket.hpp:110-120).
THEOREM OwnedOnceThm == Spec => []OwnedOnce
  BY Invariance, PTL DEF IInv

\* The handles that the transfers and until() of a session borrowed are its own
\* as long as they use them, whatever values Windows gives away again
\* (RemoteCMD.cpp:136).
THEOREM BorrowedIsOwnThm == Spec => []BorrowedIsOwn
<1>1. ASSUME IInv, serve # "unwound", NEW c \in Conns, session[c] = "relay", NEW m \in Borrowed
      PROVE  borrowed[c][m] = slot[<<c, m>>] /\ slot[<<c, m>>] \in opened
  <2>1. SessionInv(c) /\ Exact(slot, opened)
    BY <1>1, OwnedOnceIsExact DEF IInv
  <2>2. slot[<<c, m>>] # Null
    BY <1>1, <2>1 DEF SessionInv, Holds, Borrowed, Relayed, Events
  <2>3. <<c, m>> \in Slots
    BY SlotFacts
  <2>4. QED
    BY <1>1, <2>1, <2>2, <2>3 DEF SessionInv, Exact
<1>2. IInv => BorrowedIsOwn
  BY <1>1 DEF BorrowedIsOwn
<1>3. QED
  BY <1>2, Invariance, PTL

-----------------------------------------------------------------------------
\* What UsesOpen needs to know of the accept loop.

\* A ClientConn that is in `clients`, or about to be, has a thread; and the
\* server listens.
KeptInv ==
    serve # "unwound" =>
        /\ serve # "setup" => slot[<<Main, "listen">>] # Null
        /\ serve = "push" => slot[<<client, "thread">>] # Null
        /\ \A c \in clients : slot[<<c, "thread">>] # Null

\* The slots that KeptInv is about.
Kept == {<<Main, "listen">>} \cup (Conns \X {"thread"})

LEMMA KeptFacts ==
    /\ Kept \subseteq Slots /\ <<Main, "accepted">> \notin Kept
    /\ \A c \in Conns : <<c, "thread">> \in Kept
    /\ \A c \in Conns : \A m \in Locals \cup {"outRead", "outWrite", "inRead", "inWrite", "socket"} :
          <<c, m>> \notin Kept
  BY HandlesAssumption DEF Kept, Slots, Members, Locals, Events

\* No session's step touches them.
LEMMA SessionKeeps ==
    ASSUME IInv, NEW c \in Conns, SessionNext(c)
    PROVE  \A t \in Kept : slot'[t] = slot[t]
<1>1. slot \in Valuations /\ opened \subseteq Handles /\ Exact(slot, opened)
  BY OwnedOnceIsExact DEF IInv, TypeOK, Valuations
<1>2. ASSUME NEW m \in {"read", "write"}, Acquire(<<c, m>>)
      PROVE  \A t \in Kept : slot'[t] = slot[t]
  <2>1. <<c, m>> \in Slots /\ <<c, m>> \notin Kept
    BY SlotFacts, KeptFacts DEF Locals
  <2>2. QED
    BY <1>1, <1>2, <2>1, AcquireKeeps, KeptFacts
<1>3. ASSUME NEW r \in {"outRead", "inRead"}, NEW w \in {"outWrite", "inWrite"}, MovePipe(c, r, w)
      PROVE  \A t \in Kept : slot'[t] = slot[t]
  <2>1. ASSUME NEW t \in Kept PROVE slot'[t] = slot[t]
    <3>1. t \notin {<<c, r>>, <<c, w>>, <<c, "read">>, <<c, "write">>} /\ t \in Slots
      BY KeptFacts DEF Locals
    <3>2. slot'[t] = MoveAssign(MoveAssign(slot, <<c, r>>, <<c, "read">>),
                                <<c, w>>, <<c, "write">>)[t]
      BY <1>3, <3>1 DEF MovePipe, Destroy
    <3>3. QED
      BY <1>1, <3>1, <3>2 DEF MoveAssign, Valuations
  <2>2. QED
    BY <2>1
<1>4. CASE CreatePipeEnd(c)
  BY <1>2, <1>4 DEF CreatePipeEnd
<1>5. CASE AssignPipe(c)
  BY <1>3, <1>5 DEF AssignPipe
<1>6. ASSUME NEW m \in Locals, NEW n \in Locals, AcquireTwo(<<c, m>>, <<c, n>>)
      PROVE  \A t \in Kept : slot'[t] = slot[t]
  <2>1. <<c, m>> \notin Kept /\ <<c, n>> \notin Kept
    BY KeptFacts
  <2>2. PICK p, q : slot' = [slot EXCEPT ![<<c, m>>] = p, ![<<c, n>>] = q]
    BY <1>6 DEF AcquireTwo
  <2>3. QED
    BY <1>1, <2>1, <2>2, KeptFacts DEF Valuations
<1>7. CASE CreateProcess(c) \/ CreateTransfers(c)
  BY <1>6, <1>7 DEF CreateProcess, CreateTransfers, Locals, Events
<1>8. CASE RelayReturns(c)
  <2>1. \A t \in Kept : t \notin EventsOf(c) /\ t \in Slots
    BY KeptFacts DEF EventsOf, Locals, Events, Kept
  <2>2. QED
    BY <1>8, <2>1 DEF RelayReturns, Destroy
<1>9. CASE LeaveTry(c)
  <2>1. \A t \in Kept : t \notin LocalsOf(c) /\ t \in Slots
    BY KeptFacts DEF LocalsOf
  <2>2. QED
    BY <1>9, <2>1 DEF LeaveTry, Destroy
<1>10. QED
  BY <1>4, <1>5, <1>7, <1>8, <1>9 DEF SessionNext

LEMMA KeptStep ==
    ASSUME IInv, KeptInv, [Next]_vars
    PROVE  KeptInv'
<1>1. slot \in Valuations /\ opened \subseteq Handles /\ Exact(slot, opened) /\ clients \subseteq Conns
  BY OwnedOnceIsExact DEF IInv, TypeOK, Valuations
<1>2. CASE \E c \in Conns : SessionNext(c)
  <2>1. PICK c \in Conns : SessionNext(c)
    BY <1>2
  <2>2. \A t \in Kept : slot'[t] = slot[t]
    BY <2>1, SessionKeeps
  <2>3. UNCHANGED <<serve, client, clients>> /\ serve # "unwound"
    BY <2>1
    DEF SessionNext, CreatePipeEnd, AssignPipe, CreateProcess, CreateTransfers, RelayReturns,
        LeaveTry, OnlySession, Goes
  <2>4. serve = "push" => client \in Conns
    BY <2>3 DEF IInv, ServeInv
  <2>5. QED
    BY <1>1, <2>2, <2>3, <2>4 DEF KeptInv, Kept
<1>3. CASE Listen
  <2>1. slot'[<<Main, "listen">>] # Null
        /\ \A t \in Slots \ {<<Main, "listen">>} : slot'[t] = slot[t]
    BY <1>1, <1>3, AcquireKeeps, SlotFacts DEF Listen
  <2>2. \A c \in Conns : slot'[<<c, "thread">>] = slot[<<c, "thread">>]
    BY <2>1, SlotFacts DEF Members
  <2>3. QED
    BY <1>1, <1>3, <2>1, <2>2 DEF Listen, Serve, KeptInv
<1>4. CASE Accept
  <2>1. \A t \in Slots \ {<<Main, "accepted">>} : slot'[t] = slot[t]
    BY <1>1, <1>4, AcquireKeeps, SlotFacts DEF Accept
  <2>2. \A t \in Kept : slot'[t] = slot[t]
    BY <2>1, KeptFacts
  <2>3. QED
    BY <1>1, <1>4, <2>2 DEF Accept, Serve, KeptInv, Kept
<1>5. CASE Reap
  <2>1. \A t \in Slots : t \notin MembersOf({c \in clients : ~Running(c)}) => slot'[t] = slot[t]
    BY <1>5 DEF Reap, Destroy
  <2>2. <<Main, "listen">> \notin MembersOf({c \in clients : ~Running(c)})
    BY <1>1, SlotFacts DEF MembersOf
  <2>3. \A c \in clients' : c \in clients /\ slot'[<<c, "thread">>] = slot[<<c, "thread">>]
    BY <1>1, <1>5, <2>1, SlotFacts DEF Reap, MembersOf, Members
  <2>4. QED
    BY <1>5, <2>1, <2>2, <2>3, SlotFacts DEF Reap, Serve, KeptInv
<1>6. CASE Make
  <2>1. PICK c \in Conns : slot' = MoveAssign(slot, <<c, "socket">>, <<Main, "accepted">>)
    BY <1>6 DEF Make
  <2>2. \A t \in Kept : slot'[t] = slot[t]
    BY <1>1, <2>1, KeptFacts, SlotFacts DEF MoveAssign, Valuations
  <2>3. QED
    BY <1>1, <1>6, <2>2 DEF Make, Serve, KeptInv, Kept
<1>7. CASE Start
  <2>1. client \in Conns
    BY <1>7 DEF Start, Serve, IInv, ServeInv
  <2>2. slot'[<<client, "thread">>] # Null
        /\ \A t \in Slots \ {<<client, "thread">>} : slot'[t] = slot[t]
    BY <1>1, <1>7, <2>1, AcquireKeeps, SlotFacts DEF Start, Members
  <2>3. \A c \in Conns : c # client => slot'[<<c, "thread">>] = slot[<<c, "thread">>]
    BY <2>2, SlotFacts DEF Members
  <2>4. slot'[<<Main, "listen">>] = slot[<<Main, "listen">>]
    BY <2>1, <2>2, SlotFacts
  <2>5. QED
    BY <1>1, <1>7, <2>2, <2>3, <2>4 DEF Start, Serve, KeptInv
<1>8. CASE Push
  <2>1. client \in Conns /\ \A t \in Kept : slot'[t] = slot[t]
    BY <1>8, KeptFacts DEF Push, Serve, Destroy, IInv, ServeInv
  <2>2. QED
    BY <1>1, <1>8, <2>1 DEF Push, Serve, KeptInv, Kept
<1>9. CASE Unwind
  BY <1>9 DEF Unwind, Serve, KeptInv
<1>10. CASE UNCHANGED vars
  BY <1>10 DEF vars, KeptInv
<1>11. QED
  BY <1>2, <1>3, <1>4, <1>5, <1>6, <1>7, <1>8, <1>9, <1>10 DEF Next, ServeNext

\* Whatever values Windows gives away again, and whatever failed before: no call
\* of the accept loop or of a session is made on a handle that was closed, was
\* moved away or is somebody else's, as long as the server has not gone down.
THEOREM UsesOpenThm == Spec => []UsesOpen
<1>1. Init => KeptInv
  BY DEF Init, KeptInv
<1>2. ASSUME IInv, KeptInv, serve # "unwound" PROVE UsesOpen
  <2>1. ASSUME NEW t \in Slots, slot[t] # Null PROVE slot[t] \in opened
    <3>1. Exact(slot, opened)
      BY <1>2, OwnedOnceIsExact DEF IInv
    <3>2. QED
      BY <2>1, <3>1 DEF Exact
  <2>2. serve = "make" => slot[<<Main, "accepted">>] # Null
    BY <1>2 DEF IInv, ServeInv
  <2>3. ASSUME NEW c \in Conns PROVE SessionInv(c)
    BY <1>2 DEF IInv
  <2>4. ASSUME NEW c \in Conns, NEW m \in {"inRead", "outWrite"}, session[c] = "process"
        PROVE  slot[<<c, m>>] \in opened
    <3>1. <<c, m>> \in Slots /\ slot[<<c, m>>] # Null
      BY <2>3, <2>4, SlotFacts DEF SessionInv, Holds, Members
    <3>2. QED
      BY <2>1, <3>1
  <2>5. ASSUME NEW c \in Conns, NEW m \in Relayed, session[c] \in {"transfers", "relay", "end"}
        PROVE  slot[<<c, m>>] \in opened
    <3>1. SessionInv(c)
      BY <2>3
    <3>2. session[c] # "none" /\ session[c] # "ended"
      BY <2>5
    <3>3. \A n \in Relayed : slot[<<c, n>>] # Null
      BY <2>5, <3>1, <3>2 DEF SessionInv, Holds, Relayed
    <3>4. <<c, m>> \in Slots /\ slot[<<c, m>>] # Null
      BY <3>3, SlotFacts DEF Borrowed
    <3>5. QED
      BY <2>1, <3>4
  <2>6. ASSUME NEW c \in clients PROVE slot[<<c, "thread">>] \in opened
    <3>1. c \in Conns
      BY <1>2 DEF IInv, TypeOK
    <3>2. <<c, "thread">> \in Slots
      BY <3>1, SlotFacts DEF Members
    <3>3. QED
      BY <1>2, <2>1, <3>2 DEF KeptInv
  <2>7. serve = "accept" => slot[<<Main, "listen">>] \in opened
    BY <1>2, <2>1, SlotFacts DEF KeptInv
  <2>8. serve = "make" => slot[<<Main, "accepted">>] \in opened
    BY <2>1, <2>2, SlotFacts
  <2>9. QED
    BY <2>4, <2>5, <2>6, <2>7, <2>8 DEF UsesOpen
<1>3. IInv /\ KeptInv => UsesOpen
  BY <1>2 DEF UsesOpen
<1>4. QED
  BY <1>1, <1>3, KeptStep, Invariance, PTL DEF Spec

===============================================================================
