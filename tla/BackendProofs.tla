---------------------------- MODULE BackendProofs ----------------------------
(***************************************************************************)
(* The life cycle of the backend, for any processes, services and          *)
(* instances, and the parsing of an address of any length.                 *)
(***************************************************************************)
EXTENDS Backend, SequenceTheorems, WellFoundedInduction, TLAPS

\* How far a backend is says what it has.
Stages ==
  \A p \in Procs :
    /\ pc[p] # "down" => bus[p]
    /\ pc[p] = "up" => event[p] /\ attached[p]
    /\ pc[p] # "up" => served[p] = {} /\ \A s \in Services : owner[s] # p

IInv ==
  TypeOK /\ Stages /\ ServersReachable /\ ObjectsAlive /\ NothingLeftBehind /\ ContextIsCurrent

\* The service in the address of an instance is a service.
LEMMA ServiceIsKnown == ASSUME NEW i \in Instances PROVE ServiceOf(i) \in Services
  BY DEF Services

LEMMA InitIInv == Init => IInv
<1> SUFFICES ASSUME Init PROVE IInv
  OBVIOUS
<1>1. TypeOK
  BY Zenon DEF Init, TypeOK
<1> QED
  BY <1>1, NoOneAssumption DEF Init, IInv, Stages, ServersReachable, ObjectsAlive, NothingLeftBehind, ContextIsCurrent

\* Whatever a process does preserves the type invariant.
LEMMA TypeStep ==
  ASSUME TypeOK, NEW p \in Procs, Process(p) PROVE TypeOK'
<1> USE DEF TypeOK, procVars, contextVars
<1>1. CASE OpenBus(p) \/ NewEvent(p) \/ Attach(p) \/ GetContext(p)
  BY <1>1 DEF OpenBus, NewEvent, Attach, GetContext
<1>2. CASE StartupFails(p) \/ Shutdown(p)
  <2>1. /\ connected' \in [Procs -> BOOLEAN] /\ served' \in [Procs -> SUBSET Instances]
        /\ owner' \in [Services -> Procs \cup {NoOne}]
    <3>1. CASE Disconnect(p)
      BY <3>1 DEF Disconnect
    <3>2. CASE UNCHANGED <<connected, owner, served>>
      BY <3>2
    <3> QED
      BY <1>2, <3>1, <3>2 DEF StartupFails, Shutdown, Close
  <2>2. pc' \in [Procs -> {"down", "starting", "up"}] /\ made' \in [Procs -> SUBSET Instances]
    BY <1>2 DEF StartupFails, Shutdown, Close
  <2>3. /\ bus' \in [Procs -> BOOLEAN] /\ event' \in [Procs -> BOOLEAN]
        /\ attached' \in [Procs -> BOOLEAN] /\ asked' \in [Procs -> BOOLEAN]
    BY <1>2 DEF StartupFails, Shutdown, Close, LoseEvent
  <2>4. context' \in [Procs -> {"null", "current", "dangling"}]
    BY <1>2 DEF StartupFails, Shutdown, Close, LoseEvent
  <2> QED
    BY <2>1, <2>2, <2>3, <2>4
<1>3. CASE Crash(p)
  BY <1>3 DEF Crash, Disconnect
<1>4. ASSUME NEW i \in Instances, ServerNew(p, i) \/ ServerNewFails(p, i) \/ ServerFree(p, i)
      PROVE  TypeOK'
  BY <1>4 DEF ServerNew, ServerNewFails, ServerFree, RequestName
<1> QED
  BY <1>1, <1>2, <1>3, <1>4 DEF Process

\* A backend that closes or loses its connection loses its names and objects and
\* takes nothing from the others.
LEMMA CloseStep ==
  ASSUME IInv, NEW p \in Procs, StartupFails(p) \/ Shutdown(p) \/ Crash(p) PROVE IInv'
<1> USE DEF IInv, TypeOK, Stages
<1>1. TypeOK'
  BY TypeStep DEF Process
<1>2. /\ connected' = [connected EXCEPT ![p] = FALSE]
      /\ owner' = [s \in Services |-> IF owner[s] = p THEN NoOne ELSE owner[s]]
      /\ served' = [served EXCEPT ![p] = {}]
  BY DEF StartupFails, Shutdown, Crash, Close, Disconnect
<1>3. /\ pc' = [pc EXCEPT ![p] = "down"]
      /\ bus' = [bus EXCEPT ![p] = FALSE] /\ event' = [event EXCEPT ![p] = FALSE]
      /\ attached' = [attached EXCEPT ![p] = FALSE]
      /\ \A q \in Procs \ {p} : made'[q] = made[q]
  BY DEF StartupFails, Shutdown, Crash, Close, LoseEvent
<1>8. /\ context'[p] # "current" /\ asked' = [asked EXCEPT ![p] = FALSE]
      /\ \A q \in Procs \ {p} : context'[q] = context[q]
  BY DEF StartupFails, Shutdown, Crash, Close, LoseEvent
<1>9. ContextIsCurrent'
  BY <1>3, <1>8 DEF ContextIsCurrent
<1>4. Stages'
  BY <1>2, <1>3, NoOneAssumption
<1>5. ServersReachable'
  BY <1>2, ServiceIsKnown DEF ServersReachable
<1>6. ObjectsAlive'
  BY <1>2, <1>3 DEF ObjectsAlive
<1>7. NothingLeftBehind'
  BY <1>2, <1>3, NoOneAssumption DEF NothingLeftBehind
<1> QED
  BY <1>1, <1>4, <1>5, <1>6, <1>7, <1>9

\* The steps of startup, and the event context.
LEMMA StartupStep ==
  ASSUME IInv, NEW p \in Procs, OpenBus(p) \/ NewEvent(p) \/ Attach(p) \/ GetContext(p)
  PROVE  IInv'
<1> USE DEF IInv, TypeOK, Stages, ServersReachable, ObjectsAlive, NothingLeftBehind,
            ContextIsCurrent, contextVars
<1>1. TypeOK'
  BY TypeStep DEF Process
<1>2. CASE OpenBus(p)
  BY <1>1, <1>2 DEF OpenBus
<1>3. CASE NewEvent(p)
  BY <1>1, <1>3 DEF NewEvent
<1>4. CASE Attach(p)
  BY <1>1, <1>4 DEF Attach
<1>5. CASE GetContext(p)
  BY <1>1, <1>5 DEF GetContext
<1> QED
  BY <1>2, <1>3, <1>4, <1>5

\* An instance takes a name only when nobody else has it.
LEMMA ServerStep ==
  ASSUME IInv, NEW p \in Procs, NEW i \in Instances,
         ServerNew(p, i) \/ ServerNewFails(p, i) \/ ServerFree(p, i)
  PROVE  IInv'
<1> USE DEF IInv, TypeOK, procVars, contextVars, ContextIsCurrent
<1>1. TypeOK'
  BY TypeStep DEF Process
<1>2. CASE ServerNew(p, i) \/ ServerNewFails(p, i)
  <2>1. /\ owner[ServiceOf(i)] \in {p, NoOne} /\ owner' = [owner EXCEPT ![ServiceOf(i)] = p]
        /\ pc[p] = "up" /\ UNCHANGED procVars /\ ServiceOf(i) \in Services
        /\ \A q \in Procs \ {p} : made'[q] = made[q] /\ served'[q] = served[q]
    BY <1>2, ServiceIsKnown DEF ServerNew, ServerNewFails, RequestName
  <2>2. \/ served' = served /\ made' = made
        \/ served'[p] = served[p] \cup {i} /\ made'[p] = made[p] \cup {i}
    BY <1>2 DEF ServerNew, ServerNewFails
  <2>3. Stages'
    BY <2>1, <2>2 DEF Stages
  <2>4. ServersReachable'
    BY <2>1, <2>2, NoOneAssumption, ServiceIsKnown DEF ServersReachable
  <2>5. ObjectsAlive'
    BY <2>1, <2>2 DEF ObjectsAlive, Stages
  <2>6. NothingLeftBehind'
    BY <2>1, NoOneAssumption DEF NothingLeftBehind, Stages
  <2> QED
    BY <1>1, <2>1, <2>3, <2>4, <2>5, <2>6
<1>3. CASE ServerFree(p, i)
  <2>1. /\ UNCHANGED <<procVars, owner>>
        /\ \A q \in Procs : served'[q] \subseteq served[q]
        /\ \A q \in Procs : served[q] \subseteq made[q] => served'[q] \subseteq made'[q]
    BY <1>3 DEF ServerFree
  <2> QED
    BY <1>1, <2>1 DEF Stages, ServersReachable, ObjectsAlive, NothingLeftBehind
<1> QED
  BY <1>2, <1>3

LEMMA Invariance == Spec => []IInv
<1>1. IInv /\ [Next]_vars => IInv'
  <2> SUFFICES ASSUME IInv, [Next]_vars PROVE IInv'
    OBVIOUS
  <2>1. ASSUME NEW p \in Procs, Process(p) PROVE IInv'
    BY <2>1, CloseStep, StartupStep, ServerStep DEF Process
  <2>2. CASE UNCHANGED vars
    BY <2>2 DEF vars, procVars, contextVars, IInv, TypeOK, Stages, ServersReachable,
      ObjectsAlive, NothingLeftBehind, ContextIsCurrent
  <2> QED
    BY <2>1, <2>2 DEF Next
<1> QED
  BY <1>1, InitIInv, PTL DEF Spec

-----------------------------------------------------------------------------
\* The type invariant.
THEOREM TypeCorrect == Spec => []TypeOK
<1>1. IInv => TypeOK
  BY DEF IInv
<1> QED
  BY <1>1, Invariance, PTL

\* An application that asks after each startup never gets the loop of an earlier
\* one (cc_backend_get_event_context).
THEOREM ContextStaysCurrent == Spec => []ContextIsCurrent
<1>1. IInv => ContextIsCurrent
  BY DEF IInv
<1> QED
  BY <1>1, Invariance, PTL

\* A registered server instance can always be called by its name, whatever other
\* instances and processes ask for that name (cc_instance_new, backend.c).
THEOREM ServersStayReachable == Spec => []ServersReachable
<1>1. IInv => ServersReachable
  BY DEF IInv
<1> QED
  BY <1>1, Invariance, PTL

\* No object of a freed instance is ever registered (cc_server_<I>_free).
THEOREM NoDanglingObject == Spec => []ObjectsAlive
<1>1. IInv => ObjectsAlive
  BY DEF IInv
<1> QED
  BY <1>1, Invariance, PTL

\* A shutdown, a failed startup and a crash leave nothing behind, and
\* cc_backend_startup's assertion on backend.bus holds.
THEOREM CleanShutdown == Spec => []NothingLeftBehind
<1>1. IInv => NothingLeftBehind
  BY DEF IInv
<1> QED
  BY <1>1, Invariance, PTL

-----------------------------------------------------------------------------
(***************************************************************************)
(* The parsing of an address.                                              *)
(***************************************************************************)

\* The search for a character finds the first one.
LEMMA MinIsFirst ==
  ASSUME NEW S, S \subseteq Nat, S # {}
  PROVE  Min(S) \in S /\ \A i \in S : Min(S) <= i
<1> DEFINE less == {pair \in Nat \X Nat : pair[1] < pair[2]}
<1>1. IsWellFoundedOn(less, Nat)
  BY NatLessThanWellFounded DEF OpToRel
<1>2. \A i, j \in Nat : <<i, j>> \notin less => j <= i
  OBVIOUS
<1> HIDE DEF less
<1>3. PICK least \in S : \A i \in S : <<i, least>> \notin less
  BY <1>1, WFMin
<1>4. \A i \in S : least <= i
  BY <1>2, <1>3
<1> QED
  BY <1>4 DEF Min

\* A C string ends at the first NUL behind its start, or with the text.
LEMMA CStringIs ==
  ASSUME NEW S, NEW text \in Seq(S), NEW from \in Nat \ {0}, NEW to \in (from - 1)..Len(text),
         \A i \in from..to : text[i] # NUL,
         to = Len(text) \/ text[to + 1] = NUL
  PROVE  CString(text, from) = SubSeq(text, from, to)
<1> DEFINE ends == {i \in from..Len(text) : text[i] = NUL} \cup {Len(text) + 1}
<1>1. Len(text) \in Nat /\ to \in Nat /\ to <= Len(text)
  BY LenProperties
<1>2. to + 1 \in ends
  BY <1>1
<1>3. \A i \in ends : i \in Nat /\ to + 1 <= i
  BY <1>1
<1> HIDE DEF ends
<1>4. Min(ends) \in ends /\ Min(ends) <= to + 1
  BY <1>2, <1>3, MinIsFirst
<1>5. Min(ends) = to + 1
  BY <1>1, <1>3, <1>4
<1>6. CString(text, from) = SubSeq(text, from, Min(ends) - 1)
  BY DEF CString, ends
<1>7. to + 1 - 1 = to
  BY <1>1
<1> QED
  BY <1>5, <1>6, <1>7

\* cut is the text with its first colon from an index on replaced.
IsCut(S, text, from, cut, colon) ==
  /\ text[colon] = Colon /\ \A i \in from..(colon - 1) : text[i] # Colon
  /\ cut.next = colon + 1
  /\ cut.text \in Seq(S) /\ Len(cut.text) = Len(text)
  /\ \A i \in 1..Len(text) : cut.text[i] = IF i = colon THEN NUL ELSE text[i]

\* Some colon is replaced.
CutSomewhere(S, text, from, cut) ==
  \E colon \in from..Len(text) : IsCut(S, text, from, cut, colon)

\* strchr finds the next colon, and only that character of the text is changed.
LEMMA CutFacts ==
  ASSUME NEW S, NUL \in S, NEW text \in Seq(S), NEW from \in Nat \ {0}, Colons(text, from) # {}
  PROVE  CutSomewhere(S, text, from, Cut(text, from))
<1> DEFINE colon == Min(Colons(text, from))
<1>1. Len(text) \in Nat
  BY LenProperties
<1>2. Colons(text, from) \subseteq Nat
  BY <1>1 DEF Colons
<1>3. colon \in Colons(text, from) /\ \A i \in Colons(text, from) : colon <= i
  BY <1>2, MinIsFirst
<1>4. colon \in from..Len(text) /\ colon \in 1..Len(text) /\ text[colon] = Colon
  BY <1>1, <1>3 DEF Colons
<1>5. Cut(text, from).next = colon + 1 /\ Cut(text, from).text = [text EXCEPT ![colon] = NUL]
  BY DEF Cut
<1> HIDE DEF colon
<1>6. \A i \in from..(colon - 1) : text[i] # Colon
  BY <1>1, <1>3, <1>4 DEF Colons
<1>7. /\ [text EXCEPT ![colon] = NUL] \in Seq(S) /\ Len([text EXCEPT ![colon] = NUL]) = Len(text)
      /\ \A i \in 1..Len(text) : [text EXCEPT ![colon] = NUL][i] = IF i = colon THEN NUL ELSE text[i]
  BY <1>4, ExceptSeq
<1> QED
  BY <1>4, <1>5, <1>6, <1>7 DEF CutSomewhere, IsCut

\* t is what text begins with.
Begins(S, t, text) ==
  t \in Seq(S) /\ Len(t) <= Len(text) /\ \A i \in 1..Len(t) : t[i] = text[i]

LEMMA BeginsLonger ==
  ASSUME NEW S, NEW text \in Seq(S), NEW t, Begins(S, t, text), NEW u \in Seq(S),
         Len(t) + Len(u) <= Len(text), \A i \in 1..Len(u) : u[i] = text[Len(t) + i]
  PROVE  Begins(S, t \o u, text) /\ Len(t \o u) = Len(t) + Len(u)
<1>1. t \in Seq(S) /\ Len(t) \in Nat /\ Len(u) \in Nat
  BY LenProperties DEF Begins
<1>2. /\ t \o u \in Seq(S) /\ Len(t \o u) = Len(t) + Len(u)
      /\ \A i \in 1..(Len(t) + Len(u)) : (t \o u)[i] = IF i <= Len(t) THEN t[i] ELSE u[i - Len(t)]
  BY <1>1, ConcatProperties
<1>3. ASSUME NEW i \in 1..(Len(t) + Len(u)) PROVE (t \o u)[i] = text[i]
  <2>1. CASE i <= Len(t)
    BY <1>1, <1>2, <2>1 DEF Begins
  <2>2. CASE i > Len(t)
    <3>1. i - Len(t) \in 1..Len(u) /\ Len(t) + (i - Len(t)) = i
      BY <1>1, <2>2
    <3>2. u[i - Len(t)] = text[i]
      BY <3>1
    <3> QED
      BY <1>1, <1>2, <2>2, <3>2
  <2> QED
    BY <1>1, <2>1, <2>2
<1> QED
  BY <1>2, <1>3 DEF Begins

\* An address with fewer than two colons is refused, and no other is.
LEMMA ParseRefuses ==
  ASSUME NEW L, Colon \in L, NUL \notin L, NEW text \in Seq(L), Incomplete(text)
  PROVE  Parse(text) = Refused
<1> DEFINE S == L \cup {NUL}
<1>1. NUL \in S /\ text \in Seq(S) /\ Len(text) \in Nat
  BY SeqMonotonic, LenProperties
<1> HIDE DEF S
<1>2. PICK only \in 0..Len(text) : Colons(text, 1) \subseteq {only}
  BY DEF Incomplete
<1>3. CASE Colons(text, 1) = {}
  BY <1>3 DEF Parse
<1>4. CASE Colons(text, 1) # {}
  <2> DEFINE s == Cut(text, 1)
  <2>1. PICK c \in 1..Len(text) : IsCut(S, text, 1, s, c)
    <3>1. 1 \in Nat \ {0}
      OBVIOUS
    <3>2. CutSomewhere(S, text, 1, s)
      BY <1>1, <1>4, <3>1, CutFacts, Zenon
    <3> QED
      BY <3>2 DEF CutSomewhere
  <2> HIDE DEF s
  <2> USE DEF IsCut
  <2>2. c = only
    BY <1>2, <2>1 DEF Colons
  <2>3. ASSUME NEW i \in (c + 1)..Len(text) PROVE s.text[i] # Colon
    <3>1. i \in 1..Len(text) /\ i # c
      BY <1>1
    <3> QED
      BY <1>2, <2>1, <2>2, <3>1 DEF Colons
  <2>4. Colons(s.text, s.next) = {}
    BY <2>1, <2>3 DEF Colons
  <2> QED
    BY <1>4, <2>4 DEF Parse, s
<1> QED
  BY <1>3, <1>4

\* The text is cut at c and d, its first two colons.
CutsAt(L, text, c, d) ==
  /\ c < d /\ text[c] = Colon /\ text[d] = Colon
  /\ \A i \in 1..(d - 1) : i # c => text[i] # Colon
  /\ Parse(text).result = "ok" /\ Parse(text).service = 1
  /\ Parse(text).path = c + 1 /\ Parse(text).interface = d + 1
  /\ Parse(text).address \in Seq(L \cup {NUL}) /\ Len(Parse(text).address) = Len(text)
  /\ \A i \in 1..Len(text) : Parse(text).address[i] = IF i \in {c, d} THEN NUL ELSE text[i]

\* Any address that is not refused is cut.
LEMMA ParseCuts ==
  ASSUME NEW L, Colon \in L, NUL \notin L, NEW text \in Seq(L), ~Incomplete(text)
  PROVE  \E c, d \in 1..Len(text) : CutsAt(L, text, c, d)
<1> DEFINE S == L \cup {NUL}
           s == Cut(text, 1)
           p == Cut(s.text, s.next)
<1>1. NUL \in S /\ text \in Seq(S) /\ Len(text) \in Nat
  BY SeqMonotonic, LenProperties
<1> HIDE DEF S
<1>2. Colons(text, 1) # {}
  BY <1>1 DEF Incomplete
<1>3. PICK c \in 1..Len(text) : IsCut(S, text, 1, s, c)
  <2>1. 1 \in Nat \ {0}
    OBVIOUS
  <2>2. CutSomewhere(S, text, 1, s)
    BY <1>1, <1>2, <2>1, CutFacts, Zenon
  <2> QED
    BY <2>2 DEF CutSomewhere
<1> HIDE DEF s
<1> USE DEF IsCut
<1>4. Colons(s.text, s.next) # {}
  <2>1. PICK i \in Colons(text, 1) : i # c
    BY <1>1, <1>3 DEF Incomplete
  <2>2. i \in (c + 1)..Len(text) /\ i \in 1..Len(text) /\ text[i] = Colon
    BY <1>1, <1>3, <2>1 DEF Colons
  <2>3. i \in Colons(s.text, s.next)
    BY <1>3, <2>2 DEF Colons
  <2> QED
    BY <2>3
<1>5. PICK d \in s.next..Len(s.text) : IsCut(S, s.text, s.next, p, d)
  <2>1. s.text \in Seq(S) /\ s.next \in Nat \ {0}
    BY <1>3
  <2>2. CutSomewhere(S, s.text, s.next, p)
    BY <1>1, <1>4, <2>1, CutFacts, Zenon
  <2> QED
    BY <2>2 DEF CutSomewhere
<1>6. Parse(text) = [result |-> "ok", address |-> p.text,
                     service |-> 1, path |-> s.next, interface |-> p.next]
  BY <1>2, <1>4 DEF Parse, s
<1> HIDE DEF p
<1>7. d \in 1..Len(text) /\ c < d /\ text[d] = Colon
  BY <1>1, <1>3, <1>5
<1>8. ASSUME NEW i \in 1..(d - 1), i # c PROVE text[i] # Colon
  <2>1. CASE i < c
    BY <1>3, <2>1
  <2>2. CASE i > c
    <3>1. i \in s.next..(d - 1) /\ i \in 1..Len(text)
      BY <1>1, <1>3, <1>7, <2>2
    <3> QED
      BY <1>3, <1>5, <1>8, <3>1
  <2> QED
    BY <1>8, <2>1, <2>2
<1>9. \A i \in 1..Len(text) : p.text[i] = IF i \in {c, d} THEN NUL ELSE text[i]
  BY <1>3, <1>5
<1> QED
  BY <1>3, <1>5, <1>6, <1>7, <1>8, <1>9 DEF S, CutsAt

\* s is the text from one index to another.
IsField(L, text, s, from, to) ==
  /\ s \in Seq(L) /\ Len(s) = to - from + 1
  /\ \A i \in 1..(to - from + 1) : s[i] = text[from + i - 1]

\* Between two NULs a copy of the text holds what the text holds there.
LEMMA FieldIs ==
  ASSUME NEW L, NUL \notin L, NEW text \in Seq(L), NEW S, NEW address \in Seq(S),
         Len(address) = Len(text), NEW from \in Nat \ {0}, NEW to \in (from - 1)..Len(text),
         \A i \in from..to : address[i] = text[i],
         to = Len(address) \/ address[to + 1] = NUL
  PROVE  IsField(L, text, CString(address, from), from, to)
<1>1. Len(text) \in Nat
  BY LenProperties
<1>2. \A i \in from..to : i \in 1..Len(text)
  BY <1>1
<1>3. \A i \in from..to : address[i] \in L
  BY <1>2, ElementOfSeq
<1>4. CString(address, from) = SubSeq(address, from, to)
  BY <1>3, CStringIs
<1>5. /\ SubSeq(address, from, to) \in Seq(L)
      /\ Len(SubSeq(address, from, to)) = IF from <= to THEN to - from + 1 ELSE 0
      /\ \A i \in 1..(to - from + 1) : SubSeq(address, from, to)[i] = address[from + i - 1]
  BY <1>1, <1>3, SubSeqProperties
<1>6. \A i \in 1..(to - from + 1) : from + i - 1 \in from..to
  BY <1>1
<1> QED
  BY <1>1, <1>4, <1>5, <1>6 DEF IsField

\* s, p and f are what two colons of the text leave between them.
AroundColons(L, text, c, d, s, p, f) ==
  /\ c \in 1..Len(text) /\ d \in 1..Len(text) /\ c < d
  /\ text[c] = Colon /\ text[d] = Colon
  /\ s \in Seq(L) /\ Len(s) = c - 1 /\ \A i \in 1..Len(s) : s[i] = text[i]
  /\ p \in Seq(L) /\ Len(p) = d - c - 1 /\ \A i \in 1..Len(p) : p[i] = text[c + i]
  /\ f \in Seq(L) /\ Len(f) = Len(text) - d /\ \A i \in 1..Len(f) : f[i] = text[d + i]

\* Three fields and the colons between them.
LEMMA Joined ==
  ASSUME NEW L, Colon \in L, NEW text \in Seq(L), NEW c, NEW d, NEW s, NEW p, NEW f,
         AroundColons(L, text, c, d, s, p, f)
  PROVE  text = s \o <<Colon>> \o p \o <<Colon>> \o f
<1> USE DEF AroundColons
<1>1. Len(text) \in Nat
  BY LenProperties
<1>2. <<Colon>> \in Seq(L) /\ Len(<<Colon>>) = 1 /\ <<Colon>>[1] = Colon
  OBVIOUS
<1>3. PICK colon \in Seq(L) : colon = <<Colon>> /\ Len(colon) = 1 /\ colon[1] = Colon
  BY <1>2, Zenon
<1> DEFINE t == s \o colon
           u == t \o p
           v == u \o colon
           w == v \o f
<1>4. Begins(L, s, text)
  BY <1>1 DEF Begins
<1>5. Begins(L, t, text) /\ Len(t) = c
  <2>1. Len(s) + Len(colon) <= Len(text) /\ \A i \in 1..Len(colon) : colon[i] = text[Len(s) + i]
    BY <1>1, <1>3
  <2>2. Begins(L, t, text) /\ Len(t) = Len(s) + Len(colon)
    BY <1>4, <2>1, BeginsLonger, Zenon
  <2> HIDE DEF t
  <2> QED
    BY <1>3, <2>2
<1> HIDE DEF t
<1>6. Begins(L, u, text) /\ Len(u) = d - 1
  <2>1. Len(t) + Len(p) <= Len(text) /\ \A i \in 1..Len(p) : p[i] = text[Len(t) + i]
    BY <1>1, <1>5
  <2>2. Begins(L, u, text) /\ Len(u) = Len(t) + Len(p)
    BY <1>5, <2>1, BeginsLonger, Zenon
  <2> HIDE DEF u
  <2> QED
    BY <1>5, <2>2
<1> HIDE DEF u
<1>7. Begins(L, v, text) /\ Len(v) = d
  <2>1. Len(u) + Len(colon) <= Len(text) /\ \A i \in 1..Len(colon) : colon[i] = text[Len(u) + i]
    BY <1>1, <1>3, <1>6
  <2>2. Begins(L, v, text) /\ Len(v) = Len(u) + Len(colon)
    BY <1>6, <2>1, BeginsLonger, Zenon
  <2> HIDE DEF v
  <2> QED
    BY <1>3, <1>6, <2>2
<1> HIDE DEF v
<1>8. Begins(L, w, text) /\ Len(w) = Len(text)
  <2>1. Len(v) + Len(f) <= Len(text) /\ \A i \in 1..Len(f) : f[i] = text[Len(v) + i]
    BY <1>1, <1>7
  <2>2. Begins(L, w, text) /\ Len(w) = Len(v) + Len(f)
    BY <1>7, <2>1, BeginsLonger, Zenon
  <2> HIDE DEF w
  <2> QED
    BY <1>1, <1>7, <2>2
<1> HIDE DEF w
<1>9. text = w
  <2>1. w \in Seq(L) /\ Len(w) = Len(text) /\ \A i \in 1..Len(w) : w[i] = text[i]
    BY <1>8 DEF Begins
  <2> QED
    BY <2>1, SeqEqual, Zenon
<1> QED
  BY <1>3, <1>9, Zenon DEF t, u, v, w

\* The C strings at the three pointers are the fields of the address.
LEMMA FieldsAreMade ==
  ASSUME NEW L, Colon \in L, NUL \notin L, NEW text \in Seq(L), ~Incomplete(text)
  PROVE  FieldsMake(text)
<1>1. PICK c, d \in 1..Len(text) : CutsAt(L, text, c, d)
  BY ParseCuts
<1>2. Len(text) \in Nat
  BY LenProperties
<1> DEFINE address == Parse(text).address
           s == CString(address, 1)
           p == CString(address, c + 1)
           f == CString(address, d + 1)
<1> HIDE DEF address
<1>3. address \in Seq(L \cup {NUL}) /\ Len(address) = Len(text)
  BY <1>1 DEF address, CutsAt
<1>4. \A i \in 1..Len(text) : address[i] = IF i \in {c, d} THEN NUL ELSE text[i]
  BY <1>1 DEF address, CutsAt
<1>5. /\ c < d /\ text[c] = Colon /\ text[d] = Colon
      /\ \A i \in 1..(d - 1) : i # c => text[i] # Colon
  BY <1>1 DEF CutsAt
<1>6. s \in Seq(L) /\ Len(s) = c - 1 /\ \A i \in 1..(c - 1) : s[i] = text[i]
  <2>1. \A i \in 1..(c - 1) : address[i] = text[i]
    BY <1>5, <1>2, <1>4
  <2>2. c - 1 \in (1 - 1)..Len(text) /\ address[c - 1 + 1] = NUL /\ 1 \in Nat \ {0}
    BY <1>2, <1>3, <1>4
  <2>3. IsField(L, text, s, 1, c - 1)
    BY <1>3, <2>1, <2>2, FieldIs
  <2> QED
    BY <1>2, <2>3 DEF IsField
<1>7. p \in Seq(L) /\ Len(p) = d - c - 1 /\ \A i \in 1..(d - c - 1) : p[i] = text[c + i]
  <2>1. \A i \in (c + 1)..(d - 1) : address[i] = text[i]
    BY <1>5, <1>2, <1>4
  <2>2. d - 1 \in ((c + 1) - 1)..Len(text) /\ address[d - 1 + 1] = NUL /\ c + 1 \in Nat \ {0}
    BY <1>5, <1>2, <1>4
  <2>3. IsField(L, text, p, c + 1, d - 1)
    BY <1>3, <2>1, <2>2, FieldIs
  <2> QED
    BY <1>2, <2>3 DEF IsField
<1>8. f \in Seq(L) /\ Len(f) = Len(text) - d /\ \A i \in 1..(Len(text) - d) : f[i] = text[d + i]
  <2>1. \A i \in (d + 1)..Len(text) : address[i] = text[i]
    BY <1>5, <1>2, <1>4
  <2>2. /\ Len(text) \in ((d + 1) - 1)..Len(text) /\ d + 1 \in Nat \ {0}
        /\ Len(text) = Len(address)
    BY <1>2, <1>3, <1>4
  <2>3. IsField(L, text, f, d + 1, Len(text))
    BY <1>3, <2>1, <2>2, FieldIs
  <2> QED
    BY <1>2, <2>3 DEF IsField
<1> HIDE DEF s, p, f
<1>9. Colons(s, 1) = {} /\ Colons(p, 1) = {}
  <2>1. \A i \in 1..(c - 1) : s[i] # Colon
    BY <1>5, <1>2, <1>6
  <2>2. \A i \in 1..(d - c - 1) : p[i] # Colon
    <3>1. \A i \in 1..(d - c - 1) : c + i \in 1..(d - 1) /\ c + i # c
      BY <1>5, <1>2
    <3> QED
      BY <1>5, <1>7, <3>1
  <2> QED
    BY <1>6, <1>7, <2>1, <2>2 DEF Colons
<1>10. text = s \o <<Colon>> \o p \o <<Colon>> \o f
  <2>1. AroundColons(L, text, c, d, s, p, f)
    BY <1>5, <1>6, <1>7, <1>8 DEF AroundColons
  <2> QED
    BY <2>1, Joined
<1> QED
  BY <1>1, <1>9, <1>10 DEF CutsAt, FieldsMake, s, p, f, address

\* cc_instance_new takes every address apart as it should, however long it is and
\* whatever its characters are: two colons or EINVAL, and nothing is lost.
THEOREM EveryAddress ==
  ASSUME NEW letters, NUL \notin letters, NEW text \in Seq(letters \cup {Colon})
  PROVE  IF Incomplete(text) THEN Parse(text) = Refused
                             ELSE Parse(text).result = "ok" /\ FieldsMake(text)
<1> DEFINE L == letters \cup {Colon}
<1>1. Colon \in L /\ NUL \notin L
  BY DEF Colon, NUL
<1> HIDE DEF L
<1>2. text \in Seq(L)
  BY DEF L
<1> QED
  BY <1>1, <1>2, ParseRefuses, ParseCuts, FieldsAreMade DEF CutsAt

\* The same as an invariant of the backend, for any bound on the addresses.
THEOREM AddressesAreTakenApart == Spec => []FieldsAreTheAddress
<1>1. EachTextIsTakenApart
  <2>1. \A text \in Texts(Letters, MaxLength) : text \in Seq(Letters \cup {Colon})
    BY MaxLengthAssumption, SeqDef DEF Texts
  <2> QED
    BY <2>1, LettersAssumption, EveryAddress DEF EachTextIsTakenApart
<1>2. FieldsAreTheAddress
  BY <1>1 DEF FieldsAreTheAddress
<1> QED
  BY <1>2, PTL
=============================================================================
