---------------------------- MODULE SimpleProofs ----------------------------
(***************************************************************************)
(* What holds of the server with two instances for any number of clients   *)
(* and any hazards.                                                        *)
(***************************************************************************)
EXTENDS Simple, SequenceTheorems, FiniteSetTheorems, TLAPS

-----------------------------------------------------------------------------
(* Sequences: what the operators that build an inbox keep in it.           *)

\* Some message of s is for instance i.
HasReply(s, i) == \E n \in DOMAIN s : s[n].to = i

LEMMA AppendKeeps ==
  ASSUME NEW S, NEW s \in Seq(S), NEW m \in S
  PROVE  /\ Append(s, m) \in Seq(S)
         /\ HasReply(Append(s, m), m.to)
         /\ \A i : HasReply(s, i) => HasReply(Append(s, m), i)
<1>1. /\ Append(s, m) \in Seq(S) /\ Len(Append(s, m)) = Len(s) + 1
      /\ \A n \in 1..Len(s) : Append(s, m)[n] = s[n]
      /\ Append(s, m)[Len(s) + 1] = m
  BY AppendProperties
<1>2. DOMAIN Append(s, m) = 1..(Len(s) + 1) /\ DOMAIN s = 1..Len(s) /\ Len(s) \in Nat
  BY <1>1, LenProperties
<1> QED
  BY <1>1, <1>2 DEF HasReply

LEMMA ConcatKeeps ==
  ASSUME NEW S, NEW s \in Seq(S), NEW t \in Seq(S)
  PROVE  /\ s \o t \in Seq(S)
         /\ \A i : HasReply(s, i) \/ HasReply(t, i) => HasReply(s \o t, i)
<1>1. /\ s \o t \in Seq(S) /\ Len(s \o t) = Len(s) + Len(t)
      /\ \A n \in 1..(Len(s) + Len(t)) :
           (s \o t)[n] = IF n <= Len(s) THEN s[n] ELSE t[n - Len(s)]
  BY ConcatProperties
<1>2. /\ DOMAIN (s \o t) = 1..(Len(s) + Len(t)) /\ DOMAIN s = 1..Len(s) /\ DOMAIN t = 1..Len(t)
      /\ Len(s) \in Nat /\ Len(t) \in Nat
  BY <1>1, LenProperties
<1>3. \A n \in 1..Len(s) : n \in DOMAIN (s \o t) /\ (s \o t)[n] = s[n]
  BY <1>1, <1>2
<1>4. \A n \in 1..Len(t) : n + Len(s) \in DOMAIN (s \o t) /\ (s \o t)[n + Len(s)] = t[n]
  BY <1>1, <1>2
<1> QED
  BY <1>1, <1>2, <1>3, <1>4 DEF HasReply

\* A message that is taken out of the middle leaves the others there.
LEMMA RemoveAtKeeps ==
  ASSUME NEW S, NEW s \in Seq(S), NEW n \in DOMAIN s
  PROVE  /\ RemoveAt(s, n) \in Seq(S)
         /\ \A i : HasReply(s, i) /\ s[n].to # i => HasReply(RemoveAt(s, n), i)
<1>1. DOMAIN s = 1..Len(s) /\ Len(s) \in Nat /\ n \in 1..Len(s)
  BY LenProperties
<1> DEFINE before == SubSeq(s, 1, n - 1)
           after == SubSeq(s, n + 1, Len(s))
<1>2. /\ before \in Seq(S) /\ Len(before) = n - 1
      /\ \A k \in 1..(n - 1) : before[k] = s[k]
  <2>1. \A k \in 1..(n - 1) : s[k] \in S
    BY <1>1, ElementOfSeq
  <2> QED
    BY <1>1, <2>1, SubSeqProperties
<1>3. /\ after \in Seq(S) /\ Len(after) = Len(s) - n
      /\ \A k \in 1..(Len(s) - n) : after[k] = s[n + k]
  <2>1. \A k \in (n + 1)..Len(s) : s[k] \in S
    BY <1>1, ElementOfSeq
  <2>2. /\ after \in Seq(S)
        /\ Len(after) = IF n + 1 <= Len(s) THEN Len(s) - (n + 1) + 1 ELSE 0
        /\ \A k \in 1..(Len(s) - (n + 1) + 1) : after[k] = s[(n + 1) + k - 1]
    BY <1>1, <2>1, SubSeqProperties
  <2> QED
    BY <1>1, <2>2
<1>4. DOMAIN before = 1..(n - 1) /\ DOMAIN after = 1..(Len(s) - n)
  BY <1>2, <1>3, LenProperties
<1> HIDE DEF before, after
<1>5. \A i : HasReply(s, i) /\ s[n].to # i => HasReply(before, i) \/ HasReply(after, i)
  <2> SUFFICES ASSUME NEW i, NEW k \in DOMAIN s, s[k].to = i, s[n].to # i
               PROVE  HasReply(before, i) \/ HasReply(after, i)
    BY DEF HasReply
  <2>1. CASE k < n
    BY <1>1, <1>2, <1>4, <2>1 DEF HasReply
  <2>2. CASE k > n
    <3>1. k - n \in 1..(Len(s) - n) /\ n + (k - n) = k
      BY <1>1, <2>2
    <3>2. after[k - n] = s[k]
      BY <1>3, <3>1
    <3> QED
      BY <1>4, <3>1, <3>2 DEF HasReply
  <2>3. k # n
    OBVIOUS
  <2> QED
    BY <1>1, <2>1, <2>2, <2>3
<1>6. RemoveAt(s, n) = before \o after
  BY DEF RemoveAt, before, after
<1> QED
  BY <1>2, <1>3, <1>5, <1>6, ConcatKeeps

\* SetToSeq lists a finite set.
LEMMA SetToSeqLists ==
  ASSUME NEW S, IsFiniteSet(S)
  PROVE  SetToSeq(S) \in Seq(S) /\ \A x \in S : \E n \in DOMAIN SetToSeq(S) : SetToSeq(S)[n] = x
<1> DEFINE C == Cardinality(S)
           s == SetToSeq(S)
<1>1. C \in Nat /\ ExistsBijection(1..C, S)
  BY FS_CardinalityType
<1>2. \E f \in [1..C -> S] : IsInjective(f)
  BY <1>1 DEF ExistsBijection, Bijection, Injection
<1>3. s \in [1..C -> S] /\ IsInjective(s)
  BY <1>2 DEF SetToSeq
<1>4. s \in Injection(1..C, S)
  BY <1>3 DEF Injection
<1>5. Cardinality(1..C) = C
  BY <1>1, FS_Interval
<1>6. s \in Surjection(1..C, S)
  BY <1>4, <1>5, FS_Injection
<1>7. \A x \in S : \E n \in 1..C : s[n] = x
  BY <1>6 DEF Surjection
<1>8. s \in Seq(S)
  BY <1>1, <1>3, SeqDef
<1> QED
  BY <1>3, <1>7, <1>8

-----------------------------------------------------------------------------
(***************************************************************************)
(* The inductive invariant.  What a client gets follows from what can be   *)
(* in its inbox, and that from what the objects do while calls are served. *)
(***************************************************************************)

\* What the server and the bus send, once both instances exist.
Expected ==
  {Signal, Reply(1, "exact"), Reply(2, "fixed")} \cup {Reply(i, "error") : i \in Instances}

\* The loop of the server runs with both instances, and calls wait for it only
\* while it owns the service name.
ServerInStep ==
  /\ server = "named" => impl[1] = "exact"
  /\ server = "serving" => impl[1] = "exact" /\ impl[2] = "fixed"
  /\ calls # {} => server \in {"named", "serving"}

\* A call that its client waits for is at the server, or was answered.
Due(c, i) == <<c, i>> \in calls \/ HasReply(inbox[c], i)

ClientInStep(c) ==
  /\ slot[c] <=> pc[c] \in {"refused", "running"}
  /\ pc[c] \in {"calling", "refused", "running"} => got[c][1] = "exact"
  /\ got[c][1] \in {"none", "exact"} /\ got[c][2] \in {"none", "fixed"}
  /\ got[c][2] # "none" => got[c][1] # "none"
  /\ refused[c] # "answered"
  /\ pc[c] = "blocked" => Due(c, 1)
  /\ slot[c] => Due(c, 2)

\* As TypeOK, without the inboxes.
RestOK ==
  /\ server \in {"down", "named", "serving", "gone"}
  /\ impl \in [Instances -> Values \cup {"none"}]
  /\ calls \subseteq Clients \X Instances
  /\ pc \in [Clients -> {"new", "blocked", "calling", "refused", "running", "done"}]
  /\ slot \in [Clients -> BOOLEAN]
  /\ got \in [Clients -> [Instances -> Values \cup {"none"}]]
  /\ refused \in [Clients -> {"not called", "EBUSY", "answered"}]

IInv ==
  /\ RestOK /\ inbox \in [Clients -> Seq(Expected)]
  /\ ServerInStep /\ \A c \in Clients : ClientInStep(c)

\* The messages of an inbox are among those of its type.
LEMMA ExpectedMessages ==
  ASSUME IInv
  PROVE  /\ TypeOK
         /\ \A c \in Clients : DOMAIN inbox[c] = 1..Len(inbox[c])
         /\ \A c \in Clients : \A n \in DOMAIN inbox[c] : inbox[c][n] \in Expected
<1>1. Expected \subseteq Messages
  BY DEF Expected, Messages, Signal, Reply, Values, Instances
<1>2. inbox \in [Clients -> Seq(Messages)]
  BY <1>1, SeqMonotonic DEF IInv
<1>3. \A c \in Clients : inbox[c] \in Seq(Expected)
  BY DEF IInv
<1> QED
  BY <1>2, <1>3, LenProperties, ElementOfSeq DEF IInv, RestOK, TypeOK

LEMMA InitIInv == Init => IInv
<1> SUFFICES ASSUME Init PROVE IInv
  OBVIOUS
<1>1. inbox \in [Clients -> Seq(Expected)]
  <2>1. <<>> \in Seq(Expected)
    BY EmptySeq
  <2> QED
    BY <2>1 DEF Init
<1>2. RestOK
  BY DEF Init, RestOK, Instances, Values
<1>3. ServerInStep /\ \A c \in Clients : ClientInStep(c)
  BY DEF Init, ServerInStep, ClientInStep, Due, Instances
<1> QED
  BY <1>1, <1>2, <1>3 DEF IInv

\* A client whose calls are still due, and that did nothing, is in step.
LEMMA Bystander ==
  ASSUME IInv, NEW c \in Clients,
         pc'[c] = pc[c], slot'[c] = slot[c], got'[c] = got[c], refused'[c] = refused[c],
         \A i \in Instances : Due(c, i) => Due(c, i)'
  PROVE  ClientInStep(c)'
  BY DEF IInv, ClientInStep, Instances

-----------------------------------------------------------------------------
(* The server. *)

\* The two instances come to be before the loop runs.
LEMMA InstanceStep == ASSUME IInv, FirstInstance \/ SecondInstance PROVE IInv'
<1> USE DEF FirstInstance, SecondInstance, clientVars, Instances, Values
<1>1. UNCHANGED <<calls, inbox, pc, slot, got, refused>>
  OBVIOUS
<1>2. RestOK' /\ ServerInStep'
  <2>1. CASE FirstInstance
    BY <2>1 DEF IInv, RestOK, ServerInStep
  <2>2. CASE SecondInstance
    <3>1. impl \in [Instances -> Values \cup {"none"}] /\ impl[1] = "exact" /\ server' = "serving"
      BY <2>2 DEF IInv, RestOK, ServerInStep
    <3>2. impl' \in [Instances -> Values \cup {"none"}] /\ impl'[1] = "exact" /\ impl'[2] = "fixed"
      BY <2>2, <3>1
    <3> QED
      BY <1>1, <3>1, <3>2 DEF IInv, RestOK, ServerInStep
  <2> QED
    BY <2>1, <2>2
<1>3. \A c \in Clients : ClientInStep(c)'
  BY <1>1, Bystander DEF Due
<1> QED
  BY <1>1, <1>2, <1>3 DEF IInv

\* A call is answered by the object of its instance.
LEMMA ServeStep ==
  ASSUME IInv, NEW c \in Clients, NEW i \in Instances, Serve(c, i) PROVE IInv'
<1>1. /\ server = "serving" /\ calls' = calls \ {<<c, i>>}
      /\ UNCHANGED <<server, impl, pc, slot, got, refused>>
      /\ inbox' = [inbox EXCEPT ![c] = Append(@, Reply(i, Answer(i)))]
  BY DEF Serve, serverVars, clientVars
<1>2. Reply(i, Answer(i)) \in Expected /\ Reply(i, Answer(i)).to = i
  BY <1>1 DEF IInv, ServerInStep, Expected, Reply, Answer, Instances
<1>3. inbox[c] \in Seq(Expected)
  BY DEF IInv
<1>4. /\ Append(inbox[c], Reply(i, Answer(i))) \in Seq(Expected)
      /\ HasReply(Append(inbox[c], Reply(i, Answer(i))), i)
      /\ \A j : HasReply(inbox[c], j) => HasReply(Append(inbox[c], Reply(i, Answer(i))), j)
  BY <1>2, <1>3, AppendKeeps
<1>5. inbox' \in [Clients -> Seq(Expected)]
  BY <1>1, <1>4 DEF IInv
<1>6. RestOK' /\ ServerInStep'
  BY <1>1 DEF IInv, RestOK, ServerInStep
<1>7. \A d \in Clients, j \in Instances : Due(d, j) => Due(d, j)'
  <2> SUFFICES ASSUME NEW d \in Clients, NEW j \in Instances, Due(d, j) PROVE Due(d, j)'
    OBVIOUS
  <2>1. CASE d = c
    BY <1>1, <1>4, <2>1 DEF Due, IInv
  <2>2. CASE d # c
    BY <1>1, <2>2 DEF Due, IInv
  <2> QED
    BY <2>1, <2>2
<1> QED
  BY <1>1, <1>5, <1>6, <1>7, Bystander DEF IInv

\* The bus fails every call that is left.
LEMMA ServerStopStep == ASSUME IInv, ServerStop PROVE IInv'
<1> DEFINE Open(c) == {j \in Instances : <<c, j>> \in calls}
           Failed(c) == {Reply(i, "error") : i \in Open(c)}
<1>1. /\ server' = "gone" /\ calls' = {} /\ UNCHANGED <<pc, slot, got, refused>>
      /\ impl' = [i \in Instances |-> "none"]
      /\ inbox' = [c \in Clients |-> inbox[c] \o SetToSeq(Failed(c))]
  BY DEF ServerStop, clientVars
<1>2. \A c \in Clients : IsFiniteSet(Failed(c)) /\ Failed(c) \subseteq Expected
  <2> SUFFICES ASSUME NEW c \in Clients PROVE IsFiniteSet(Failed(c)) /\ Failed(c) \subseteq Expected
    OBVIOUS
  <2>1. Failed(c) \subseteq {Reply(1, "error"), Reply(2, "error")}
    BY DEF Instances
  <2>2. IsFiniteSet({Reply(1, "error"), Reply(2, "error")})
    <3>1. {Reply(1, "error"), Reply(2, "error")} = {Reply(1, "error")} \cup {Reply(2, "error")}
      OBVIOUS
    <3>2. IsFiniteSet({Reply(1, "error")})
      BY FS_Singleton
    <3> QED
      BY <3>1, <3>2, FS_AddElement, Zenon
  <2> QED
    BY <2>1, <2>2, FS_Subset DEF Expected, Instances
<1>3. \A c \in Clients :
        /\ SetToSeq(Failed(c)) \in Seq(Expected)
        /\ \A i \in Open(c) : HasReply(SetToSeq(Failed(c)), i)
  <2> SUFFICES ASSUME NEW c \in Clients
               PROVE  /\ SetToSeq(Failed(c)) \in Seq(Expected)
                      /\ \A i \in Open(c) : HasReply(SetToSeq(Failed(c)), i)
    OBVIOUS
  <2>1. /\ SetToSeq(Failed(c)) \in Seq(Failed(c))
        /\ \A m \in Failed(c) : \E n \in DOMAIN SetToSeq(Failed(c)) : SetToSeq(Failed(c))[n] = m
    BY <1>2, SetToSeqLists
  <2>2. SetToSeq(Failed(c)) \in Seq(Expected)
    BY <1>2, <2>1, SeqMonotonic
  <2>3. \A i \in Open(c) : Reply(i, "error") \in Failed(c) /\ Reply(i, "error").to = i
    BY DEF Reply
  <2> HIDE DEF Failed
  <2> QED
    BY <2>1, <2>2, <2>3 DEF HasReply
<1>4. \A c \in Clients : inbox[c] \in Seq(Expected)
  BY DEF IInv
<1> HIDE DEF Failed
<1>5. \A c \in Clients :
        /\ inbox[c] \o SetToSeq(Failed(c)) \in Seq(Expected)
        /\ \A i : HasReply(inbox[c], i) \/ HasReply(SetToSeq(Failed(c)), i)
                  => HasReply(inbox[c] \o SetToSeq(Failed(c)), i)
  BY <1>3, <1>4, ConcatKeeps
<1>6. inbox' \in [Clients -> Seq(Expected)]
  BY <1>1, <1>5
<1>7. RestOK' /\ ServerInStep'
  BY <1>1 DEF IInv, RestOK, ServerInStep
<1>8. \A c \in Clients, i \in Instances : Due(c, i) => Due(c, i)'
  BY <1>1, <1>3, <1>5 DEF Due
<1> QED
  BY <1>1, <1>6, <1>7, <1>8, Bystander DEF IInv

-----------------------------------------------------------------------------
(* The clients. *)

\* A call waits for the owner of the name, or its failure is in the inbox; all
\* that was there before stays.
LEMMA CallStep ==
  ASSUME IInv, NEW c \in Clients, NEW i \in Instances, NEW before \in Seq(Expected),
         Call(c, i, before)
  PROVE  /\ calls' \subseteq Clients \X Instances /\ calls \subseteq calls'
         /\ calls' # {} => server \in {"named", "serving"}
         /\ inbox' \in [Clients -> Seq(Expected)]
         /\ \A d \in Clients : d # c => inbox'[d] = inbox[d]
         /\ \A j : HasReply(before, j) => HasReply(inbox'[c], j)
         /\ Due(c, i)'
<1>1. CASE server \in {"named", "serving"}
  <2>1. calls' = calls \cup {<<c, i>>} /\ inbox' = [inbox EXCEPT ![c] = before]
    BY <1>1 DEF Call
  <2>2. <<c, i>> \in Clients \X Instances /\ calls \subseteq Clients \X Instances
    BY DEF IInv, RestOK
  <2>3. inbox' \in [Clients -> Seq(Expected)] /\ inbox'[c] = before
    BY <2>1 DEF IInv
  <2>4. \A d \in Clients : d # c => inbox'[d] = inbox[d]
    BY <2>1 DEF IInv
  <2> QED
    BY <1>1, <2>1, <2>2, <2>3, <2>4 DEF Due
<1>2. CASE server \notin {"named", "serving"}
  <2>1. calls' = calls /\ inbox' = [inbox EXCEPT ![c] = Append(before, Reply(i, "error"))]
    BY <1>2 DEF Call
  <2>2. Reply(i, "error") \in Expected /\ Reply(i, "error").to = i
    BY DEF Expected, Reply
  <2>3. /\ Append(before, Reply(i, "error")) \in Seq(Expected)
        /\ HasReply(Append(before, Reply(i, "error")), i)
        /\ \A j : HasReply(before, j) => HasReply(Append(before, Reply(i, "error")), j)
    BY <2>2, AppendKeeps
  <2> QED
    BY <1>2, <2>1, <2>3 DEF IInv, RestOK, ServerInStep, Due
<1> QED
  BY <1>1, <1>2

LEMMA ClientLaunchStep == ASSUME IInv, NEW c \in Clients, ClientLaunch(c) PROVE IInv'
<1>1. /\ pc[c] = "new" /\ pc' = [pc EXCEPT ![c] = "blocked"]
      /\ UNCHANGED <<server, impl, slot, got, refused>>
  BY DEF ClientLaunch, serverVars
<1>2. PICK before \in {<<>>, <<Signal>>} : Call(c, 1, before)
  BY DEF ClientLaunch
<1>3. before \in Seq(Expected)
  <2>1. <<>> \in Seq(Expected) /\ Append(<<>>, Signal) \in Seq(Expected)
    BY EmptySeq, AppendProperties DEF Expected
  <2>2. Append(<<>>, Signal) = <<Signal>>
    OBVIOUS
  <2> QED
    BY <2>1, <2>2
<1>4. /\ calls' \subseteq Clients \X Instances /\ calls \subseteq calls'
      /\ calls' # {} => server \in {"named", "serving"}
      /\ inbox' \in [Clients -> Seq(Expected)]
      /\ \A d \in Clients : d # c => inbox'[d] = inbox[d]
      /\ Due(c, 1)'
  BY <1>2, <1>3, CallStep DEF Instances
<1>5. RestOK' /\ ServerInStep'
  BY <1>1, <1>4 DEF IInv, RestOK, ServerInStep
<1>6. ASSUME NEW d \in Clients, d # c PROVE ClientInStep(d)'
  BY <1>1, <1>4, <1>6, Bystander DEF Due, IInv, RestOK
<1>7. ClientInStep(c)'
  BY <1>1, <1>4 DEF ClientInStep, IInv, RestOK
<1> QED
  BY <1>4, <1>5, <1>6, <1>7 DEF IInv

LEMMA AsyncCallStep == ASSUME IInv, NEW c \in Clients, AsyncCall(c) PROVE IInv'
<1>1. pc[c] = "calling" /\ UNCHANGED <<server, impl, got, refused>>
  BY DEF AsyncCall, serverVars
<1>2. CASE /\ Call(c, 2, inbox[c])
           /\ slot' = [slot EXCEPT ![c] = TRUE] /\ pc' = [pc EXCEPT ![c] = "refused"]
  <2>1. inbox[c] \in Seq(Expected)
    BY DEF IInv
  <2>2. /\ calls' \subseteq Clients \X Instances /\ calls \subseteq calls'
        /\ calls' # {} => server \in {"named", "serving"}
        /\ inbox' \in [Clients -> Seq(Expected)]
        /\ \A d \in Clients : d # c => inbox'[d] = inbox[d]
        /\ Due(c, 2)'
    BY <1>2, <2>1, CallStep DEF Instances
  <2>3. RestOK' /\ ServerInStep'
    BY <1>1, <1>2, <2>2 DEF IInv, RestOK, ServerInStep
  <2>4. ASSUME NEW d \in Clients, d # c PROVE ClientInStep(d)'
    BY <1>1, <1>2, <2>2, <2>4, Bystander DEF Due, IInv, RestOK
  <2>5. ClientInStep(c)'
    BY <1>1, <1>2, <2>2 DEF ClientInStep, IInv, RestOK
  <2> QED
    BY <2>2, <2>3, <2>4, <2>5 DEF IInv
<1>3. CASE Finish(c) /\ UNCHANGED <<calls, inbox>>
  BY <1>1, <1>3 DEF Finish, IInv, RestOK, ServerInStep, ClientInStep, Due
<1> QED
  BY <1>2, <1>3 DEF AsyncCall

\* What the client gets from one instance leaves the rest alone.
LEMMA GotStep ==
  ASSUME IInv, NEW c \in Clients, NEW i \in Instances, NEW value \in Values,
         got' = [got EXCEPT ![c][i] = value]
  PROVE  /\ got' \in [Clients -> [Instances -> Values \cup {"none"}]]
         /\ got'[c][i] = value /\ \A j \in Instances : j # i => got'[c][j] = got[c][j]
         /\ \A d \in Clients : d # c => got'[d] = got[d]
<1>1. got \in [Clients -> [Instances -> Values \cup {"none"}]]
  BY DEF IInv, RestOK
<1>2. [got[c] EXCEPT ![i] = value] \in [Instances -> Values \cup {"none"}]
  BY <1>1
<1>3. got' = [got EXCEPT ![c] = [got[c] EXCEPT ![i] = value]]
  BY <1>1
<1> QED
  BY <1>1, <1>2, <1>3

\* The blocking call ends: its reply leaves the inbox, wherever it is.
LEMMA SyncReturnStep == ASSUME IInv, NEW c \in Clients, SyncReturn(c) PROVE IInv'
<1>1. PICK n \in DOMAIN inbox[c] :
        /\ inbox[c][n].to = 1 /\ inbox' = [inbox EXCEPT ![c] = RemoveAt(@, n)]
        /\ IF inbox[c][n].value \in Values
           THEN /\ got' = [got EXCEPT ![c][1] = inbox[c][n].value]
                /\ pc' = [pc EXCEPT ![c] = "calling"] /\ UNCHANGED slot
           ELSE Finish(c) /\ UNCHANGED got
  BY DEF SyncReturn
<1>2. pc[c] = "blocked" /\ UNCHANGED <<server, impl, calls, refused>>
  BY DEF SyncReturn, serverVars
<1>3. /\ RemoveAt(inbox[c], n) \in Seq(Expected)
      /\ \A i : HasReply(inbox[c], i) /\ inbox[c][n].to # i => HasReply(RemoveAt(inbox[c], n), i)
  BY RemoveAtKeeps DEF IInv
<1>4. inbox' \in [Clients -> Seq(Expected)] /\ \A d \in Clients : d # c => inbox'[d] = inbox[d]
  BY <1>1, <1>3 DEF IInv
<1>5. inbox[c][n].value \in Values => inbox[c][n].value = "exact"
  <2>1. inbox[c][n] \in Expected
    BY ExpectedMessages
  <2> QED
    BY <1>1, <2>1 DEF Expected, Reply, Signal, Values, Instances
<1>6. \/ /\ got'[c][1] = "exact" /\ got'[c][2] = got[c][2]
         /\ pc' = [pc EXCEPT ![c] = "calling"] /\ UNCHANGED slot
      \/ Finish(c) /\ UNCHANGED got
  BY <1>1, <1>5, GotStep DEF Instances
<1>7. /\ got' \in [Clients -> [Instances -> Values \cup {"none"}]]
       /\ \A d \in Clients : d # c => got'[d] = got[d]
  <2>1. CASE got' = got
    BY <2>1 DEF IInv, RestOK
  <2>2. CASE inbox[c][n].value \in Values
    BY <1>1, <2>2, GotStep DEF Instances
  <2> QED
    BY <1>1, <2>1, <2>2
<1>8. RestOK' /\ ServerInStep'
  BY <1>2, <1>6, <1>7 DEF Finish, IInv, RestOK, ServerInStep
<1>9. ASSUME NEW d \in Clients, d # c PROVE ClientInStep(d)'
  BY <1>2, <1>4, <1>9, <1>6, <1>7, Bystander DEF Finish, Due, IInv, RestOK
<1>10. ClientInStep(c)'
  <2>1. /\ ClientInStep(c) /\ ~slot[c]
        /\ pc \in [Clients -> {"new", "blocked", "calling", "refused", "running", "done"}]
    BY <1>2 DEF IInv, RestOK, ClientInStep
  <2>2. CASE Finish(c) /\ UNCHANGED got
    BY <1>2, <2>1, <2>2 DEF Finish, ClientInStep, IInv, RestOK
  <2>3. CASE /\ got'[c][1] = "exact" /\ got'[c][2] = got[c][2]
             /\ pc' = [pc EXCEPT ![c] = "calling"] /\ UNCHANGED slot
    BY <1>2, <2>1, <2>3 DEF ClientInStep
  <2> QED
    BY <1>6, <2>2, <2>3
<1> QED
  BY <1>4, <1>8, <1>9, <1>10 DEF IInv

\* A run of the loop: the head of the inbox may be the answer to the second call.
LEMMA RunStep == ASSUME IInv, NEW c \in Clients, Run(c) PROVE IInv'
<1>1. /\ pc[c] = "running" /\ inbox[c] # <<>>
      /\ inbox' = [inbox EXCEPT ![c] = Tail(@)]
      /\ pc' = [pc EXCEPT ![c] = "done"] /\ slot' = [slot EXCEPT ![c] = FALSE]
      /\ UNCHANGED <<server, impl, calls, refused>>
  BY DEF Run, Finish, serverVars
<1>2. Head(inbox[c]) \in Expected /\ Tail(inbox[c]) \in Seq(Expected)
  BY <1>1, HeadTailProperties DEF IInv
<1>3. inbox' \in [Clients -> Seq(Expected)] /\ \A d \in Clients : d # c => inbox'[d] = inbox[d]
  BY <1>1, <1>2 DEF IInv
<1>4. got' = got \/ got' = [got EXCEPT ![c][2] = "fixed"]
  <2> DEFINE m == Head(inbox[c])
  <2>1. m.to = 2 /\ m.value \in Values => m.value = "fixed"
    BY <1>2 DEF Expected, Reply, Signal, Values, Instances
  <2>2. got' = Completed(c, m)
    BY DEF Run
  <2> HIDE DEF m
  <2> QED
    BY <2>1, <2>2 DEF Completed
<1>5. /\ got' \in [Clients -> [Instances -> Values \cup {"none"}]]
      /\ got'[c][1] = got[c][1] /\ got'[c][2] \in {"fixed", got[c][2]}
      /\ \A d \in Clients : d # c => got'[d] = got[d]
  <2>1. CASE got' = got
    BY <2>1 DEF IInv, RestOK
  <2>2. CASE got' = [got EXCEPT ![c][2] = "fixed"]
    <3>1. 1 \in Instances /\ 2 \in Instances /\ "fixed" \in Values
      BY DEF Instances, Values
    <3>2. /\ got' \in [Clients -> [Instances -> Values \cup {"none"}]]
          /\ got'[c][2] = "fixed" /\ \A j \in Instances : j # 2 => got'[c][j] = got[c][j]
          /\ \A d \in Clients : d # c => got'[d] = got[d]
      BY <2>2, <3>1, GotStep, Zenon
    <3> QED
      BY <3>1, <3>2
  <2> QED
    BY <1>4, <2>1, <2>2
<1>6. RestOK' /\ ServerInStep'
  BY <1>1, <1>5 DEF IInv, RestOK, ServerInStep
<1>7. ASSUME NEW d \in Clients, d # c PROVE ClientInStep(d)'
  BY <1>1, <1>3, <1>7, <1>5, Bystander DEF Due, IInv, RestOK
<1>8. ClientInStep(c)'
  BY <1>1, <1>5 DEF ClientInStep, IInv, RestOK
<1> QED
  BY <1>3, <1>6, <1>7, <1>8 DEF IInv

\* The steps of a client that move no message.
LEMMA SilentStep ==
  ASSUME IInv, NEW c \in Clients, SyncExpires(c) \/ SyncRefused(c) \/ RunExpires(c) PROVE IInv'
<1>1. UNCHANGED <<server, impl, calls, inbox, got>>
  BY DEF SyncExpires, SyncRefused, RunExpires, serverVars
<1>2. CASE Finish(c) /\ UNCHANGED refused
  BY <1>1, <1>2 DEF Finish, IInv, RestOK, ServerInStep, ClientInStep, Due
<1>3. CASE SyncRefused(c)
  <2>1. slot[c] /\ pc[c] = "refused"
    BY <1>3 DEF SyncRefused, IInv, ClientInStep
  <2>2. /\ refused' = [refused EXCEPT ![c] = "EBUSY"] /\ pc' = [pc EXCEPT ![c] = "running"]
        /\ UNCHANGED slot
    BY <1>3, <2>1 DEF SyncRefused
  <2> QED
    BY <1>1, <2>1, <2>2 DEF IInv, RestOK, ServerInStep, ClientInStep, Due
<1> QED
  BY <1>2, <1>3 DEF SyncExpires, RunExpires

LEMMA Invariance == Spec => []IInv
<1>1. IInv /\ [Next]_vars => IInv'
  <2> SUFFICES ASSUME IInv, [Next]_vars PROVE IInv'
    OBVIOUS
  <2>1. CASE UNCHANGED vars
    BY <2>1 DEF vars, serverVars, clientVars, IInv, RestOK, ServerInStep, ClientInStep, Due
  <2>2. CASE Next
    BY <2>2, InstanceStep, ServeStep, ServerStopStep, ClientLaunchStep, AsyncCallStep,
      SyncReturnStep, RunStep, SilentStep DEF Next, Client
  <2> QED
    BY <2>1, <2>2
<1> QED
  BY <1>1, InitIInv, PTL DEF Spec

-----------------------------------------------------------------------------
\* The type invariant: an inbox holds signals of the bus and replies only.
THEOREM TypeCorrect == Spec => []TypeOK
<1>1. IInv => TypeOK
  BY ExpectedMessages
<1> QED
  BY <1>1, Invariance, PTL

\* The assertion in main of simpleclient never fails, whatever was received since
\* the asynchronous call: nothing is dispatched before the refused call.
THEOREM SecondCallIsRefused == Spec => []SecondCallRefused
<1>1. IInv => SecondCallRefused
  BY DEF IInv, ClientInStep, SecondCallRefused
<1> QED
  BY <1>1, Invariance, PTL

\* No call is answered with an unknown object, although the service name is owned
\* while the second instance is still to be made.
THEOREM NoUnknownObject == Spec => []ObjectsAreKnown
<1>1. IInv => ObjectsAreKnown
  <2> SUFFICES ASSUME IInv, NEW c \in Clients, NEW n \in DOMAIN inbox[c]
               PROVE  inbox[c][n].value # "unknown"
    BY DEF ObjectsAreKnown
  <2>1. inbox[c][n] \in Expected
    BY ExpectedMessages
  <2> QED
    BY <2>1 DEF Expected, Signal, Reply
<1> QED
  BY <1>1, Invariance, PTL

\* "On the server side, the instances also have different implementations": what a
\* client gets from an instance is what that instance does.
THEOREM InstancesDiffer == Spec => []InstancesAnswer
<1>1. IInv => InstancesAnswer
  BY DEF IInv, ClientInStep, InstancesAnswer
<1> QED
  BY <1>1, Invariance, PTL

\* No client waits in vain, however the server ends and without any timeout: while
\* its blocking or its asynchronous call is open, the call is at a server that owns
\* the name, or the reply is in the inbox (simpleclient, simpleserver).
AnswerIsDue ==
  /\ \A c \in Clients : (pc[c] = "blocked" => Due(c, 1)) /\ (slot[c] => Due(c, 2))
  /\ calls # {} => server \in {"named", "serving"}

\* The blocking call and the run of the loop both end with a message: the safety
\* part of ClientsExit.
THEOREM AnswersAreDue == Spec => []AnswerIsDue
<1>1. IInv => AnswerIsDue
  BY DEF IInv, ClientInStep, ServerInStep, AnswerIsDue
<1> QED
  BY <1>1, Invariance, PTL
=============================================================================
