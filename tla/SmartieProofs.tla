---------------------------- MODULE SmartieProofs ----------------------------
(***************************************************************************)
(* What holds of Alice and Bob for any number of their processes, of other *)
(* clients and of calls.                                                   *)
(***************************************************************************)
EXTENDS Smartie, TLAPS

\* The call was made.
Used(id) ==
  \/ \E a \in Alices : id = RingOf(a) /\ run[a] # "new"
  \/ \E o \in Others : id.who = o /\ id.n <= made[o]

\* A call is on its way once, and Bob does not know it before he has served it.
CallsAreNew ==
  /\ \A c \in calls : Used(c.id) /\ \A b \in Bobs : c.id \notin rung[b]
  /\ \A c, d \in calls : c.id = d.id => c = d
  /\ \A b \in Bobs : \A id \in rung[b] : Used(id)

\* What is on its way for an Alice is her ring to the Bob she rang, or his answer.
RingInOrder(a) ==
  /\ \A c \in calls : c.id = RingOf(a) => c.method = "ring" /\ c.to = rang[a]
  /\ \A r \in replies : r.id = RingOf(a) =>
       /\ run[a] # "new" /\ r.method = "ring" /\ r.by = rang[a]
       /\ r.status = 0 => r.by \in Bobs /\ RingOf(a) \in rung[r.by]
       /\ r.status = Error => r.by = NoOne \/ (r.by \in Bobs /\ run[r.by] = "gone")
  /\ run[a] = "new" => ~slot[a] /\ alice_state[a] = "idle" /\ ~expired[a]
  /\ slot[a] => alice_state[a] = "idle" /\ ~expired[a]
  /\ alice_state[a] = "ringing" =>
       rang[a] \in Bobs /\ RingOf(a) \in rung[rang[a]] /\ told[a] /\ ~expired[a]

RingsInOrder == \A a \in Alices : RingInOrder(a)

IInv ==
  TypeOK /\ OneOpenRing /\ CallsAreNew /\ RingsInOrder /\ RefusedByAnother /\ SilenceHasAReason

-----------------------------------------------------------------------------
\* The calls of Alice and of others have different names.
LEMMA Ids ==
  /\ \A a \in Alices : RingOf(a) \in CallIds /\ RingOf(a).who = a /\ RingOf(a).n = 1
  /\ \A a, d \in Alices : RingOf(a) = RingOf(d) => a = d
  /\ \A a \in Alices : a \notin Others
  BY ProcessesAssumption, MaxCallsAssumption DEF RingOf, CallIds

LEMMA InitIInv == Init => IInv
<1> SUFFICES ASSUME Init PROVE IInv
  OBVIOUS
<1>1. TypeOK
  BY MaxCallsAssumption DEF Init, TypeOK
<1>2. OneOpenRing
  BY DEF Init, OneOpenRing
<1>3. CallsAreNew /\ RingsInOrder /\ RefusedByAnother
  BY DEF Init, CallsAreNew, RingsInOrder, RingInOrder, RefusedByAnother
<1>4. SilenceHasAReason
  BY DEF Init, SilenceHasAReason
<1> QED
  BY <1>1, <1>2, <1>3, <1>4 DEF IInv

\* A new call goes to the owner of the name or is failed by the bus.
LEMMA CallStep ==
  ASSUME IInv, NEW id \in CallIds, NEW method \in {"ring", "hangup"}, Call(id, method)
  PROVE  /\ calls' \subseteq Calls /\ replies' \subseteq Replies
         /\ \A c \in calls' : c \in calls \/
              (c.id = id /\ c.method = method /\ c.to = bobName /\ bobName \in Bobs)
         /\ \A c, d \in calls' : c \in calls \/ d \in calls \/ c = d
         /\ \A r \in replies' : r \in replies \/
              (r.id = id /\ r.method = method /\ r.status = Error /\ r.by = NoOne /\ bobName = NoOne)
<1>1. CASE bobName # NoOne
  <2> DEFINE call == [id |-> id, to |-> bobName, method |-> method]
  <2>1. call \in Calls /\ call.id = id /\ call.method = method /\ call.to = bobName
    BY <1>1 DEF IInv, TypeOK, Calls
  <2>2. calls' = calls \cup {call} /\ replies' = replies /\ bobName \in Bobs
    BY <1>1 DEF Call, IInv, TypeOK
  <2> HIDE DEF call
  <2> QED
    BY <2>1, <2>2 DEF IInv, TypeOK
<1>2. CASE bobName = NoOne
  <2> DEFINE answer == [id |-> id, by |-> NoOne, method |-> method, status |-> Error]
  <2>1. /\ answer \in Replies
        /\ answer.id = id /\ answer.method = method /\ answer.status = Error /\ answer.by = NoOne
    BY DEF Replies
  <2>2. calls' = calls /\ replies' = replies \cup {answer}
    BY <1>2 DEF Call
  <2> HIDE DEF answer
  <2> QED
    BY <1>2, <2>1, <2>2 DEF IInv, TypeOK
<1> QED
  BY <1>1, <1>2

LEMMA AliceLaunchStep == ASSUME IInv, NEW a \in Alices, AliceLaunch(a) PROVE IInv'
<1> USE DEF IInv, TypeOK
<1>1. /\ run[a] = "new" /\ run' = [run EXCEPT ![a] = "up"] /\ aliceName' = a
      /\ slot' = [slot EXCEPT ![a] = TRUE] /\ rang' = [rang EXCEPT ![a] = bobName]
      /\ UNCHANGED <<bobName, alice_state, bob_state, made, rung, hungup, told, expired>>
  BY DEF AliceLaunch
<1>2. /\ calls' \subseteq Calls /\ replies' \subseteq Replies
      /\ \A c \in calls' : c \in calls \/
           (c.id = RingOf(a) /\ c.method = "ring" /\ c.to = bobName /\ bobName \in Bobs)
      /\ \A c, d \in calls' : c \in calls \/ d \in calls \/ c = d
      /\ \A r \in replies' : r \in replies \/
           (r.id = RingOf(a) /\ r.method = "ring" /\ r.status = Error /\ r.by = NoOne /\ bobName = NoOne)
  BY CallStep, Ids DEF AliceLaunch
<1>3. ~Used(RingOf(a))
  BY <1>1, Ids DEF Used
<1>4. \A id : Used(id) => Used(id)'
  BY <1>1 DEF Used
<1>5. TypeOK'
  BY <1>1, <1>2
<1>6. CallsAreNew'
  <2>1. Used(RingOf(a))'
    BY <1>1 DEF Used
  <2> QED
    BY <1>1, <1>2, <1>3, <1>4, <2>1 DEF CallsAreNew
<1>7. RingsInOrder'
  <2> SUFFICES ASSUME NEW d \in Alices PROVE RingInOrder(d)'
    BY DEF RingsInOrder
  <2>1. CASE d = a
    <3>1. \A c \in calls : c.id # RingOf(a)
      BY <1>3 DEF CallsAreNew
    <3>2. \A r \in replies : r.id # RingOf(a)
      BY <1>1 DEF RingsInOrder, RingInOrder
    <3>3. alice_state'[a] = "idle" /\ run'[a] = "up" /\ rang'[a] = bobName
      BY <1>1 DEF RingsInOrder, RingInOrder
    <3>4. ~expired'[a]
      BY <1>1 DEF RingsInOrder, RingInOrder
    <3>5. \A r \in replies' : r.id = RingOf(a) =>
            r.method = "ring" /\ r.status = Error /\ r.by = NoOne /\ bobName = NoOne
      BY <1>2, <3>2
    <3>6. \A c \in calls' : c.id = RingOf(a) => c.method = "ring" /\ c.to = bobName
      BY <1>2, <3>1
    <3> QED
      BY <2>1, <3>3, <3>4, <3>5, <3>6 DEF RingInOrder, Error
  <2>2. CASE d # a
    <3>1. RingOf(d) # RingOf(a)
      BY <2>2, Ids
    <3> QED
      BY <2>2, <3>1, <1>1, <1>2, ProcessesAssumption DEF RingsInOrder, RingInOrder
  <2> QED
    BY <2>1, <2>2
<1>8. OneOpenRing'
  BY <1>1 DEF OneOpenRing
<1>9. RefusedByAnother'
  BY <1>1, <1>2 DEF RefusedByAnother, Error
<1>10. SilenceHasAReason'
  BY <1>1, ProcessesAssumption DEF SilenceHasAReason
<1> QED
  BY <1>5, <1>6, <1>7, <1>8, <1>9, <1>10

\* Launches that fail, Bob's launch, and the end of an Alice.
LEMMA ProcessStep ==
  ASSUME IInv, \/ \E x \in Alices \cup Bobs : LaunchFails(x)
               \/ \E b \in Bobs : BobLaunch(b)
               \/ \E a \in Alices : AliceStop(a)
  PROVE  IInv'
<1> USE DEF IInv, TypeOK
<1>1. /\ UNCHANGED <<alice_state, bob_state, made, busVars, history>>
      /\ \A a \in Alices : slot'[a] \in {slot[a], FALSE}
      /\ \A x \in Alices \cup Bobs : run[x] = "gone" => run'[x] = "gone"
      /\ \A x \in Alices \cup Bobs : run[x] # "new" => run'[x] # "new"
      /\ TypeOK'
  BY ProcessesAssumption DEF LaunchFails, BobLaunch, AliceStop, aliceVars, busVars, history
<1>2. \A a \in Alices : run'[a] = "up" => run[a] = "up" /\ slot'[a] = slot[a]
  BY ProcessesAssumption DEF LaunchFails, BobLaunch, AliceStop, aliceVars
<1>3. \A id : Used(id) => Used(id)'
  BY <1>1 DEF Used
<1>4. CallsAreNew'
  BY <1>1, <1>3 DEF CallsAreNew, busVars, history
<1>5. RingsInOrder'
  <2> SUFFICES ASSUME NEW a \in Alices PROVE RingInOrder(a)'
    BY DEF RingsInOrder
  <2>1. RingInOrder(a)
    BY DEF RingsInOrder
  <2>2. run'[a] = "new" => run[a] = "new"
    BY <1>1
  <2>3. \A r \in replies : r.by \in Bobs /\ run[r.by] = "gone" => run'[r.by] = "gone"
    BY <1>1
  <2>4. slot'[a] => slot[a]
    BY <1>1
  <2> QED
    BY <1>1, <2>1, <2>2, <2>3, <2>4 DEF RingInOrder, busVars, history
<1>6. OneOpenRing' /\ RefusedByAnother'
  BY <1>1 DEF OneOpenRing, RefusedByAnother, busVars, history
<1>7. SilenceHasAReason'
  BY <1>1, <1>2 DEF SilenceHasAReason, history
<1> QED
  BY <1>1, <1>4, <1>5, <1>6, <1>7

\* What ends a ring: its reply or its timeout.
LEMMA RingEndsStep ==
  ASSUME IInv, NEW a \in Alices, RingReply(a) \/ RingExpires(a) PROVE IInv'
<1> USE DEF IInv, TypeOK
<1>1. /\ run[a] = "up" /\ slot[a] /\ slot' = [slot EXCEPT ![a] = FALSE]
      /\ UNCHANGED <<processVars, bob_state, made, calls, rung, hungup, rang>>
      /\ replies' \subseteq replies
  BY DEF RingReply, RingExpires, busVars
<1>2. \/ expired' = [expired EXCEPT ![a] = TRUE] /\ told' = told /\ alice_state' = alice_state
      \/ \E r \in replies :
           /\ r.id = RingOf(a) /\ expired' = expired
           /\ \/ r.status = Error /\ UNCHANGED <<alice_state, told>>
              \/ /\ told' = [told EXCEPT ![a] = TRUE]
                 /\ alice_state' = [alice_state EXCEPT ![a] = IF r.status = 0 THEN "ringing" ELSE "idle"]
  BY DEF RingReply, RingExpires, Tell, complete_Smartie_ring, aliceVars, history
<1>3. TypeOK'
  BY <1>1, <1>2 DEF processVars
<1>4. CallsAreNew' /\ OneOpenRing' /\ RefusedByAnother'
  BY <1>1 DEF CallsAreNew, Used, OneOpenRing, RefusedByAnother, processVars
<1>5. RingsInOrder'
  BY <1>1, <1>2 DEF RingsInOrder, RingInOrder, processVars
<1>6. SilenceHasAReason'
  BY <1>1, <1>2 DEF SilenceHasAReason, RingsInOrder, RingInOrder, processVars
<1> QED
  BY <1>3, <1>4, <1>5, <1>6

LEMMA BobStopStep == ASSUME IInv, NEW b \in Bobs, BobStop(b) PROVE IInv'
<1> USE DEF IInv, TypeOK
<1>1. /\ run[b] = "up" /\ run' = [run EXCEPT ![b] = "gone"] /\ bobName' = NoOne
      /\ UNCHANGED <<aliceName, aliceVars, bob_state, made, history>>
      /\ calls' \subseteq calls
  BY DEF BobStop
<1>2. /\ replies' \subseteq Replies
      /\ \A r \in replies' : r \in replies \/
           (/\ r.status = Error /\ r.by = b
            /\ \E c \in calls : c.to = b /\ c.id = r.id /\ c.method = r.method)
  <2> DEFINE Failed(c) == [id |-> c.id, by |-> b, method |-> c.method, status |-> Error]
  <2>1. \A c \in calls : /\ Failed(c) \in Replies /\ Failed(c).status = Error /\ Failed(c).by = b
                         /\ Failed(c).id = c.id /\ Failed(c).method = c.method
    BY DEF Calls, Replies
  <2>2. \A r \in replies' : r \in replies \/ \E c \in calls : c.to = b /\ r = Failed(c)
    BY DEF BobStop
  <2> HIDE DEF Failed
  <2> QED
    BY <2>1, <2>2
<1>3. \A id : Used(id) => Used(id)'
  BY <1>1 DEF Used
<1>4. TypeOK'
  BY <1>1, <1>2 DEF aliceVars, history
<1>5. CallsAreNew'
  BY <1>1, <1>3 DEF CallsAreNew, history
<1>6. RingsInOrder'
  <2>1. \A a \in Alices : Used(RingOf(a)) => run[a] # "new"
    BY Ids DEF Used
  <2>2. \A a \in Alices : a # b
    BY ProcessesAssumption
  <2> QED
    BY <1>1, <1>2, <2>1, <2>2 DEF RingsInOrder, RingInOrder, CallsAreNew, aliceVars, history, Error
<1>7. OneOpenRing' /\ RefusedByAnother'
  BY <1>1, <1>2 DEF OneOpenRing, RefusedByAnother, history, Error
<1>8. SilenceHasAReason'
  BY <1>1, ProcessesAssumption DEF SilenceHasAReason, aliceVars, history
<1> QED
  BY <1>4, <1>5, <1>6, <1>7, <1>8

LEMMA OtherStep ==
  ASSUME IInv, \/ \E o \in Others, method \in {"ring", "hangup"} : OtherCall(o, method)
               \/ \E r \in replies : OtherReply(r)
  PROVE  IInv'
<1> USE DEF IInv, TypeOK
<1>1. ASSUME NEW o \in Others, NEW method \in {"ring", "hangup"}, OtherCall(o, method)
      PROVE  IInv'
  <2>1. /\ made[o] \in Nat /\ made[o] < MaxCalls /\ made' = [made EXCEPT ![o] = @ + 1]
        /\ UNCHANGED <<processVars, aliceVars, bob_state, history>>
        /\ made' \in [Others -> 0..MaxCalls]
    BY <1>1, MaxCallsAssumption DEF OtherCall
  <2>0. PICK id \in CallIds : id.who = o /\ id.n = made[o] + 1 /\ Call(id, method)
    <3>1. [who |-> o, n |-> made[o] + 1] \in CallIds
      BY <2>1, MaxCallsAssumption DEF CallIds
    <3> QED
      BY <1>1, <3>1 DEF OtherCall
  <2>2. \A a \in Alices : id # RingOf(a)
    <3> SUFFICES ASSUME NEW a \in Alices, id = RingOf(a) PROVE FALSE
      OBVIOUS
    <3>1. id.who = a /\ a \notin Others
      BY Ids
    <3> QED
      BY <2>0, <3>1
  <2>3. ~Used(id)
    BY <2>0, <2>1, <2>2 DEF Used
  <2>4. \A i \in CallIds : Used(i) => Used(i)'
    <3> SUFFICES ASSUME NEW i \in CallIds, NEW p \in Others, i.who = p, i.n <= made[p] PROVE i.n <= made'[p]
      BY <2>1 DEF Used, processVars
    <3>1. made'[p] \in {made[p], made[p] + 1} /\ made[p] \in Nat /\ i.n \in Nat
      BY <2>1, MaxCallsAssumption DEF CallIds
    <3> QED
      BY <3>1
  <2>5. Used(id)'
    <3>1. made'[o] = made[o] + 1
      BY <2>1
    <3> QED
      BY <2>0, <2>1, <3>1 DEF Used
  <2>6. /\ calls' \subseteq Calls /\ replies' \subseteq Replies
        /\ \A c \in calls' : c \in calls \/ c.id = id
        /\ \A c, d \in calls' : c \in calls \/ d \in calls \/ c = d
        /\ \A r \in replies' : r \in replies \/ (r.id = id /\ r.status = Error)
    BY <2>0, CallStep
  <2>7. TypeOK'
    BY <2>1, <2>6 DEF processVars, aliceVars, history
  <2>8. CallsAreNew'
    <3>1. /\ \A c \in calls : c.id \in CallIds /\ c.id # id
          /\ \A b \in Bobs : \A i \in rung[b] : i \in CallIds /\ i # id
      BY <2>3 DEF CallsAreNew, Calls
    <3> QED
      BY <2>1, <2>4, <2>5, <2>6, <3>1 DEF CallsAreNew, history
  <2>9. RingsInOrder'
    BY <2>1, <2>2, <2>6 DEF RingsInOrder, RingInOrder, processVars, aliceVars, history
  <2>10. OneOpenRing' /\ RefusedByAnother' /\ SilenceHasAReason'
    BY <2>1, <2>6 DEF OneOpenRing, RefusedByAnother, SilenceHasAReason, processVars, aliceVars,
      history, Error
  <2> QED
    BY <2>7, <2>8, <2>9, <2>10
<1>2. ASSUME NEW r \in replies, OtherReply(r) PROVE IInv'
  <2>1. /\ UNCHANGED <<processVars, aliceVars, bob_state, made, calls, history>>
        /\ replies' \subseteq replies
    BY <1>2 DEF OtherReply
  <2> QED
    BY <2>1 DEF CallsAreNew, Used, RingsInOrder, RingInOrder, OneOpenRing, RefusedByAnother,
      SilenceHasAReason, processVars, aliceVars, history
<1> QED
  BY <1>1, <1>2

\* Bob serves a call.
LEMMA ServeStep ==
  ASSUME IInv, NEW b \in Bobs, NEW c \in calls, ServeRing(b, c) \/ ServeHangup(b, c) PROVE IInv'
<1> USE DEF IInv, TypeOK
<1>1. \/ /\ UNCHANGED <<bob_state, rung, hungup>> /\ Answer(b, c, 1)
         /\ c.method = "ring" => bob_state[b] = "ringing"
      \/ /\ c.method = "ring" /\ bob_state[b] = "idle" /\ UNCHANGED hungup
         /\ bob_state' = [bob_state EXCEPT ![b] = "ringing"]
         /\ rung' = [rung EXCEPT ![b] = @ \cup {c.id}]
         /\ Answer(b, c, 0)
      \/ /\ c.method = "hangup" /\ bob_state[b] = "ringing" /\ UNCHANGED rung
         /\ bob_state' = [bob_state EXCEPT ![b] = "idle"]
         /\ hungup' = [hungup EXCEPT ![b] = rung[b]]
         /\ Answer(b, c, 0)
  BY DEF ServeRing, ServeHangup, Smartie_impl_ring, Smartie_impl_hangup
<1>2. /\ c.to = b /\ c \in Calls /\ run[b] = "up" /\ c.id \in CallIds
      /\ UNCHANGED <<processVars, aliceVars, made, rang, told, expired>>
  BY DEF ServeRing, ServeHangup, Arrived, Calls
<1>3. PICK r \in Replies :
        /\ calls' = calls \ {c} /\ replies' = replies \cup {r}
        /\ r.id = c.id /\ r.by = b /\ r.method = c.method /\ r.status \in {0, 1}
        /\ r.status = 0 /\ r.method = "ring" => c.id \in rung'[b]
        /\ r.status = 1 /\ r.method = "ring" => bob_state[b] = "ringing"
  <2> DEFINE Reply(status) == [id |-> c.id, by |-> b, method |-> c.method, status |-> status]
  <2>1. \A status \in {0, 1} :
          /\ Reply(status) \in Replies /\ Reply(status).status = status
          /\ Reply(status).id = c.id /\ Reply(status).by = b /\ Reply(status).method = c.method
    BY <1>2 DEF Calls, Replies
  <2>2. \A status \in {0, 1} : Answer(b, c, status) =>
          calls' = calls \ {c} /\ replies' = replies \cup {Reply(status)}
    BY DEF Answer
  <2> HIDE DEF Reply
  <2> QED
    BY <1>1, <2>1, <2>2
<1>4. /\ rung' = rung \/ rung' = [rung EXCEPT ![b] = @ \cup {c.id}]
      /\ hungup' = hungup \/ hungup' = [hungup EXCEPT ![b] = rung[b]]
      /\ bob_state' \in [Bobs -> {"idle", "ringing"}]
  BY <1>1
<1>5. TypeOK'
  BY <1>2, <1>3, <1>4 DEF processVars, aliceVars
<1>6. CallsAreNew'
  <2>1. Used(c.id)
    BY DEF CallsAreNew
  <2>2. \A id : Used(id)' <=> Used(id)
    BY <1>2 DEF Used, processVars
  <2>3. \A d \in calls' : d \in calls /\ d.id # c.id
    BY <1>3 DEF CallsAreNew
  <2> QED
    BY <1>3, <1>4, <2>1, <2>2, <2>3 DEF CallsAreNew
<1>7. RingsInOrder'
  <2> SUFFICES ASSUME NEW a \in Alices PROVE RingInOrder(a)'
    BY DEF RingsInOrder
  <2>1. RingInOrder(a)
    BY DEF RingsInOrder
  <2>2. Used(c.id)
    BY DEF CallsAreNew
  <2>3. c.id = RingOf(a) => run[a] # "new" /\ c.method = "ring" /\ rang[a] = b
    BY <1>2, <2>1, <2>2, Ids DEF RingInOrder, Used
  <2>4. \A d \in Bobs : rung[d] \subseteq rung'[d]
    BY <1>4
  <2>5. \A r2 \in replies' : r2 \in replies \/ r2 = r
    BY <1>3
  <2> QED
    BY <1>2, <1>3, <2>1, <2>3, <2>4, <2>5 DEF RingInOrder, processVars, aliceVars, Error
<1>8. OneOpenRing'
  <2>1. c.id \notin rung[b]
    BY DEF CallsAreNew
  <2> SUFFICES ASSUME NEW d \in Bobs PROVE
         /\ hungup'[d] \subseteq rung'[d]
         /\ IF bob_state'[d] = "ringing" THEN \E id \in rung'[d] : rung'[d] \ hungup'[d] = {id}
                                         ELSE rung'[d] = hungup'[d]
    BY DEF OneOpenRing
  <2>2. CASE d # b
    BY <1>1, <2>2 DEF OneOpenRing
  <2>3. CASE d = b
    BY <1>1, <2>1, <2>3 DEF OneOpenRing
  <2> QED
    BY <2>2, <2>3
<1>9. RefusedByAnother'
  <2>1. bob_state[b] = "ringing" => \E id \in rung[b] : id # c.id
    BY DEF OneOpenRing, CallsAreNew
  <2>2. \A d \in Bobs \cup {NoOne} : rung[d] \subseteq rung'[d] \/ d = NoOne
    BY <1>4
  <2>3. \A q \in replies : q.method = "ring" /\ q.status = 1 => q.by \in Bobs
    BY DEF RefusedByAnother
  <2> QED
    BY <1>3, <1>4, <2>1, <2>2, <2>3 DEF RefusedByAnother
<1>10. SilenceHasAReason'
  BY <1>2 DEF SilenceHasAReason, processVars, aliceVars
<1> QED
  BY <1>5, <1>6, <1>7, <1>8, <1>9, <1>10

LEMMA Invariance == Spec => []IInv
<1>1. IInv /\ [Next]_vars => IInv'
  <2> SUFFICES ASSUME IInv, [Next]_vars PROVE IInv'
    OBVIOUS
  <2>1. CASE UNCHANGED vars
    BY <2>1 DEF vars, processVars, aliceVars, busVars, history, IInv, TypeOK, OneOpenRing, CallsAreNew,
      Used, RingsInOrder, RingInOrder, RefusedByAnother, SilenceHasAReason
  <2>2. CASE Next
    BY <2>2, AliceLaunchStep, ProcessStep, RingEndsStep, BobStopStep, OtherStep, ServeStep
      DEF Next, Serve, Environment
  <2> QED
    BY <2>1, <2>2
<1> QED
  BY <1>1, InitIInv, PTL DEF Spec

-----------------------------------------------------------------------------
\* The type invariant.
THEOREM TypeCorrect == Spec => []TypeOK
<1>1. IInv => TypeOK
  BY DEF IInv
<1> QED
  BY <1>1, Invariance, PTL

\* Bob never has two callers whose rings he accepted without a hangup in between,
\* and he rings only for such a caller (Smartie_impl_ring, Smartie_impl_hangup).
THEOREM BobHasOneCaller == Spec => []OneOpenRing
<1>1. IInv => OneOpenRing
  BY DEF IInv
<1> QED
  BY <1>1, Invariance, PTL

\* Alice's belief that she rings Bob is right until somebody hangs up: it follows
\* from Bob's answers and from the fact that her reply is never another's.
THEOREM AliceIsRight == Spec => []AliceRingsAtBob
<1>1. IInv => AliceRingsAtBob
  <2> SUFFICES ASSUME IInv, NEW a \in Alices, alice_state[a] = "ringing"
               PROVE  /\ told[a] /\ ~expired[a]
                      /\ rang[a] \in Bobs /\ RingOf(a) \in rung[rang[a]]
                      /\ RingOf(a) \notin hungup[rang[a]] =>
                           /\ bob_state[rang[a]] = "ringing"
                           /\ rung[rang[a]] \ hungup[rang[a]] = {RingOf(a)}
    BY DEF AliceRingsAtBob
  <2>1. rang[a] \in Bobs /\ RingOf(a) \in rung[rang[a]] /\ told[a] /\ ~expired[a]
    BY DEF IInv, RingsInOrder, RingInOrder
  <2> QED
    BY <2>1 DEF IInv, OneOpenRing
<1> QED
  BY <1>1, Invariance, PTL

\* A sole caller is never refused (Smartie_impl_ring).
THEOREM RefusalsHaveAReason == Spec => []RefusedByAnother
<1>1. IInv => RefusedByAnother
  BY DEF IInv
<1> QED
  BY <1>1, Invariance, PTL

\* Alice is told a status unless Bob was not there, stopped or took too long.
THEOREM AliceIsTold == Spec => []SilenceHasAReason
<1>1. IInv => SilenceHasAReason
  BY DEF IInv
<1> QED
  BY <1>1, Invariance, PTL

-----------------------------------------------------------------------------
(* No ring is lost.                                                        *)

\* What a call needs to be served: the name belongs to a Bob who is up.
NameIsLive == bobName # NoOne => run[bobName] = "up"

Underway == RingUnderWay /\ NameIsLive

\* Launches and the end of an Alice take no message off the bus.
LEMMA ProcessUnderway ==
  ASSUME IInv, Underway,
         \/ \E x \in Alices \cup Bobs : LaunchFails(x)
         \/ \E b \in Bobs : BobLaunch(b)
         \/ \E a \in Alices : AliceStop(a)
  PROVE  Underway'
<1> USE ProcessesAssumption DEF IInv, TypeOK, Underway, RingUnderWay, NameIsLive, Calls,
        aliceVars, busVars
<1>1. CASE \E x \in Alices \cup Bobs : LaunchFails(x)
  BY <1>1 DEF LaunchFails
<1>2. CASE \E b \in Bobs : BobLaunch(b)
  BY <1>2 DEF BobLaunch
<1>3. CASE \E a \in Alices : AliceStop(a)
  BY <1>3 DEF AliceStop
<1> QED
  BY <1>1, <1>2, <1>3

\* A call adds a message and takes none away.
LEMMA CallUnderway ==
  ASSUME IInv, NEW id \in CallIds, NEW method \in {"ring", "hangup"}, Call(id, method)
  PROVE  /\ \E m \in calls' \cup replies' : m.id = id
         /\ calls \subseteq calls' /\ replies \subseteq replies'
         /\ \A c \in calls' : c \in calls \/ (c.to = bobName /\ bobName # NoOne)
<1> DEFINE call == [id |-> id, to |-> bobName, method |-> method]
           answer == [id |-> id, by |-> NoOne, method |-> method, status |-> Error]
<1>1. call.id = id /\ call.to = bobName /\ answer.id = id
  OBVIOUS
<1>2. \/ bobName # NoOne /\ calls' = calls \cup {call} /\ replies' = replies
      \/ calls' = calls /\ replies' = replies \cup {answer}
  BY DEF Call
<1> HIDE DEF call, answer
<1> QED
  BY <1>1, <1>2

LEMMA AliceLaunchUnderway ==
  ASSUME IInv, Underway, NEW a \in Alices, AliceLaunch(a) PROVE Underway'
<1>1. /\ run' = [run EXCEPT ![a] = "up"] /\ slot' = [slot EXCEPT ![a] = TRUE]
      /\ bobName' = bobName /\ Call(RingOf(a), "ring")
  BY DEF AliceLaunch
<1>2. /\ \E m \in calls' \cup replies' : m.id = RingOf(a)
      /\ calls \subseteq calls' /\ replies \subseteq replies'
      /\ \A c \in calls' : c \in calls \/ (c.to = bobName /\ bobName # NoOne)
  BY <1>1, Ids, CallUnderway
<1> QED
  BY <1>1, <1>2 DEF IInv, TypeOK, Underway, RingUnderWay, NameIsLive, Calls

LEMMA OtherUnderway ==
  ASSUME IInv, Underway,
         \/ \E o \in Others, method \in {"ring", "hangup"} : OtherCall(o, method)
         \/ \E r \in replies : OtherReply(r)
  PROVE  Underway'
<1>1. ASSUME NEW o \in Others, NEW method \in {"ring", "hangup"}, OtherCall(o, method)
      PROVE  Underway'
  <2>1. [who |-> o, n |-> made[o] + 1] \in CallIds
    BY <1>1, MaxCallsAssumption DEF OtherCall, CallIds, IInv, TypeOK
  <2>2. /\ calls \subseteq calls' /\ replies \subseteq replies'
        /\ \A c \in calls' : c \in calls \/ (c.to = bobName /\ bobName # NoOne)
        /\ UNCHANGED <<run, bobName, slot>>
    BY <1>1, <2>1, CallUnderway DEF OtherCall, processVars, aliceVars
  <2> QED
    BY <2>2 DEF Underway, RingUnderWay, NameIsLive
<1>2. ASSUME NEW r \in replies, OtherReply(r) PROVE Underway'
  BY <1>2 DEF OtherReply, Underway, RingUnderWay, NameIsLive, processVars, aliceVars
<1> QED
  BY <1>1, <1>2

\* A ring that ends takes only its own reply off the bus.
LEMMA RingEndsUnderway ==
  ASSUME IInv, Underway, NEW a \in Alices, RingReply(a) \/ RingExpires(a) PROVE Underway'
<1>1. /\ slot' = [slot EXCEPT ![a] = FALSE] /\ UNCHANGED <<run, bobName, calls>>
      /\ \A r \in replies : r \in replies' \/ r.id = RingOf(a)
  BY DEF RingReply, RingExpires, processVars, busVars
<1>2. \A d \in Alices : slot'[d] => slot[d] /\ d # a
  BY <1>1 DEF IInv, TypeOK
<1> QED
  BY <1>1, <1>2, Ids DEF Underway, RingUnderWay, NameIsLive

\* A call that leaves Bob, served or failed by the bus, leaves its reply behind.
LEMMA BobUnderway ==
  ASSUME IInv, Underway, NEW b \in Bobs, Serve(b) \/ BobStop(b) PROVE Underway'
<1>1. /\ UNCHANGED slot /\ calls' \subseteq calls /\ replies \subseteq replies'
      /\ \A c \in calls : c \in calls' \/ \E r \in replies' : r.id = c.id
  <2>1. CASE Serve(b)
    <3>1. PICK c \in calls, status \in {0, 1} : Answer(b, c, status) /\ UNCHANGED slot
      BY <2>1 DEF Serve, ServeRing, ServeHangup, Smartie_impl_ring, Smartie_impl_hangup, aliceVars
    <3> DEFINE reply == [id |-> c.id, by |-> b, method |-> c.method, status |-> status]
    <3>2. reply.id = c.id
      OBVIOUS
    <3>3. calls' = calls \ {c} /\ replies' = replies \cup {reply}
      BY <3>1 DEF Answer
    <3> HIDE DEF reply
    <3> QED
      BY <3>1, <3>2, <3>3
  <2>2. CASE BobStop(b)
    <3> DEFINE Failed(c) == [id |-> c.id, by |-> b, method |-> c.method, status |-> Error]
    <3>1. \A c \in calls : Failed(c).id = c.id
      OBVIOUS
    <3>2. /\ calls' = {c \in calls : c.to # b} /\ UNCHANGED slot
          /\ replies' = replies \cup {Failed(c) : c \in {d \in calls : d.to = b}}
      BY <2>2 DEF BobStop, aliceVars
    <3> HIDE DEF Failed
    <3>3. \A c \in calls : c.to = b => Failed(c) \in replies'
      BY <3>2
    <3> QED
      BY <3>1, <3>2, <3>3
  <2> QED
    BY <2>1, <2>2
<1>2. NameIsLive' /\ \A c \in calls' : run'[c.to] = "up"
  <2>1. CASE Serve(b)
    BY <1>1, <2>1 DEF Serve, ServeRing, ServeHangup, processVars, Underway, RingUnderWay, NameIsLive
  <2>2. CASE BobStop(b)
    BY <2>2 DEF BobStop, IInv, TypeOK, Calls, Underway, RingUnderWay, NameIsLive
  <2> QED
    BY <2>1, <2>2
<1> QED
  BY <1>1, <1>2 DEF Underway, RingUnderWay

\* As long as Alice holds the slot of her ring, something will end it: her call
\* or its reply exists, and the Bob who has the call is up.
THEOREM RingIsNeverLost == Spec => []RingUnderWay
<1>1. Init => Underway
  BY DEF Init, Underway, RingUnderWay, NameIsLive
<1>2. IInv /\ Underway /\ [Next]_vars => Underway'
  <2> SUFFICES ASSUME IInv, Underway, [Next]_vars PROVE Underway'
    OBVIOUS
  <2>1. CASE UNCHANGED vars
    BY <2>1 DEF vars, processVars, aliceVars, busVars, Underway, RingUnderWay, NameIsLive
  <2>2. CASE Next
    BY <2>2, AliceLaunchUnderway, ProcessUnderway, RingEndsUnderway, OtherUnderway, BobUnderway
      DEF Next, Environment
  <2> QED
    BY <2>1, <2>2
<1>3. Underway => RingUnderWay
  BY DEF Underway
<1> QED
  BY <1>1, <1>2, <1>3, Invariance, PTL DEF Spec
=============================================================================
