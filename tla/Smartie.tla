------------------------------ MODULE Smartie ------------------------------
(***************************************************************************)
(* The reference application ref/smartie: smartalice rings smartbob once   *)
(* when it is launched, and Bob remembers that he was rung until somebody  *)
(* hangs up.  Both are single-threaded processes with an event loop, so an *)
(* action is one whole handler.  Either may be launched again, or by       *)
(* mistake twice, under the same service name.  Nobody in the repository   *)
(* hangs up: the calls of hangup, and more of ring, come from other        *)
(* clients of the generated stub.                                          *)
(***************************************************************************)
EXTENDS Integers

CONSTANTS
  Alices,      \* the processes of smartalice that may ever be launched
  Bobs,        \* the processes of smartbob
  Others,      \* other clients of the interface
  MaxCalls,    \* bound: how many calls each of the other clients makes
  NoOne        \* the owner of a name that is free

ASSUME ProcessesAssumption ==
  Alices \cap Others = {} /\ Alices \cap Bobs = {} /\ NoOne \notin Alices \cup Bobs
ASSUME MaxCallsAssumption == MaxCalls \in Nat \ {0}

VARIABLES
  run,         \* each Alice and Bob: not launched, in its loop, exited
  aliceName,   \* the owner of org.genivi.capic.Smartie.Alice
  bobName,     \* the owner of org.genivi.capic.Smartie.Bob
  alice_state, \* alice_state of each Alice
  slot,        \* each Alice waits for the reply to her ring
  bob_state,   \* bob_state of each Bob
  made,        \* how many calls each of the others has made
  calls,       \* calls on their way to a Bob
  replies,     \* replies on their way back
  rung,        \* history: rung[b], the rings that b has answered with 0
  hungup,      \* history: those that b was told to hang up since, with answer 0
  rang,        \* history: rang[a], the Bob that Alice rang, if there was one
  told,        \* history: Alice was told a status
  expired      \* history: Alice's ring ran into its timeout

processVars == <<run, aliceName, bobName>>
aliceVars == <<alice_state, slot>>
busVars == <<calls, replies>>
history == <<rung, hungup, rang, told, expired>>
vars == <<processVars, aliceVars, bob_state, made, busVars, history>>

\* A call is known by who made it and a number; Alice makes only one.
CallIds == [who : Alices \cup Others, n : 1..MaxCalls]
RingOf(a) == [who |-> a, n |-> 1]
Error == -1

Calls == [id : CallIds, to : Bobs, method : {"ring", "hangup"}]
Replies == [id : CallIds, by : Bobs \cup {NoOne}, method : {"ring", "hangup"}, status : {0, 1, Error}]

\* The type invariant of the application.
TypeOK ==
  /\ run \in [Alices \cup Bobs -> {"new", "up", "gone"}]
  /\ aliceName \in Alices \cup {NoOne} /\ bobName \in Bobs \cup {NoOne}
  /\ alice_state \in [Alices -> {"idle", "ringing"}] /\ slot \in [Alices -> BOOLEAN]
  /\ bob_state \in [Bobs -> {"idle", "ringing"}]
  /\ made \in [Others -> 0..MaxCalls]
  /\ calls \subseteq Calls /\ replies \subseteq Replies
  /\ rung \in [Bobs -> SUBSET CallIds] /\ hungup \in [Bobs -> SUBSET CallIds]
  /\ rang \in [Alices -> Bobs \cup {NoOne}]
  /\ told \in [Alices -> BOOLEAN] /\ expired \in [Alices -> BOOLEAN]

Init ==
  /\ run = [x \in Alices \cup Bobs |-> "new"]
  /\ aliceName = NoOne /\ bobName = NoOne
  /\ alice_state = [a \in Alices |-> "idle"] /\ slot = [a \in Alices |-> FALSE]
  /\ bob_state = [b \in Bobs |-> "idle"]
  /\ made = [o \in Others |-> 0]
  /\ calls = {} /\ replies = {}
  /\ rung = [b \in Bobs |-> {}] /\ hungup = [b \in Bobs |-> {}]
  /\ rang = [a \in Alices |-> NoOne]
  /\ told = [a \in Alices |-> FALSE] /\ expired = [a \in Alices |-> FALSE]

-----------------------------------------------------------------------------
\* A call goes to the Bob that owns the name, or the bus answers that none does.
Call(id, method) ==
  IF bobName # NoOne
  THEN /\ calls' = calls \cup {[id |-> id, to |-> bobName, method |-> method]}
       /\ UNCHANGED replies
  ELSE /\ replies' = replies \cup {[id |-> id, by |-> NoOne, method |-> method, status |-> Error]}
       /\ UNCHANGED calls

\* main of smartalice up to its loop.  Startup, the name, the instances and the
\* ring may fail, and the name is refused to a second Alice: she exits.
AliceLaunch(a) ==
  /\ run[a] = "new" /\ aliceName = NoOne
  /\ run' = [run EXCEPT ![a] = "up"] /\ aliceName' = a
  /\ slot' = [slot EXCEPT ![a] = TRUE]
  /\ rang' = [rang EXCEPT ![a] = bobName]
  /\ Call(RingOf(a), "ring")
  /\ UNCHANGED <<bobName, alice_state, bob_state, made, rung, hungup, told, expired>>

\* main of smartbob up to its loop; he makes a client instance for Alice that he
\* never uses.
BobLaunch(b) ==
  /\ run[b] = "new" /\ bobName = NoOne
  /\ run' = [run EXCEPT ![b] = "up"] /\ bobName' = b
  /\ UNCHANGED <<aliceName, aliceVars, bob_state, made, busVars, history>>

LaunchFails(x) ==
  /\ run[x] = "new"
  /\ run' = [run EXCEPT ![x] = "gone"]
  /\ UNCHANGED <<aliceName, bobName, aliceVars, bob_state, made, busVars, history>>

\* complete_Smartie_ring.
complete_Smartie_ring(a, status) ==
  alice_state' = [alice_state EXCEPT ![a] = IF status = 0 THEN "ringing" ELSE "idle"]

\* Faulty: the callback is called for an answer of 0 only.
TellSuccess(a, r) ==
  IF r.status # 0 THEN UNCHANGED <<alice_state, told>>
  ELSE complete_Smartie_ring(a, r.status) /\ told' = [told EXCEPT ![a] = TRUE]

\* cc_Smartie_ring_reply_thunk up to "finish": an error is not told to Alice.
Tell(a, r) ==
  IF r.status = Error THEN UNCHANGED <<alice_state, told>>
  ELSE complete_Smartie_ring(a, r.status) /\ told' = [told EXCEPT ![a] = TRUE]

\* Faulty: the handler of a reply is still there when its call has timed out.
LateReplyRings(a) ==
  /\ run[a] = "up"
  /\ \E r \in replies :
       /\ r.id = RingOf(a)
       /\ replies' = replies \ {r}
       /\ Tell(a, r)
  /\ slot' = [slot EXCEPT ![a] = FALSE]
  /\ UNCHANGED <<processVars, bob_state, made, calls, rung, hungup, rang, expired>>

\* cc_Smartie_ring_reply_thunk.
RingReply(a) ==
  /\ run[a] = "up" /\ slot[a]
  /\ \E r \in replies :
       /\ r.id = RingOf(a)
       /\ replies' = replies \ {r}
       /\ Tell(a, r)
  /\ slot' = [slot EXCEPT ![a] = FALSE]
  /\ UNCHANGED <<processVars, bob_state, made, calls, rung, hungup, rang, expired>>

\* The same thunk with the error sd-bus makes up when the call times out.
RingExpires(a) ==
  /\ run[a] = "up" /\ slot[a]
  /\ slot' = [slot EXCEPT ![a] = FALSE]
  /\ expired' = [expired EXCEPT ![a] = TRUE]
  /\ UNCHANGED <<processVars, alice_state, bob_state, made, busVars, rung, hungup, rang, told>>

\* signal_handler of smartalice and the end of her main, or a crash: the name is
\* free again, and Bob learns nothing of it.
AliceStop(a) ==
  /\ run[a] = "up"
  /\ run' = [run EXCEPT ![a] = "gone"] /\ aliceName' = NoOne
  /\ slot' = [slot EXCEPT ![a] = FALSE]
  /\ UNCHANGED <<bobName, alice_state, bob_state, made, busVars, history>>

\* signal_handler of smartbob and the end of his main, or a crash: the bus fails
\* the calls he had not answered.
BobStop(b) ==
  /\ run[b] = "up"
  /\ run' = [run EXCEPT ![b] = "gone"] /\ bobName' = NoOne
  /\ calls' = {c \in calls : c.to # b}
  /\ replies' = replies \cup
       {[id |-> c.id, by |-> b, method |-> c.method, status |-> Error] : c \in {d \in calls : d.to = b}}
  /\ UNCHANGED <<aliceName, aliceVars, bob_state, made, history>>

\* Another client uses its stub, which refuses a method with a pending reply.
OtherCall(o, method) ==
  /\ made[o] < MaxCalls
  /\ \A m \in calls \cup replies : ~(m.id.who = o /\ m.method = method)
  /\ made' = [made EXCEPT ![o] = @ + 1]
  /\ Call([who |-> o, n |-> made[o] + 1], method)
  /\ UNCHANGED <<processVars, aliceVars, bob_state, history>>

\* A reply reaches another client, or nobody waits for it any more.
OtherReply(r) ==
  /\ r \in replies
  /\ \A a \in Alices : slot[a] => r.id # RingOf(a)
  /\ replies' = replies \ {r}
  /\ UNCHANGED <<processVars, aliceVars, bob_state, made, calls, history>>

-----------------------------------------------------------------------------
\* Bob takes the calls of one client in the order they were made.
Arrived(b, c) ==
  /\ run[b] = "up" /\ c \in calls /\ c.to = b
  /\ \A d \in calls : d.to = b /\ d.id.who = c.id.who => c.id.n <= d.id.n

\* Faulty: only success is answered.
AnswerSuccess(b, c, status) ==
  /\ calls' = calls \ {c}
  /\ replies' = replies \cup
       {[id |-> c.id, by |-> b, method |-> c.method, status |-> s] : s \in {0} \cap {status}}

\* The end of a server thunk.
Answer(b, c, status) ==
  /\ calls' = calls \ {c}
  /\ replies' = replies \cup {[id |-> c.id, by |-> b, method |-> c.method, status |-> status]}

\* Faulty: the state changes before it is looked at.
RingImplTooSoon(b, c) ==
  /\ bob_state' = [bob_state EXCEPT ![b] = "ringing"]
  /\ UNCHANGED rung
  /\ Answer(b, c, 1)

\* Faulty: every ring is accepted.
RingImplAlways(b, c) ==
  /\ bob_state' = [bob_state EXCEPT ![b] = "ringing"]
  /\ rung' = [rung EXCEPT ![b] = @ \cup {c.id}]
  /\ Answer(b, c, 0)

\* Smartie_impl_ring of smartbob.
Smartie_impl_ring(b, c) ==
  IF bob_state[b] = "idle"
  THEN /\ bob_state' = [bob_state EXCEPT ![b] = "ringing"]
       /\ rung' = [rung EXCEPT ![b] = @ \cup {c.id}]
       /\ Answer(b, c, 0)
  ELSE Answer(b, c, 1) /\ UNCHANGED <<bob_state, rung>>

\* cc_Smartie_ring_thunk.
ServeRing(b, c) ==
  /\ Arrived(b, c) /\ c.method = "ring"
  /\ Smartie_impl_ring(b, c)
  /\ UNCHANGED <<processVars, aliceVars, made, hungup, rang, told, expired>>

\* Smartie_impl_hangup of smartbob; nobody asks who calls.
Smartie_impl_hangup(b, c) ==
  IF bob_state[b] = "ringing"
  THEN /\ bob_state' = [bob_state EXCEPT ![b] = "idle"]
       /\ hungup' = [hungup EXCEPT ![b] = rung[b]]
       /\ Answer(b, c, 0)
  ELSE Answer(b, c, 1) /\ UNCHANGED <<bob_state, hungup>>

\* cc_Smartie_hangup_thunk.
ServeHangup(b, c) ==
  /\ Arrived(b, c) /\ c.method = "hangup"
  /\ Smartie_impl_hangup(b, c)
  /\ UNCHANGED <<processVars, aliceVars, made, rung, rang, told, expired>>

-----------------------------------------------------------------------------
Serve(b) == \E c \in calls : ServeRing(b, c) \/ ServeHangup(b, c)

Environment ==
  \/ \E a \in Alices : AliceLaunch(a) \/ RingExpires(a) \/ AliceStop(a)
  \/ \E b \in Bobs : BobLaunch(b) \/ BobStop(b)
  \/ \E x \in Alices \cup Bobs : LaunchFails(x)
  \/ \E o \in Others, method \in {"ring", "hangup"} : OtherCall(o, method)
  \/ \E r \in replies : OtherReply(r)

Next == (\E a \in Alices : RingReply(a)) \/ (\E b \in Bobs : Serve(b)) \/ Environment

Spec == Init /\ [][Next]_vars

(***************************************************************************)
(* The loops of Alice and Bob dispatch what arrives.  Nothing obliges a    *)
(* call to time out, a process to stop or to be launched.                  *)
(***************************************************************************)
FairSpec ==
  Spec /\ (\A a \in Alices : WF_vars(RingReply(a))) /\ (\A b \in Bobs : WF_vars(Serve(b)))

-----------------------------------------------------------------------------
\* Bob's answers of 0 alternate between rings and hangups, whoever the callers
\* are: he is ringing exactly while one caller has his 0 for a ring and no
\* hangup was answered with 0 since (Smartie_impl_ring and Smartie_impl_hangup).
OneOpenRing ==
  \A b \in Bobs :
    /\ hungup[b] \subseteq rung[b]
    /\ IF bob_state[b] = "ringing" THEN \E c \in rung[b] : rung[b] \ hungup[b] = {c}
                                   ELSE rung[b] = hungup[b]

\* Alice believes that she rings Bob only if a Bob told her so before her call
\* timed out; while that Bob lives and nobody hangs up he rings, and for her,
\* whatever launches, stops and late replies came in between.
AliceRingsAtBob ==
  \A a \in Alices : alice_state[a] = "ringing" => told[a] /\ ~expired[a] /\
    \E b \in Bobs :
      /\ rang[a] = b /\ RingOf(a) \in rung[b]
      /\ RingOf(a) \notin hungup[b] => bob_state[b] = "ringing" /\ rung[b] \ hungup[b] = {RingOf(a)}

\* A refusal has its reason: a ring is refused only by a Bob who has accepted the
\* ring of another call.  (That other caller may be gone; Bob does not know.)
RefusedByAnother ==
  \A r \in replies : r.method = "ring" /\ r.status = 1 =>
    r.by \in Bobs /\ \E c \in rung[r.by] : c # r.id

\* Alice is left without a status only if something went wrong at her Bob or on
\* the way: there was none when she rang, he stopped, or the call timed out.
SilenceHasAReason ==
  \A a \in Alices :
    run[a] = "up" /\ ~slot[a] /\ ~told[a] =>
      \/ rang[a] = NoOne \/ expired[a]
      \/ \E b \in Bobs : rang[a] = b /\ run[b] = "gone"

\* No ring is lost while Alice waits for it: her call is with a Bob who is up, or
\* its answer or failure is on the way; and no call waits at a Bob who is gone.
RingUnderWay ==
  /\ \A a \in Alices : slot[a] => \E m \in calls \cup replies : m.id = RingOf(a)
  /\ \A c \in calls : run[c.to] = "up"

\* Alice does not wait for ever, even if no call ever times out: her ring is
\* served or failed by the bus, or she is stopped.
AliceHearsSomething == \A a \in Alices : slot[a] ~> ~slot[a]
=============================================================================
