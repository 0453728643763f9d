------------------------------- MODULE Simple -------------------------------
(***************************************************************************)
(* The reference application ref/simple: simpleserver serves two instances *)
(* of Calculator under one service name, simpleclient calls each of them   *)
(* once.  The client is a script: a blocking call on the first instance,   *)
(* an asynchronous one on the second, a blocking call that must be refused *)
(* while that one is pending, a single run of its event loop, and the end. *)
(***************************************************************************)
EXTENDS Naturals, SequencesExt

CONSTANTS
  Clients,     \* the processes of simpleclient
  Hazards      \* what the environment may do, a subset of AllHazards

(***************************************************************************)
(* early   a client may be launched before the server has its service name *)
(* stop    the server may be terminated by a signal                        *)
(* timeout a call may run into its timeout                                 *)
(* send    the asynchronous call cannot be sent                            *)
(* fail    the second instance of the server cannot be created             *)
(***************************************************************************)
AllHazards == {"early", "stop", "timeout", "send", "fail"}

ASSUME HazardsAssumption == Hazards \subseteq AllHazards

VARIABLES
  server,      \* simpleserver: down, name owned, in its loop, exited
  impl,        \* impl[i]: what the object /instance<i> does, or "none"
  calls,       \* calls on their way to the server, as <<client, instance>>
  inbox,       \* inbox[c]: the messages c has not dispatched yet, in order
  pc,          \* where each client is in its script
  slot,        \* split_reply_slot of the client's second instance is set
  got,         \* got[c][i]: what the client got from its instance i
  refused      \* what the client got for its blocking call on instance2

serverVars == <<server, impl>>
clientVars == <<pc, slot, got, refused>>
vars == <<serverVars, calls, inbox, clientVars>>

Instances == {1, 2}
Values == {"exact", "fixed"}

\* A signal of the bus (NameAcquired), or the reply to the call of an instance.
Signal == [to |-> 0, value |-> "signal"]
Reply(i, value) == [to |-> i, value |-> value]
Messages ==
  {Signal} \cup {Reply(i, value) : i \in Instances, value \in Values \cup {"error", "unknown"}}

\* The type invariant of the application.
TypeOK ==
  /\ server \in {"down", "named", "serving", "gone"}
  /\ impl \in [Instances -> Values \cup {"none"}]
  /\ calls \subseteq Clients \X Instances
  /\ inbox \in [Clients -> Seq(Messages)]
  /\ pc \in [Clients -> {"new", "blocked", "calling", "refused", "running", "done"}]
  /\ slot \in [Clients -> BOOLEAN]
  /\ got \in [Clients -> [Instances -> Values \cup {"none"}]]
  /\ refused \in [Clients -> {"not called", "EBUSY", "answered"}]

Init ==
  /\ server = "down" /\ impl = [i \in Instances |-> "none"]
  /\ calls = {} /\ inbox = [c \in Clients |-> <<>>]
  /\ pc = [c \in Clients |-> "new"] /\ slot = [c \in Clients |-> FALSE]
  /\ got = [c \in Clients |-> [i \in Instances |-> "none"]]
  /\ refused = [c \in Clients |-> "not called"]

-----------------------------------------------------------------------------
(* The server.                                                             *)

\* main up to the first instance: the service name is owned from here on, so
\* the bus queues calls for both instances.
FirstInstance ==
  /\ server = "down"
  /\ server' = "named" /\ impl' = [impl EXCEPT ![1] = "exact"]
  /\ UNCHANGED <<calls, inbox, clientVars>>

\* Faulty: the second instance gets the implementation of the first.
SecondInstanceCopied ==
  /\ server = "named"
  /\ server' = "serving" /\ impl' = [impl EXCEPT ![2] = impl[1]]
  /\ UNCHANGED <<calls, inbox, clientVars>>

\* The second instance, the signals, and into the loop.
SecondInstance ==
  /\ server = "named"
  /\ server' = "serving" /\ impl' = [impl EXCEPT ![2] = "fixed"]
  /\ UNCHANGED <<calls, inbox, clientVars>>

\* What a thunk answers: the object of the instance decides.
Answer(i) == IF impl[i] = "none" THEN "unknown" ELSE impl[i]

\* Faulty: the server dispatches calls as soon as it is on the bus.
ServeEarly(c, i) ==
  /\ server \in {"named", "serving"} /\ <<c, i>> \in calls
  /\ calls' = calls \ {<<c, i>>}
  /\ inbox' = [inbox EXCEPT ![c] = Append(@, Reply(i, Answer(i)))]
  /\ UNCHANGED <<serverVars, clientVars>>

\* cc_Calculator_split_thunk, dispatched by the loop of the server.
Serve(c, i) ==
  /\ server = "serving" /\ <<c, i>> \in calls
  /\ calls' = calls \ {<<c, i>>}
  /\ inbox' = [inbox EXCEPT ![c] = Append(@, Reply(i, Answer(i)))]
  /\ UNCHANGED <<serverVars, clientVars>>

\* signal_handler, or an instance that cannot be created, and the end of main:
\* the instances are freed and the connection closed; the bus fails the calls.
ServerStop ==
  /\ \/ server = "serving" /\ "stop" \in Hazards
     \/ server = "named" /\ "fail" \in Hazards
  /\ server' = "gone" /\ impl' = [i \in Instances |-> "none"]
  /\ calls' = {}
  /\ inbox' = [c \in Clients |->
       inbox[c] \o SetToSeq({Reply(i, "error") : i \in {j \in Instances : <<c, j>> \in calls}})]
  /\ UNCHANGED clientVars

-----------------------------------------------------------------------------
(* The client.                                                             *)

\* A call is queued for the owner of the name, or failed by the bus.  `before'
\* is what the client has not dispatched when it makes the call.
Call(c, i, before) ==
  IF server \in {"named", "serving"}
  THEN calls' = calls \cup {<<c, i>>} /\ inbox' = [inbox EXCEPT ![c] = before]
  ELSE UNCHANGED calls /\ inbox' = [inbox EXCEPT ![c] = Append(before, Reply(i, "error"))]

\* main up to the blocking cc_Calculator_split on instance1.  The signal that the
\* bus sends to a new connection may still be unread.
ClientLaunch(c) ==
  /\ pc[c] = "new" /\ (server \in {"named", "serving"} \/ "early" \in Hazards)
  /\ pc' = [pc EXCEPT ![c] = "blocked"]
  /\ \E before \in {<<>>, <<Signal>>} : Call(c, 1, before)
  /\ UNCHANGED <<serverVars, slot, got, refused>>

\* The label "fail" of main: the instances are freed, the backend shut down.
Finish(c) == pc' = [pc EXCEPT ![c] = "done"] /\ slot' = [slot EXCEPT ![c] = FALSE]

\* The end of a blocking call: the reply is taken from wherever it is in the
\* inbox; what else was read stays there.
SyncReturn(c) ==
  /\ pc[c] = "blocked"
  /\ \E n \in DOMAIN inbox[c] :
       LET m == inbox[c][n]
       IN  /\ m.to = 1
           /\ inbox' = [inbox EXCEPT ![c] = RemoveAt(@, n)]
           /\ IF m.value \in Values
              THEN /\ got' = [got EXCEPT ![c][1] = m.value]
                   /\ pc' = [pc EXCEPT ![c] = "calling"] /\ UNCHANGED slot
              ELSE Finish(c) /\ UNCHANGED got
  /\ UNCHANGED <<serverVars, calls, refused>>

\* The blocking call runs into the timeout of the bus; a late reply is no use.
SyncExpires(c) ==
  /\ "timeout" \in Hazards /\ pc[c] = "blocked"
  /\ Finish(c)
  /\ UNCHANGED <<serverVars, calls, inbox, got, refused>>

\* cc_Calculator_split_async on instance2, which may fail.
AsyncCall(c) ==
  /\ pc[c] = "calling"
  /\ \/ /\ Call(c, 2, inbox[c])
        /\ slot' = [slot EXCEPT ![c] = TRUE]
        /\ pc' = [pc EXCEPT ![c] = "refused"]
     \/ "send" \in Hazards /\ Finish(c) /\ UNCHANGED <<calls, inbox>>
  /\ UNCHANGED <<serverVars, got, refused>>

\* Faulty: the blocking call dispatches what has arrived before it looks at the slot.
SyncDispatchesFirst(c) ==
  LET pending == inbox[c] = <<>> \/ Head(inbox[c]).to # 2
  IN  /\ pc[c] = "refused"
      /\ inbox' = [inbox EXCEPT ![c] = IF @ = <<>> THEN @ ELSE Tail(@)]
      /\ refused' = [refused EXCEPT ![c] = IF pending THEN "EBUSY" ELSE "answered"]
      /\ pc' = [pc EXCEPT ![c] = IF pending THEN "running" ELSE "done"]
      /\ UNCHANGED <<serverVars, calls, slot, got>>

\* The blocking cc_Calculator_split on instance2 and the check of its result.
SyncRefused(c) ==
  /\ pc[c] = "refused"
  /\ refused' = [refused EXCEPT ![c] = IF slot[c] THEN "EBUSY" ELSE "answered"]
  /\ pc' = [pc EXCEPT ![c] = IF slot[c] THEN "running" ELSE "done"]
  /\ UNCHANGED <<serverVars, calls, inbox, slot, got>>

\* cc_Calculator_split_reply_thunk: complete_Calculator_split sees only values.
Completed(c, m) ==
  IF m.to = 2 /\ slot[c] /\ m.value \in Values THEN [got EXCEPT ![c][2] = m.value] ELSE got

\* Faulty: the loop is run until the callback was called, which an error never does.
RunUntilCompleted(c) ==
  /\ pc[c] = "running" /\ inbox[c] # <<>>
  /\ got' = Completed(c, Head(inbox[c]))
  /\ slot' = [slot EXCEPT ![c] = @ /\ Head(inbox[c]).to # 2]
  /\ pc' = [pc EXCEPT ![c] = IF got'[c][2] = "none" THEN @ ELSE "done"]
  /\ inbox' = [inbox EXCEPT ![c] = Tail(@)]
  /\ UNCHANGED <<serverVars, calls, refused>>

\* sd_event_run handles one message, whatever it is, and the client ends.
Run(c) ==
  /\ pc[c] = "running" /\ inbox[c] # <<>>
  /\ got' = Completed(c, Head(inbox[c]))
  /\ inbox' = [inbox EXCEPT ![c] = Tail(@)]
  /\ Finish(c)
  /\ UNCHANGED <<serverVars, calls, refused>>

\* sd_event_run handles the timeout of the call, and the client ends.
RunExpires(c) ==
  /\ "timeout" \in Hazards /\ pc[c] = "running" /\ slot[c]
  /\ Finish(c)
  /\ UNCHANGED <<serverVars, calls, inbox, got, refused>>

-----------------------------------------------------------------------------
Client(c) ==
  SyncReturn(c) \/ SyncExpires(c) \/ AsyncCall(c) \/ SyncRefused(c) \/ Run(c) \/ RunExpires(c)

Next ==
  \/ FirstInstance \/ SecondInstance \/ ServerStop
  \/ \E c \in Clients : ClientLaunch(c) \/ Client(c) \/ \E i \in Instances : Serve(c, i)

Spec == Init /\ [][Next]_vars

\* A client executes its script, and its calls run into their timeouts in the
\* end.  Nothing is assumed of the server.
FairSpec == Spec /\ \A c \in Clients : WF_vars(Client(c))

-----------------------------------------------------------------------------
\* The assertion in main of simpleclient holds, and it is never surprised by a
\* call that "succeeded unexpectedly": replies and errors may have arrived since
\* the asynchronous call, but none is dispatched before the refused call.
SecondCallRefused == \A c \in Clients : refused[c] # "answered"

\* No call meets a server that does not know its object, although the service
\* name is owned before the second instance exists and instances are freed one
\* by one (main of simpleserver): both change only outside the loop.
ObjectsAreKnown ==
  \A c \in Clients : \A n \in DOMAIN inbox[c] : inbox[c][n].value # "unknown"

\* "On the server side, the instances also have different implementations": a
\* client gets from each instance what that instance does, and from the second
\* one only when the first has answered.
InstancesAnswer ==
  \A c \in Clients :
    got[c][1] \in {"none", "exact"} /\ got[c][2] \in {"none", "fixed"} /\
    (got[c][2] # "none" => got[c][1] # "none")

\* Every client exits, even if there is no server or it never answers.
ClientsExit == \A c \in Clients : pc[c] # "new" ~> pc[c] = "done"

\* "unable to complete cc_Calculator_split_async()" is printed only if sd_event_run
\* fails: when it succeeds, the asynchronous call is taken for completed.
RunCompletesCall ==
  \A c \in Clients : pc[c] = "done" /\ refused[c] = "EBUSY" => got[c][2] # "none"
=============================================================================
