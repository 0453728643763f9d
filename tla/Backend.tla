------------------------------- MODULE Backend -------------------------------
(***************************************************************************)
(* The life cycle of the backend (backend.c) in several processes on one   *)
(* bus: cc_backend_startup with its failure path, cc_backend_shutdown,     *)
(* cc_instance_new and cc_instance_free, and the generated server          *)
(* instances on top of them (cc_server_<I>_new, cc_server_<I>_free).       *)
(*                                                                         *)
(* A process makes these calls in any order: the applications free their   *)
(* instances before they shut down, but nothing enforces it.  A client     *)
(* instance is only memory, since it finds the connection through the      *)
(* static backend; a call on it while there is no connection fails the     *)
(* assertion on backend->bus in the generated client.                      *)
(***************************************************************************)
EXTENDS Address

CONSTANTS
  Procs,       \* the processes
  Addresses,   \* the addresses the applications pass, one per server instance
  Letters,     \* characters that are neither a colon nor NUL
  MaxLength,   \* bound: the longest address the parsing is checked for
  NoOne        \* the owner of a name that is free

ASSUME NoOneAssumption == NoOne \notin Procs
ASSUME LettersAssumption == NUL \notin Letters
ASSUME MaxLengthAssumption == MaxLength \in Nat

\* The server instances a process may create, known by their addresses, and the
\* service names on the bus.
Instances == {a \in Addresses : Parse(a).result = "ok"}
Services == {ServiceOf(i) : i \in Instances}

VARIABLES
  pc,          \* backend not started, in cc_backend_startup, started
  bus,         \* backend.bus is not NULL
  event,       \* backend.event is not NULL
  attached,    \* the bus is attached to the event loop
  context,     \* what the static event_context.event points to
  asked,       \* the application has a context it asked for since the startup
  connected,   \* the bus has a connection of the process
  owner,       \* owner[s]: the process that owns the service name
  made,        \* made[p]: the server instances that are allocated
  served       \* served[p]: those with an object registered on the connection

contextVars == <<context, asked>>
procVars == <<pc, bus, event, attached, connected, contextVars>>
vars == <<procVars, owner, made, served>>

\* The type invariant of the backend.
TypeOK ==
  /\ pc \in [Procs -> {"down", "starting", "up"}]
  /\ bus \in [Procs -> BOOLEAN] /\ event \in [Procs -> BOOLEAN]
  /\ attached \in [Procs -> BOOLEAN] /\ connected \in [Procs -> BOOLEAN]
  /\ context \in [Procs -> {"null", "current", "dangling"}] /\ asked \in [Procs -> BOOLEAN]
  /\ owner \in [Services -> Procs \cup {NoOne}]
  /\ made \in [Procs -> SUBSET Instances]
  /\ served \in [Procs -> SUBSET Instances]

Init ==
  /\ pc = [p \in Procs |-> "down"]
  /\ bus = [p \in Procs |-> FALSE] /\ event = [p \in Procs |-> FALSE]
  /\ attached = [p \in Procs |-> FALSE] /\ connected = [p \in Procs |-> FALSE]
  /\ context = [p \in Procs |-> "null"] /\ asked = [p \in Procs |-> FALSE]
  /\ owner = [s \in Services |-> NoOne]
  /\ made = [p \in Procs |-> {}] /\ served = [p \in Procs |-> {}]

-----------------------------------------------------------------------------
(* Startup and shutdown.                                                   *)

\* cc_backend_startup, the connection; what it asks the bus about itself until
\* the loop is created changes nothing.
OpenBus(p) ==
  /\ pc[p] = "down"
  /\ pc' = [pc EXCEPT ![p] = "starting"]
  /\ bus' = [bus EXCEPT ![p] = TRUE]
  /\ connected' = [connected EXCEPT ![p] = TRUE]
  /\ UNCHANGED <<event, attached, contextVars, owner, made, served>>

\* The event loop.
NewEvent(p) ==
  /\ pc[p] = "starting" /\ ~event[p]
  /\ event' = [event EXCEPT ![p] = TRUE]
  /\ UNCHANGED <<pc, bus, attached, connected, contextVars, owner, made, served>>

\* The bus is attached and startup returns.
Attach(p) ==
  /\ pc[p] = "starting" /\ event[p]
  /\ attached' = [attached EXCEPT ![p] = TRUE]
  /\ pc' = [pc EXCEPT ![p] = "up"]
  /\ UNCHANGED <<bus, event, connected, contextVars, owner, made, served>>

\* The bus forgets the names and the objects of a connection that is closed.
Disconnect(p) ==
  /\ connected' = [connected EXCEPT ![p] = FALSE]
  /\ owner' = [s \in Services |-> IF owner[s] = p THEN NoOne ELSE owner[s]]
  /\ served' = [served EXCEPT ![p] = {}]

\* Whoever holds the context is left with a pointer to a loop that is gone.
LoseEvent(p) ==
  /\ event' = [event EXCEPT ![p] = FALSE]
  /\ context' = [context EXCEPT ![p] = IF @ = "current" THEN "dangling" ELSE @]
  /\ asked' = [asked EXCEPT ![p] = FALSE]

\* Faulty: the connection is dropped but not closed, and somebody refers to it.
CloseByUnref(p) ==
  /\ UNCHANGED <<connected, owner, served, made>>
  /\ pc' = [pc EXCEPT ![p] = "down"]
  /\ bus' = [bus EXCEPT ![p] = FALSE] /\ LoseEvent(p)
  /\ attached' = [attached EXCEPT ![p] = FALSE]

\* cc_backend_shutdown: detach, flush, close, drop both references.
Close(p) ==
  /\ IF bus[p] THEN Disconnect(p) ELSE UNCHANGED <<connected, owner, served>>
  /\ pc' = [pc EXCEPT ![p] = "down"]
  /\ bus' = [bus EXCEPT ![p] = FALSE] /\ LoseEvent(p)
  /\ attached' = [attached EXCEPT ![p] = FALSE]
  /\ UNCHANGED made

\* Any step of startup fails.
StartupFails(p) == pc[p] = "starting" /\ Close(p)

\* The application shuts down.
Shutdown(p) == pc[p] = "up" /\ Close(p)

\* The process is killed.
Crash(p) ==
  /\ Disconnect(p)
  /\ pc' = [pc EXCEPT ![p] = "down"]
  /\ bus' = [bus EXCEPT ![p] = FALSE] /\ event' = [event EXCEPT ![p] = FALSE]
  /\ attached' = [attached EXCEPT ![p] = FALSE]
  /\ context' = [context EXCEPT ![p] = "null"] /\ asked' = [asked EXCEPT ![p] = FALSE]
  /\ made' = [made EXCEPT ![p] = {}]

\* Faulty: the context is filled in once and kept.
GetContextOnce(p) ==
  /\ pc[p] = "up" /\ event[p]
  /\ context' = [context EXCEPT ![p] = IF @ = "null" THEN "current" ELSE @]
  /\ asked' = [asked EXCEPT ![p] = TRUE]
  /\ UNCHANGED <<pc, bus, event, attached, connected, owner, made, served>>

\* cc_backend_get_event_context copies the pointer each time it is asked.
GetContext(p) ==
  /\ pc[p] = "up" /\ event[p]
  /\ context' = [context EXCEPT ![p] = "current"]
  /\ asked' = [asked EXCEPT ![p] = TRUE]
  /\ UNCHANGED <<pc, bus, event, attached, connected, owner, made, served>>

-----------------------------------------------------------------------------
(* Server instances.                                                       *)

\* The request for the service name in cc_instance_new: a name the process owns
\* already (-EALREADY) will do, one that another process owns will not.
RequestName(p, s) ==
  /\ owner[s] \in {p, NoOne}
  /\ owner' = [owner EXCEPT ![s] = p]

\* cc_server_<I>_new: the name first, then the object.
ServerNew(p, i) ==
  /\ pc[p] = "up" /\ i \notin made[p]
  /\ RequestName(p, ServiceOf(i))
  /\ made' = [made EXCEPT ![p] = @ \cup {i}]
  /\ served' = [served EXCEPT ![p] = @ \cup {i}]
  /\ UNCHANGED procVars

\* The same when the object cannot be registered, or when the name is asked for
\* and granted but the answer is an error: no instance, but the name stays.
ServerNewFails(p, i) ==
  /\ pc[p] = "up" /\ i \notin made[p]
  /\ RequestName(p, ServiceOf(i))
  /\ UNCHANGED <<procVars, made, served>>

\* Faulty: the object stays registered.
FreeKeepsObject(p, i) ==
  /\ i \in made[p]
  /\ made' = [made EXCEPT ![p] = @ \ {i}]
  /\ UNCHANGED <<procVars, owner, served>>

\* Faulty: the name is released whoever else needs it.
FreeReleasesName(p, i) ==
  /\ i \in made[p]
  /\ made' = [made EXCEPT ![p] = @ \ {i}]
  /\ served' = [served EXCEPT ![p] = @ \ {i}]
  /\ owner' = IF owner[ServiceOf(i)] = p THEN [owner EXCEPT ![ServiceOf(i)] = NoOne] ELSE owner
  /\ UNCHANGED procVars

\* cc_server_<I>_free and cc_instance_free: the service name is not released.
ServerFree(p, i) ==
  /\ i \in made[p]
  /\ made' = [made EXCEPT ![p] = @ \ {i}]
  /\ served' = [served EXCEPT ![p] = @ \ {i}]
  /\ UNCHANGED <<procVars, owner>>

-----------------------------------------------------------------------------
Process(p) ==
  \/ OpenBus(p) \/ NewEvent(p) \/ Attach(p) \/ StartupFails(p) \/ Shutdown(p) \/ Crash(p)
  \/ GetContext(p)
  \/ \E i \in Instances : ServerNew(p, i) \/ ServerNewFails(p, i) \/ ServerFree(p, i)

Next == \E p \in Procs : Process(p)

Spec == Init /\ [][Next]_vars

-----------------------------------------------------------------------------
\* A server instance whose object is registered can be called: its process owns
\* the service name of its address.  Several instances share one name, one of
\* them may have come too late for it (-EALREADY in cc_instance_new) and any of
\* them may be freed first; other processes ask for the same name.
ServersReachable ==
  \A p \in Procs : \A i \in served[p] : owner[ServiceOf(i)] = p

\* The bus never calls a thunk with an instance that was freed: every registered
\* object belongs to an allocated instance and to a connection that the backend
\* knows and its loop drives (cc_server_<I>_free, cc_backend_shutdown).
ObjectsAlive ==
  \A p \in Procs : served[p] # {} =>
    served[p] \subseteq made[p] /\ bus[p] /\ event[p] /\ attached[p]

\* A backend that is down, after a shutdown or a startup that failed half way,
\* has left nothing behind: the assertion on backend.bus at the next startup
\* holds, the bus has no connection and no name of the process, so another
\* process can take over its services.
NothingLeftBehind ==
  \A p \in Procs :
    /\ connected[p] <=> bus[p]
    /\ pc[p] = "down" => ~bus[p] /\ ~event[p] /\ ~attached[p] /\ \A s \in Services : owner[s] # p

\* The event context is one static structure that outlives the loop it points to.
\* An application that asks for it after each startup never gets a pointer to the
\* loop of an earlier one, however often it asks (cc_backend_get_event_context).
ContextIsCurrent ==
  \A p \in Procs : (asked[p] => context[p] = "current") /\ (context[p] = "current" => event[p])

\* What the parsing does to every address of some length.
EachTextIsTakenApart ==
  \A text \in Texts(Letters, MaxLength) :
    IF Incomplete(text) THEN Parse(text) = Refused
                        ELSE Parse(text).result = "ok" /\ FieldsMake(text)

\* cc_instance_new refuses an address only if it has fewer than two colons, and
\* of any other loses no character to the NULs that it writes into its copy: the
\* three C strings are the address without its first two colons, for empty fields
\* and colons in a row or at the end too.  (It parses once it has found the bus.)
FieldsAreTheAddress == \A p \in Procs : bus[p] => EachTextIsTakenApart
=============================================================================
