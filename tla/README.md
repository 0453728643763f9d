# Verification of Common API C (capic-poc)

Common API C generates C stubs from Franca interface files and gives the
generated code a small backend over sd-bus and sd-event. This directory models
the parts of it that run: the backend, the generated stubs, the three reference
applications `ref/game`, `ref/smartie` and `ref/simple`, and the generator
itself. The models are checked with TLC on small instances; the safety
properties are proved with TLAPS for every value of the constants.

Paths below are relative to the repository.

## 1. Inventory

| Component | Code | State | Operations |
|---|---|---|---|
| Backend life cycle | `src/backend.c` 26-191 | one static bus connection and event loop, a static copy of the loop pointer (event context), instances with their address | startup (with cleanup on failure), shutdown, instance new / free, get event context |
| Event loop access | `src/backend.c` 193-271 | the state of the sd-event loop: initial, armed, pending | `cc_event_prepare`, `cc_event_check`, `cc_event_dispatch` |
| GLib embedding | `player.c` 210-294 | ready flag of a GSource | prepare, check, dispatch called by the main loop |
| sd-event embedding | `ball.c` 211-249, 361-373 | whether the outer I/O source is enabled | prepare callback, I/O callback |
| Generated client stub | template in `XGenerator.xtend` 107-363; `client-*.c` | per method: slot and callback of the pending call | new, free, synchronous call, asynchronous call, fire-and-forget call, reply thunk |
| Generated server stub | template in `XGenerator.xtend` 406-536; `server-*.c` | implementation table, vtable slot | new, free, one thunk per method |
| Ball | `ref/game/src/ball.c` | state, fall timer | grab, drop, land, signal |
| Player | `ref/game/src/player.c` | state, grab timer, drop timer, pending grab | grab timer, grab response, drop timer, signal |
| Smartie | `ref/smartie/src/` | whether Alice believes she rings, whether Bob is rung; one pending ring | ring, hangup, launch, signals |
| Simple | `ref/simple/src/` | the client's place in its script, its pending call; the server's two instances | split, launch, signals |
| Generator | `Generator.java`, `XGenerator.xtend` | the files it has written so far | load a model, write four files for each interface; mapping of types to C and D-Bus |
| Front ends, tests | `tools/*.cli`, `*.ui`, `test/` | none | input and output |

**How they interact.** Every process is single threaded. A loop (sd-event or
GLib) polls the descriptor of the backend's own sd-event loop and calls
`cc_event_*`, which dispatch sd-bus, which calls a generated thunk, which calls
the application's implementation or callback, which may call the stub again. A
synchronous call blocks the process and lets nothing else run. Processes share
nothing but the bus.

**What is hard.** Answers race with timeouts; a call ends in an error the
application never hears of; state is assigned before the call that may fail;
the server does not look at who sends a drop; a process is terminated between
two messages; a callback calls back into the stub that is calling it; error
paths of a server reply twice; a loop is embedded into a loop and each has its
own idea of what is ready; a generator stops between two files that belong
together. `PROJECT.json` lists these hazards at their lines,
with the property that would break if they went wrong.

**What makes each component correct.**

- Ball and player: at most one player has the ball, no player believes it has
  a ball that is falling, a drop comes from the holder; timers are only set in
  states that use them; each player gets its turn.
- Client stub: a callback is called for its own call and at most once; an
  accepted call ends; nothing reaches a freed instance; its assertions hold.
- Event loop access: no operation is called in a state that is illegal for it;
  nothing that fired is slept on; every source is served.
- Backend: what startup acquired is released exactly once; the event context
  is not older than the loop.
- Smartie: Bob is rung by one caller; Alice rings only where she is rung for; she
  is told, or something went wrong.
- Simple: the call that must be refused is; each instance answers for itself; the
  client exits.
- Generator: the files of an interface agree with each other; a value that goes
  through a client and a server arrives.

## 2. Modules

| Module | Models |
|---|---|
| `Game` | the ball, the players, their stubs and the bus between them |
| `BallToken` | the abstract promise: a token with at most one holder |
| `GameRefinesToken` | the mapping from `Game` to `BallToken` |
| `Stub` | a client instance with any number of methods, its user, the server thunks and sd-bus |
| `EventLoop` | the backend loop and `cc_event_*` over sd-event |
| `PlayerLoop` | `EventLoop` embedded into GLib |
| `BallLoop` | `EventLoop` embedded into another sd-event loop |
| `Backend` | the life cycle of the backend and of server instances, in several processes on one bus |
| `Address` | how an instance takes its address apart, in place; `Backend` extends it |
| `Smartie` | the caller, the callee and other clients of `ref/smartie` |
| `Simple` | the client and the server of `ref/simple` |
| `TypeMapping` | what the generator makes of a basic type, and what the generated expressions do to a value |
| `Generator` | the run of the generator over a model, and calls between what it wrote |
| `MC_*` | instances for TLC |
| `*Proofs` | theorems |

An operator whose comment starts with "Faulty" is a plausible bug of the
definition below it. It is not part of the model: `PROJECT.json` ("mutants")
says which property finds it.

### Game

One action is one whole handler. The processes are single threaded and none of
these handlers blocks (`cc_Ball_grab_async` queues a message, `cc_Ball_drop` does
too), so nothing else of that process happens in between; the other processes are
only reached through the bus.

| Variable | Code |
|---|---|
| `server`, `boots` | how far `main` of the ball is, and whether its loop has lost the backend (`deaf`); how many ball processes there were |
| `state`, `fallTimer` | `ball_data.state`; `fall_timer` is enabled |
| `proc[p]` | how far `main` of a player is |
| `pstate[p]`, `grabTimer[p]`, `dropTimer[p]` | `player_data.state`; the timer has a ready time |
| `slot[p]` | `cc_client_Ball.grab_reply_slot` is set (and with it the callback, see `Stub`) |
| `calls[p]`, `reply[p]` | what the bus carries for this player; it delivers in order per sender, and a player has at most one grab and one drop under way |

| Action | Code |
|---|---|
| `BallLaunch`, `BallInitial`, `BallStop` | `main` of ball.c up to `cc_server_Ball_new`, from there to the loop, and from the signal to the end |
| `ServeGrab`, `ServeDrop` | `cc_Ball_grab_thunk` / `cc_Ball_drop_thunk`, `Ball_impl_*`, the state handlers |
| `Land` | `ball_land_handler`; the timer is one-shot |
| `LoseBackend` | `backend_event_dispatch` fails for a burst, and the loop disables its source (finding 2; `BallLoop` has the detail) |
| `PlayerLaunch`, `PlayerStop` | `main` of player.c up to the loop; the signal and the cleanup |
| `GrabTimeout` | `player_grab_handler`, `player_do_free`, and `cc_Ball_grab_async` (`GrabAsync`) |
| `GrabResponse` | `cc_Ball_grab_reply_thunk`, `player_grab_response_handler`, `player_do_grabbing` |
| `GrabError`, `GrabExpired` | the same thunk with an error of the bus, or of its timeout: the callback is not called |
| `DropTimeout` | `player_drop_handler`, `player_do_on_ball`, `cc_Ball_drop`, the end of `main` |
| `LateReply`, `Send` | external: what sd-bus and the bus do |

What the environment may do is the constant `Hazards`: launch a player before
the ball (`early`), terminate the ball (`stop`) or a player (`signal`), let a grab
run into its timeout, let sending fail, let the timer fail, let two sources of the
ball's backend fire together (`burst`).

Abstractions: time is whether a timer is set. The GLib timers are timeout sources
of 2^32 - 1 ms (`g_timeout_source_new(-1)`) whose ready time is changed; after a
callback they fall back to that interval, 49 days, which the model takes for
never. A process whose startup fails is one that was not launched.

### Stub

Calls are numbered; `slot[m]` and `callback[m]` hold the number of the call that
set them, 0 for NULL, so that properties can tell the calls of one method apart.
`table` is what sd-bus has registered, `inbox` what it has received. A reply
thunk is two steps when it calls the user (`ReplyValue`, `CallbackReturn`), and
whatever the user does from within the callback happens in between: start calls of
other methods, make a synchronous call and wait for it. `thunk` and `current`
are the stack and `sd_bus_get_current_slot`. A synchronous call takes its reply
out of the queue and leaves everything else there, as `sd_bus_call` does. The
server may answer, answer with an error, answer with an error twice (its error
paths send a reply and also return an error, for which sd-bus replies), or not
answer. Replies may come in any order of the calls and after their timeout.

Not modelled: a call that is refused or cannot be sent changes nothing in the
instance and is not a step; the user does not free an instance within its own
callback (the thunk would write to it: `FreeInCallback` shows it); the contents
of messages; a reply whose contents cannot be read, which the thunk treats like an
error reply.

### EventLoop, PlayerLoop, BallLoop

`EventLoop` is written in terms of sources that fire: `due` (the condition
holds), `queued` (sd-event has seen it fire), `wanted` (enabled), `watched` (in the
descriptor's epoll set since the last preparation). The operations of
`sd-event` are external and follow its state machine: prepare is legal in state
initial, wait in armed, dispatch in pending, anything else is -EBUSY; prepare
goes straight to pending when something was left over. The two embeddings add
the control flow of the outer loop: GLib skips the check of a source that was
ready when prepared; sd-event disables a source whose callback returns an
error, and `backend_event_dispatch` of the ball checks unconditionally.

### Backend, Address

`Backend` lets every process make the calls of the API in any order: start,
fail at any step of startup, ask for the event context, shut down (with instances
left or not), create and free server instances, be killed. `pc`, `bus`, `event`
and `attached` follow the static backend, `context` the static copy of the loop
pointer and `asked` whether the application asked for it since the startup,
`connected` and `owner` what the bus knows of the process, `made[p]` the
instances that are allocated and `served[p]` those with an object registered on
the connection.

| Action | Code |
|---|---|
| `OpenBus`, `NewEvent`, `Attach` | `cc_backend_startup`, one step for each thing it acquires |
| `StartupFails`, `Shutdown` | the failure path; `cc_backend_shutdown` (`Close` in both, which leaves the context dangling) |
| `GetContext` | `cc_backend_get_event_context`; a backend without a loop gets an assertion |
| `ServerNew`, `ServerNewFails` | `cc_server_*_new` with `cc_instance_new`: the name first, then the object; a failure in between leaves the name |
| `ServerFree` | `cc_server_*_free`, `cc_instance_free`: the name is kept |
| `Disconnect`, `Crash` | external: the bus forgets a closed connection |

Instances are known by their addresses, and the service of an instance is what
`Address` makes of it. `Address` is the parser in `cc_instance_new`: the three
fields are indices into one copy of the address in which two colons become NUL;
`CString` is how the rest of the code reads them. The parser neither restricts
the characters nor the number of colons: the interface takes the rest.

`Game` relies on `Backend`: it lets only one ball process run at a time, because a
second one is refused the service name (`RequestName`) and ends. `Smartie` does
the same with its two names.

### Smartie, Simple

In `Smartie`, Alice rings once, in `main`, and Bob remembers that he was rung until
a hangup, whoever hangs up. Nobody in the repository does; the generated stub
offers it, so `Others` are clients that ring and hang up. A call goes to the Bob
that owns the name when it is made; it is served, or failed by the bus when that
Bob stops or there is none. `rung`, `hungup`, `rang`, `told` and `expired` are
history for the properties. Alice's own server instance answers 0 without
looking at anything and is left out.

`Simple` is the script of `simpleclient` as program counter: the blocking call on
one instance (`SyncReturn`), the asynchronous one on the other (`AsyncCall`), the
blocking call that must be refused while that one is pending (`SyncRefused`),
one run of the loop (`Run`, `RunExpires`), the end (`Finish`). `inbox` keeps what
the bus has sent in order; a blocking call takes its own reply from the middle. The
server owns its name before its second instance exists (`FirstInstance`,
`SecondInstance`); it answers only from its loop.

### TypeMapping, Generator

`TypeMapping` has one operator for each of the switches of the generator that must
agree: the C type of an argument (`asCapicSig`), the type of the variable that is
read into (`asSig`), the wire signature (`asSdBusSig`), which arguments get a
variable in a synchronous call (`diffBySig`) and which are referred to by its
suffix (`HasSuffix`); and what the casts do to a value (`Message`, `Taken`,
`Returned`). What sd-bus reads and writes for a signature (`Carrier`) and the
conversions of C are external.

`Generator` is `Generator.generate`, one action per file. An exception
(`WriteThrows`, for a type that is not supported) ends the run where it is; a
file that cannot be written (`WriteFails`) does not, since the null of `makeFile`
is ignored: either the old file stays, or nothing that compiles. The model may be
edited at any time; the run works on what it has loaded. `Call`, `Serve`,
`Return` and `End` are calls between a client and a server compiled from what is
there, possibly from different revisions of the interface.

An interface is its one method with one input and one output argument of the same
type: the templates treat arguments one by one and in the order of the interface,
and the revision of an interface is that type. Names of arguments and the text of
the files are abstracted.

## 3. Runs

| Run | Instance | Shows |
|---|---|---|
| `game_play` | 3 players, no hazards (so no bursts either), fair | nobody waits for what cannot come; every player gets the ball and leaves; the ball comes to rest; no deadlock |
| `game_refines_token` | 3 players, 2 ball processes, all hazards | the safety invariants; the first ball implements `BallToken`; only the holder's drop moves a held ball |
| `game_retry` | 2 players, launched in any order, fair | **violated**: finding 1 |
| `stub` | 2 methods, 3 calls, fair | slot and callback agree, no stale reply, no forgotten call; one outcome per call, and it comes |
| `player_loop` | 3 sources, fair | never -EBUSY, never asleep on work, every source served |
| `ball_loop` | 3 sources, with and without bursts, fair | everything enabled is watched, the backend is only lost to a check of a loop with something left over; without bursts never -EBUSY and every source served |
| `ball_loop_check` | 3 sources, with and without bursts | **violated**: finding 2 |
| `backend` | 2 processes, 3 instances on 2 service names, addresses of up to 6 characters | who serves owns its name, no object outlives its instance or the loop, the event context is current, a process that is down left nothing; addresses are taken apart without loss |
| `smartie` | 2 Alices, 2 Bobs, 1 other client with 2 calls, fair | Bob has one caller, Alice rings only at a Bob who rings for her, refusals and silence have a reason, her ring is not lost and her wait ends |
| `simple` | 2 clients, 1 server, all hazards, fair | the refused call is refused, no call meets an unknown object, each instance answers for itself, clients exit |
| `simple_run` | the same without hazards | **violated**: finding 3 |
| `generator` | 2 interfaces, 5 types, 1 edit, 1 failed file per interface and run | files of an interface agree, success is complete, values arrive |

**Bounds.** Three players are one that holds the ball, one that is refused and
one whose message is still under way; two balls (`MaxBoots`) are one restart. Two
methods are one whose callback runs and another that is called from it; three
calls are one that timed out, its successor in the same method, and a
synchronous one, which is what a stale reply needs. Three sources are what sd-bus
attaches: input, output and timeout; any of them may be enabled at first; `bursts`
is chosen once and for all in the initial state. Two processes compete for names;
of the three instances two share one, as in `ref/simple`, and one has its own
with empty fields. Six characters (`MaxLength`) leave room for three colons with
text around two of them, or for empty fields anywhere. Two Alices and two Bobs
are one launched again after another, or twice by mistake; two calls of the other
client are a ring and a hangup in either order. In `generator`, one edit makes
two revisions, and two interfaces a run that fails behind an interface it has
finished; the types are one of each kind of mapping (a boolean, a signed byte, the
unsigned byte that shares its signature, a float, an unsupported one), and the
samples are the ends of their ranges. Numbers are scaled: `Half` gives half the
number of values of an integer of n bytes (two bits for a byte), `FloatStep` says
which doubles are floats; the proofs hold for 2^7 as well. Only `boots`, `sent`,
`made`, `edits` and `failures` would grow without these bounds.

**Type invariants.** `TypeOK` of every module with a proof module is proved for every value
of the constants (section 5) and is in no run.

**Deadlock.** Checked in `game_play`, `stub`, `backend`, `generator` and the loop
runs. The runs of the game with hazards turn it off: a player whose grab failed
waits in state grabbing while nothing is left to happen (finding 1). So do
`smartie`, `simple` and `simple_run`: processes there exit, and none is launched
again without bound. `Over` lets a game in which everybody has left stutter, so
`game_play` would report any other stop.

**Fairness.** Weak fairness of a handler says that its loop runs and dispatches
what stays ready; every handler that has it is triggered by something that
persists until it runs, a queued message or an expired timer. The environment has
none: nobody is obliged to launch, to terminate, to answer. A queued call of the
ball persists only as a trigger while the ball's loop watches its backend, and
finding 2 shows how it can stop doing so for good although nothing else fails: two
sources of the backend fire together, for instance the signal NameAcquired of the
new connection and a player's grab. `ServeGrab` and `ServeDrop` are therefore
disabled once the ball is `deaf`, whatever their fairness, and `NobodyStuck`,
`EveryPlayerLeaves` and `BallRestsAgain` rest on the **assumption that there is no
burst** (`Hazards = {}`): they say that the game itself blocks nobody, not that the
ball's loop serves everybody. `ball_loop` shows the loop's part, under the same
assumption (`EverySourceServed` without bursts). In `Stub` the
client's own timeouts are fair, since sd-bus arms a timer for each call, and
servers are not. In the loops, sd-event dispatches pending sources in the order
they were found, hence strong fairness for each source of the player's loop and
for the backend among the sources of the ball's. In `Smartie` the handlers of
Alice and Bob are fair and timeouts are not: her wait ends even if none ever
fires. In `Simple` the client is fair with its timeouts, and the server is not:
the client's script ends whatever the server does.

## 4. Findings

1. `GrabFailureRetries` (`game_retry`). player.c:34 and `ref/README.adoc`:34 say
   that a player whose grab failed becomes free and tries again. The generated
   thunk drops error replies (client-Ball.c:92-95), so a player whose grab meets
   an error (no ball on the bus yet) stays in state grabbing for ever. A fix
   needs the callback to be told.
2. `CheckReportsReady` (`ball_loop_check`). cc_event.adoc:65 says
   `cc_event_check` returns a positive value when a source can be dispatched.
   When two sources fired together and one was dispatched, preparation leaves
   the loop pending, `sd_event_wait` refuses that state, and the ball, which
   checks unconditionally (ball.c:237), returns the error, for which its outer loop
   disables the backend. GLib does not check a source that is ready and is not
   affected (`NeverBusy` in `player_loop`). For the game this means a ball that
   keeps its name and answers nobody (`LoseBackend`): its safety survives that,
   its liveness does not.

3. `RunCompletesCall` (`simple_run`). simpleclient.c announces what it expects to
   receive from its asynchronous call (line 87) and reports that it was "unable to
   complete" the call when the one run of its loop fails (line 104). The run
   handles one message of the bus, and that may be another one, such as the
   signal NameAcquired of a new connection: it succeeds, the client frees the
   instance and exits with success, and its callback was never called. A fix would
   run the loop until the call has ended; waiting for the callback is not enough,
   since errors do not reach it (finding 1). (Line 87 also announces the
   values of the first implementation; the instance that is called has the second.)

## 5. Proofs

All theorems hold for every set of players, methods, sources, processes or
interfaces and every bound. They rest on the assumptions stated with the
constants, which TLC evaluates:

| Module | Assumptions |
|---|---|
| `Game`, `GameRefinesToken` | `HazardsAssumption`, `MaxBootsAssumption`; `NoOneIsNoPlayer` |
| `Stub` | `IdleAssumption`, `MaxCallsAssumption` |
| `Backend` | `NoOneAssumption`; `LettersAssumption` (NUL is no character of an address), `MaxLengthAssumption` |
| `Smartie` | `ProcessesAssumption`, `MaxCallsAssumption` |
| `Simple` | `HazardsAssumption` |
| `TypeMapping` | `HalfAssumption`, `FloatAssumption` |
| `Generator` | `InterfacesAssumption`, `TypesAssumption`, `SamplesAssumption`, `BoundsAssumption`, `MissingAssumption` |

- **`GameProofs`**: `TypeOK`, `AtMostOneHolder`, `HolderKeepsBallGrabbed`,
  `OneMessageInFlight`, `SlotMeansGrabbing`, `TimersFollowState` and the action
  property `OnlyHolderDrops`. The inductive invariant adds two facts. `Awaiting`:
  a running player with a message under way is in state grabbing; without it an
  answer could meet a player that is already on the ball. `BallStarted`: the
  ball's `main` and its state agree, so that nothing is served in state initial,
  where any event is taken as a success. The rest is the promises themselves:
  that the ball stays grabbed needs that there is one claim, and the other way
  round, so both are proved together; the parts about one player at a time
  (`LocalInv`) do not need them and are proved first.
  `NobodyStuck` is the safety core of the game's liveness: when nothing fails, a
  running player has a timer set or a grab pending, a pending grab has its call
  or its answer, a grabbed ball has the player whose drop will free it, and a
  falling ball has its timer. It says what a step would have to lose for the game
  to stop; `EveryPlayerLeaves` adds fairness to it and is left to TLC. Its
  strengthening `NothingAmiss` says that without hazards the ball has its backend,
  and a grab or its answer is under way only for a player whose call is pending; a
  late one could take the ball for a player that no longer waits, and nobody would
  drop it.
  The same module has the refinement, `Spec => ImplementsToken`, for any number
  of ball processes. While the first one is there, the holder of the token is the
  only player with a claim; a step gives the ball (`ServeGrab`), takes it
  (`ServeDrop`), ends the fall (`Land`), loses the last claim, or leaves both
  alone. The launch of the second one replaces the token for good
  (`BallsOnlyGrow`).
- **`StubProofs`**: all safety properties of `Stub`, and `OneOutcome`. The
  invariant `Books` keeps the numbers together: numbers above `sent` are
  unused; a slot is open and registered, unless its callback is running; slots
  are distinct and none is the blocking call; nothing belongs to an instance that
  was freed.
- **`PlayerLoopProofs`**: `TypeOK`, `NeverBusy` and `NeverSleepsOnWork`. The
  invariant relates the place of the main loop to the state of the inner one:
  prepared before polling, pending exactly when flagged.
- **`BallLoopProofs`**: `TypeOK`, `OnlyLeftoversDisable` and `NeverSleepsUnwatched`
  with bursts: a loop that is not in its initial state watches what is enabled, one
  that is pending has something queued, and every dispatch finds the loop pending,
  so of all operations only the check can be refused.
  `SingleEventsNeverBusy` has an invariant of its own on top (`OneAtATime`): at
  most one source has fired, and it is dispatched before the next preparation. With
  bursts `NeverBusy` is false (finding 2).
- **`BackendProofs`**: `TypeOK`, `ServersReachable`, `ObjectsAlive`,
  `NothingLeftBehind` and `ContextIsCurrent` for any processes and addresses. The
  invariant `Stages` says what a backend has acquired at each stage of its
  startup; without it a connection could outlive a backend that is down, and with
  it its names. `EveryAddress` is about the parser alone and has no bound: of the
  texts over any characters but NUL, it refuses exactly those with fewer than two
  colons, and what it makes of any other has no colon in its first two fields and
  is the text again when joined. The argument follows the pointers: the least
  position of a set exists (`MinIsFirst`, by well-founded induction of the library),
  so a cut is at the first colon (`CutFacts`), the two cuts are at the first two
  colons of the original text (`ParseCuts`), a C string ends where the next cut is
  (`CStringIs`, `FieldIs`), and a sequence that agrees with the text up to its
  length is the text (`BeginsLonger`, `Joined`). `FieldsAreTheAddress` follows for
  every `MaxLength` and every `Letters`.
- **`SmartieProofs`**: all safety properties of `Smartie` for any number of
  processes, clients and calls. None is inductive alone. `CallsAreNew`: a call is
  on its way once, and Bob does not know it before he serves it; without it a
  second service of the same ring would reopen what was hung up. `RingsInOrder`:
  what is on its way for an Alice is her ring to the Bob she rang or his answer,
  and an answer of 0 stands for a ring he has accepted. A slot that is held belongs to
  a call that has not timed out, so `AliceRingsAtBob` excludes that a late answer
  makes her ring. `RingUnderWay` is the
  safety core of `AliceHearsSomething`: what ends her wait exists as long as she
  waits. It needs `NameIsLive`, that the owner of a name runs: a call is only ever
  queued at a Bob who will serve it or whose end fails it.
- **`SimpleProofs`**: `TypeOK`, `SecondCallRefused`, `ObjectsAreKnown`,
  `InstancesAnswer` and `AnswerIsDue` for any number of clients. `ServerInStep`
  ties the objects to the stage of `main` of the server; `Expected` is what may be
  in an inbox at all: answers of unknown objects are not among it, since the server
  dispatches only when both instances are made;
  `ClientInStep` ties slot, script and results together. The rest is about queues:
  what appending, joining and taking a message out of the middle keep
  (`AppendKeeps`, `ConcatKeeps`, `RemoveAtKeeps`). `AnswerIsDue` says that while a
  client waits its call is at a server or its reply in the inbox, the part of
  `ClientsExit` that is not fairness; it is in no run.
- **`GeneratorProofs`**: `TypeOK`, `AllOrNothing`, `SuccessIsComplete` and
  `ValuesArrive`, for any interfaces, types, edits and failures, and any size of
  bytes. `AllOrNothing` needs that an exception comes before the first file of an
  interface: once the header is written the type is supported (`HeaderPassed`),
  so nothing throws until the interface is complete; `WrittenSoFar` says what is
  complete already. `ValuesArrive` comes from lemmas about the mapping:
  `RoundTrip` (the casts for the bus and back cancel out on every value of the
  type), `ReadFits` and `SuffixMeansVariable` (sd-bus never writes past a
  variable, no variable is copied without being read), with `CallFaithful` for
  the message that is under way.

**Model-checked only.** The liveness properties `EveryPlayerLeaves`,
`BallRestsAgain`, `EveryCallEnds`, `EverySourceServed` of both loops,
`AliceHearsSomething` and `ClientsExit`: the prover does not do liveness under
fairness. Every other property of a passing run is a theorem.

**Limits of the promises.** `AtMostOneHolder`, `HolderKeepsBallGrabbed`,
`OnlyHolderDrops` and `ImplementsToken` speak of the first ball process: a second
one starts at rest and grants the ball although the first one's holder is still
on it. A ball whose holder was terminated, or gave up on its grab, stays grabbed
for ever; `BallToken` allows that (`Abandon`), because the code does nothing
about it. `ImplementsToken` says the same of the second ball: `Replace`, after
which nothing is promised. `AllOrNothing` and `SuccessIsComplete` except
interfaces of which a file could not be written when they were last generated: the
generator does not notice. The next run that can write them repairs them.
`ValuesArrive` promises values between a client and a server of the same type; an
INT8 and a UINT8 share a signature, and so do FLOAT and DOUBLE, so sides of
different revisions take each other's values for their own.

## 6. Not modelled

- The front ends of the generator beyond the outcomes of `makeFile`: argument
  parsing, Eclipse glue, files and directories. They keep no state between runs.
- The text of generated files and the names of arguments. The variable for an
  argument `a` of type BOOLEAN is `a_int`, and the stubs have variables of their
  own, so some names do not compile; nothing in the generator looks at names.
- Arguments that Franca declares as arrays: the generator ignores the flag and
  makes a single value of them; no interface in the repository has one.
- The printing of arguments by the debug macros, the logging macros, the
  performance programs and the tests: no state or order worth a model.
- An instance that is freed within its own callback, which the reply thunk then
  writes to; no application in the repository does it.
- The read of the clock inside an assertion (ball.c:96): in a build with NDEBUG it
  is left out and the time is uninitialized. The timer of the model has no time.
- The conversion of a double to `int32_t` in simpleserver.c:32, which C does not
  define out of range; the values of `Simple` only tell which implementation
  computed them.

What could be added: several arguments per method, which asks whether the order of
arguments is the same in all templates; and what survives a restart of the ball
as a second refinement.
