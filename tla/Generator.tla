------------------------------ MODULE Generator ------------------------------
(***************************************************************************)
(* The code generator: Generator.generate loads a model and writes four    *)
(* files for each interface, one after another. A type it does not support *)
(* ends it with an exception; a file that cannot be written does not: the  *)
(* file makers return null, which nobody looks at. The model is edited     *)
(* between the runs, and during them. The files are compiled and a client  *)
(* calls a server, with a value that goes there and comes back.            *)
(*                                                                         *)
(* An interface is its one method, which has one input and one output      *)
(* argument of the same type; a revision of an interface is that type.     *)
(***************************************************************************)
EXTENDS TypeMapping, Sequences

CONSTANTS Interfaces,    \* the interfaces of the model, in order
          Types,         \* the types the model uses
          Samples,       \* the values that are sent, for each type
          MaxEdits,      \* how often the model is edited
          MaxFailures,   \* how many files of an interface cannot be written in a run
          Missing        \* no file

ASSUME InterfacesAssumption == Len(Interfaces) > 0 /\ Interfaces \in Seq(STRING)
ASSUME TypesAssumption == Types \subseteq Supported \cup Unsupported
ASSUME SamplesAssumption ==
  \A t \in Types \cap Supported : Samples[t] \subseteq CValues(asCapicSig[t])
ASSUME BoundsAssumption == MaxEdits \in Nat /\ MaxFailures \in Nat
ASSUME MissingAssumption == Missing \notin Supported \cup Unsupported

VARIABLES
  model,      \* the type in each interface of the file
  loaded,     \* the model as the generator has loaded it
  position,   \* the interface and the file that is written next
  outcome,    \* of generate: running, or what it ended with
  files,      \* the type each file was generated for
  failures,   \* how many files of each interface could not be written last time
  edits,      \* how often the model was edited
  call        \* the call under way

vars == <<model, loaded, position, outcome, files, failures, edits, call>>

Index == 1 .. Len(Interfaces)

\* The files of an interface are written in this order: 1 the header and 2 the
\* body of the client, 3 the header and 4 the body of the server.
Start == [interface |-> 1, part |-> 1]

NoCall == [at |-> "none"]

Init ==
  /\ model \in [Index -> Types]
  /\ loaded = model
  /\ position = Start
  /\ outcome = "none"
  /\ files = [n \in Index |-> [p \in 1 .. 4 |-> Missing]]
  /\ failures = [n \in Index |-> 0]
  /\ edits = 0
  /\ call = NoCall

Edit(n, t) ==
  /\ edits < MaxEdits
  /\ t # model[n]
  /\ model' = [model EXCEPT ![n] = t]
  /\ edits' = edits + 1
  /\ UNCHANGED <<loaded, position, outcome, files, failures, call>>

-----------------------------------------------------------------------------
Load ==
  /\ outcome # "running"
  /\ loaded' = model
  /\ position' = Start
  /\ outcome' = "running"
  /\ UNCHANGED <<model, files, failures, edits, call>>

\* The file is no Franca file, or has syntax errors: nothing is written.
LoadFails ==
  /\ outcome # "running"
  /\ outcome' = "exception"
  /\ UNCHANGED <<model, loaded, position, files, failures, edits, call>>

\* Faulty: only the generated bodies look at the types.
BodiesThrow(t, part) == t \in Unsupported /\ part \in {2, 4}

\* The types are looked at when the text of a file is put together. The headers
\* of an interface and its bodies mention every argument.
Throws(t, part) == t \in Unsupported

\* An exception ends generate: what has been written stays.
WriteThrows ==
  /\ outcome = "running"
  /\ Throws(loaded[position.interface], position.part)
  /\ outcome' = "exception"
  /\ UNCHANGED <<model, loaded, position, files, failures, edits, call>>

\* Faulty: the last file is not written.
AdvanceEarly ==
  /\ position' = IF position.part < 4 THEN [position EXCEPT !.part = @ + 1]
                 ELSE [interface |-> position.interface + 1, part |-> 1]
  /\ outcome' = IF position = [interface |-> Len(Interfaces), part |-> 3]
                THEN "done" ELSE "running"

Advance ==
  /\ position' = IF position.part < 4 THEN [position EXCEPT !.part = @ + 1]
                 ELSE [interface |-> position.interface + 1, part |-> 1]
  /\ outcome' = IF position = [interface |-> Len(Interfaces), part |-> 4]
                THEN "done" ELSE "running"

Written(contents) ==
  /\ outcome = "running"
  /\ ~Throws(loaded[position.interface], position.part)
  /\ files' = [files EXCEPT ![position.interface][position.part] = contents]
  /\ Advance
  /\ UNCHANGED <<model, loaded, edits, call>>

\* The failures in writing this interface so far: with its first file the
\* interface is written anew.
Earlier == IF position.part = 1 THEN 0 ELSE failures[position.interface]

Write ==
  /\ Written(loaded[position.interface])
  /\ failures' = [failures EXCEPT ![position.interface] = Earlier]

\* makeFile fails: the old file is still there, or there is none that compiles.
WriteFails ==
  /\ outcome = "running"
  /\ Earlier < MaxFailures
  /\ \/ Written(files[position.interface][position.part])
     \/ Written(Missing)
  /\ failures' = [failures EXCEPT ![position.interface] = Earlier + 1]

-----------------------------------------------------------------------------
\* A header and a body compile only together.
Compiles(n, header) ==
  files[n][header] # Missing /\ files[n][header] = files[n][header + 1]

\* A client calls a server, each compiled from the files that are there.
Call(n, kind) ==
  /\ call = NoCall
  /\ Compiles(n, 1) /\ Compiles(n, 3)
  /\ \E v \in Samples[files[n][1]] :
       call' = [at |-> "sent", kind |-> kind, client |-> files[n][1], server |-> files[n][3],
                value |-> v, message |-> Message(files[n][1], v)]
  /\ UNCHANGED <<model, loaded, position, outcome, files, failures, edits>>

\* The server thunk passes what it reads to the implementation.
Serve ==
  /\ call.at = "sent"
  /\ call' = [at |-> "served", kind |-> call.kind, client |-> call.client,
              server |-> call.server, value |-> call.value,
              got |-> Taken(call.server, call.message)]
  /\ UNCHANGED <<model, loaded, position, outcome, files, failures, edits>>

\* The implementation returns its argument, and the client reads the answer.
Return ==
  /\ call.at = "served"
  /\ call.got.status = "value"
  /\ LET message == Message(call.server, call.got.value)
     IN  call' = [at |-> "returned", kind |-> call.kind, client |-> call.client,
                  server |-> call.server, value |-> call.value,
                  got |-> IF call.kind = "sync" THEN Returned(call.client, message)
                          ELSE Taken(call.client, message)]
  /\ UNCHANGED <<model, loaded, position, outcome, files, failures, edits>>

\* The call is over; a failed one is answered with an error.
End ==
  /\ \/ call.at = "returned"
     \/ call.at = "served" /\ call.got.status = "error"
  /\ call' = NoCall
  /\ UNCHANGED <<model, loaded, position, outcome, files, failures, edits>>

Next ==
  \/ \E n \in Index, t \in Types : Edit(n, t)
  \/ Load \/ LoadFails
  \/ WriteThrows
  \/ Write
  \/ WriteFails
  \/ \E n \in Index, kind \in {"sync", "async"} : Call(n, kind)
  \/ Serve
  \/ Return
  \/ End

Spec == Init /\ [][Next]_vars

-----------------------------------------------------------------------------
Status == {"value", "error", "undefined"}
Calls == [at : {"sent"}, kind : {"sync", "async"}, client : Supported, server : Supported,
          value : Int, message : [sig : DOMAIN Carrier, value : Int]]
         \cup
         [at : {"served", "returned"}, kind : {"sync", "async"}, client : Supported,
          server : Supported, value : Int, got : [status : Status, value : Int]]

\* Type correctness of the generator (Generator.generate) and of the calls
\* between what it generates.
TypeOK ==
  /\ model \in [Index -> Types]
  /\ loaded \in [Index -> Types]
  /\ position \in [interface : 1 .. Len(Interfaces) + 1, part : 1 .. 4]
  /\ outcome \in {"none", "running", "exception", "done"}
  /\ outcome = "running" => position.interface \in Index
  /\ files \in [Index -> [1 .. 4 -> Types \cup {Missing}]]
  /\ failures \in [Index -> 0 .. MaxFailures]
  /\ edits \in 0 .. MaxEdits
  /\ call = NoCall \/ call \in Calls

\* An exception for an unsupported type (XGenerator.asCapicSig) leaves no
\* interface with files of two revisions of the model: the four files of an
\* interface agree unless they are being written, or a write failed when they were
\* last written. A later run that can write all files repairs the mixture.
AllOrNothing ==
  \A n \in Index :
    (failures[n] = 0 /\ ~(outcome = "running" /\ position.interface = n /\ position.part > 1))
      => \A p \in 1 .. 4 : files[n][p] = files[n][1]

\* When generate ends without an exception, every file of every interface is of
\* the model that was loaded, whatever earlier runs left, unless a write of this run
\* to the interface failed (which nobody is told of).
SuccessIsComplete ==
  outcome = "done" =>
    \A n \in Index : failures[n] = 0 => \A p \in 1 .. 4 : files[n][p] = loaded[n]

\* What the generated code (asSig, asLVal, asRVal, asRef, diffBySig) does to the
\* arguments of a call: memory is never overrun or read uninitialized, a message
\* is refused only for its signature, and if client and server were generated for
\* the same type, every value arrives as it was sent, and comes back so. (Types
\* that share a signature are taken for each other.)
ValuesArrive ==
  call.at \in {"served", "returned"} =>
    /\ call.got.status # "undefined"
    /\ call.got.status = "error" => asSdBusSig[call.client] # asSdBusSig[call.server]
    /\ call.client = call.server =>
         call.got.status = "value" /\ call.got.value = call.value
=============================================================================
