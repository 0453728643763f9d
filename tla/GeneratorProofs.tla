--------------------------- MODULE GeneratorProofs ---------------------------
(***************************************************************************)
(* Proofs about the generator, for any sequence of interfaces, any types,  *)
(* edits and failures, and any size of bytes.                              *)
(***************************************************************************)
EXTENDS Generator, TLAPS

\* Whatever sd-bus writes for a type fits into the variable that is declared.
LEMMA ReadFits ==
  ASSUME NEW t \in Supported
  PROVE  /\ asSdBusSig[t] \in DOMAIN Carrier
         /\ SizeOf[Carrier[asSdBusSig[t]]] = SizeOf[asSig(t)]
         /\ asSig(t) \in DOMAIN SizeOf
         /\ asCapicSig[t] \in DOMAIN SizeOf
BY DEF Supported, asCapicSig, asSdBusSig, Carrier, SizeOf, asSig

\* The arguments with a suffix are those that get a variable (asRef, diffBySig).
LEMMA SuffixMeansVariable ==
  ASSUME NEW t \in Supported
  PROVE  HasSuffix(t) = diffBySig(t)
BY DEF Supported, asCapicSig, asSig, HasSuffix, diffBySig

\* A conversion makes a number of a number.
LEMMA ConvertType ==
  ASSUME NEW v \in Int, NEW c \in DOMAIN SizeOf
  PROVE  Convert(v, c) \in Int
<1>1. SizeOf[c] \in {1, 2, 4, 8}
  BY DEF SizeOf
<1>2. Half[SizeOf[c]] \in Nat
  BY <1>1, HalfAssumption
<1>3. v \div FloatStep \in Int
  BY FloatAssumption
<1>4. FloatStep * (v \div FloatStep) \in Int
  BY <1>3, FloatAssumption
<1>5. QED
  BY <1>2, <1>4 DEF Convert

\* The values of C types are numbers.
LEMMA ValuesAreInts ==
  ASSUME NEW t \in Supported, NEW v \in CValues(asCapicSig[t])
  PROVE  v \in Int
<1> DEFINE c == asCapicSig[t]
<1>1. SizeOf[c] \in {1, 2, 4, 8}
  BY ReadFits DEF SizeOf
<1>2. Half[SizeOf[c]] \in Nat
  BY <1>1, HalfAssumption
<1>3. QED
  BY <1>2 DEF CValues

\* A value whose type is that of the message is not changed by a conversion.
LEMMA Unchanged ==
  ASSUME NEW t \in Supported, asSig(t) = asCapicSig[t],
         NEW v \in CValues(asCapicSig[t])
  PROVE  Convert(v, asSig(t)) = v
<1>1. v \in Int
  BY ValuesAreInts
<1>2. \A n \in {1, 2, 4, 8} : Half[n] \in Nat \ {0}
  BY HalfAssumption
<1>3. CASE t = "DOUBLE"
  <2>1. asSig(t) = "double" /\ asCapicSig[t] = "double"
    BY <1>3 DEF asSig, asCapicSig
  <2>2. \A w : Convert(w, "double") = w
    BY DEF Convert, Unsigned
  <2>3. QED
    BY <2>1, <2>2
<1>4. CASE t \in {"UINT8", "UINT16", "UINT32", "UINT64"}
  <2> DEFINE c == asCapicSig[t]
  <2>1. asSig(t) = c /\ c \in Unsigned
    BY <1>4 DEF asSig, asCapicSig, Unsigned
  <2>2. c # "bool" /\ c # "float" /\ c # "double"
    BY <2>1 DEF Unsigned
  <2>3. v \in 0 .. 2 * Half[SizeOf[c]] - 1
    BY <2>1, <2>2 DEF CValues
  <2>4. Convert(v, c) = v
    BY <2>1, <2>2, <2>3, <1>1 DEF Convert
  <2>5. QED
    BY <2>1, <2>4
<1>5. CASE t \in {"INT16", "INT32", "INT64"}
  <2> DEFINE c == asCapicSig[t]
  <2>1. asSig(t) = c /\ c \in Signed \ Unsigned
    BY <1>5 DEF asSig, asCapicSig, Unsigned, Signed
  <2>2. c # "bool" /\ c # "float" /\ c # "double"
    BY <2>1 DEF Signed
  <2>3. SizeOf[c] \in {1, 2, 4, 8}
    BY <2>1 DEF SizeOf, Signed
  <2>4. v \in -Half[SizeOf[c]] .. Half[SizeOf[c]] - 1
    BY <2>1, <2>2 DEF CValues
  <2>5. Convert(v, c) = v
    BY <2>1, <2>2, <2>3, <2>4, <1>1, <1>2 DEF Convert
  <2>6. QED
    BY <2>1, <2>5
<1>6. QED
  BY <1>3, <1>4, <1>5 DEF Supported, asCapicSig, asSig

\* The casts of the generated code bring a value to the other side as it was.
LEMMA RoundTrip ==
  ASSUME NEW t \in Supported, NEW v \in CValues(asCapicSig[t])
  PROVE  Convert(Convert(Convert(v, asSig(t)), asSig(t)), asCapicSig[t]) = v
<1>1. v \in Int
  BY ValuesAreInts
<1>2. \A n \in {1, 2, 4, 8} : Half[n] \in Nat \ {0}
  BY HalfAssumption
<1>3. CASE t = "BOOLEAN"
  <2>1. asSig(t) = "int" /\ asCapicSig[t] = "bool"
    BY <1>3 DEF asSig, asCapicSig
  <2>2. SizeOf["int"] = 4
    BY DEF SizeOf
  <2>3. v \in {0, 1}
    <3>1. CValues("bool") = {0, 1}
      BY DEF CValues, Unsigned
    <3>2. QED
      BY <2>1, <3>1
  <2>4. Convert(v, "int") = v \/ (v = 1 /\ Convert(v, "int") = 1 - 2 * Half[4])
    BY <2>2, <2>3, <1>2 DEF Convert, Unsigned
  <2>5. Convert(0, "int") = 0
    BY <2>2, <1>2 DEF Convert, Unsigned
  <2>6. v = 1 => Convert(v, "int") # 0 /\ Convert(v, "int") \in Int
    BY <2>4, <1>2
  <2>7. v = 1 => Convert(Convert(v, "int"), "int") # 0
    <3> SUFFICES ASSUME v = 1
                 PROVE  Convert(Convert(v, "int"), "int") # 0
      OBVIOUS
    <3> DEFINE w == Convert(v, "int")
    <3>1. w \in Int /\ w # 0 /\ w < 2 * Half[4]
      BY <2>4, <2>6, <1>2
    <3>2. Convert(w, "int") = w \/ Convert(w, "int") = w - 2 * Half[4]
      BY <2>2, <3>1, <1>2 DEF Convert, Unsigned
    <3>3. QED
      BY <3>1, <3>2, <1>2
  <2>8. \A w : Convert(w, "bool") = IF w = 0 THEN 0 ELSE 1
    BY DEF Convert, Unsigned
  <2>9. QED
    BY <2>1, <2>3, <2>5, <2>7, <2>8
<1>4. CASE t = "FLOAT"
  <2>1. asSig(t) = "double" /\ asCapicSig[t] = "float"
    BY <1>4 DEF asSig, asCapicSig
  <2>2. v = FloatStep * (v \div FloatStep)
    <3>1. CValues("float") = {x \in Int : x = FloatStep * (x \div FloatStep)}
      BY DEF CValues, Unsigned
    <3>2. QED
      BY <2>1, <3>1
  <2>3. /\ \A w : Convert(w, "double") = w
        /\ Convert(v, "float") = FloatStep * (v \div FloatStep)
    BY DEF Convert, Unsigned
  <2>4. QED
    BY <2>1, <2>2, <2>3
<1>5. CASE t = "INT8"
  <2>1. asSig(t) = "uint8_t" /\ asCapicSig[t] = "int8_t"
    BY <1>5 DEF asSig, asCapicSig
  <2>2. SizeOf["uint8_t"] = 1 /\ SizeOf["int8_t"] = 1
    BY DEF SizeOf
  <2>3. v >= -Half[1] /\ v < Half[1]
    BY <2>1, <2>2, <1>1, <1>2 DEF CValues, Unsigned
  <2>4. Convert(v, "uint8_t") = IF v < 0 THEN v + 2 * Half[1] ELSE v
    BY <2>2 DEF Convert, Unsigned
  <2>5. Convert(Convert(v, "uint8_t"), "uint8_t") = Convert(v, "uint8_t")
    <3> DEFINE w == Convert(v, "uint8_t")
    <3>1. w \in Int /\ ~(w < 0)
      BY <2>3, <2>4, <1>1, <1>2
    <3>2. QED
      BY <2>2, <3>1 DEF Convert, Unsigned
  <2>6. Convert(Convert(v, "uint8_t"), "int8_t") = v
    <3> DEFINE w == Convert(v, "uint8_t")
    <3>1. Convert(w, "int8_t") = IF w >= Half[1] THEN w - 2 * Half[1] ELSE w
      BY <2>2 DEF Convert, Unsigned
    <3>2. QED
      BY <3>1, <2>3, <2>4, <1>1, <1>2
  <2>7. QED
    BY <2>1, <2>5, <2>6
<1>6. CASE t \notin {"BOOLEAN", "FLOAT", "INT8"}
  BY <1>6, Unchanged DEF asSig
<1>7. QED
  BY <1>3, <1>4, <1>5, <1>6

-----------------------------------------------------------------------------
\* A message between sides of the same type is read as it was meant.
LEMMA MessageArrives ==
  ASSUME NEW t \in Supported, NEW v \in CValues(asCapicSig[t])
  PROVE  /\ Taken(t, Message(t, v)) = [status |-> "value", value |-> v]
         /\ Returned(t, Message(t, v)) = [status |-> "value", value |-> v]
<1>1. Taken(t, Message(t, v)) = [status |-> "value", value |-> v]
  BY RoundTrip, ReadFits DEF Taken, Read, Message
<1>2. CASE diffBySig(t)
  BY <1>1, <1>2, SuffixMeansVariable DEF Returned
<1>3. CASE ~diffBySig(t)
  <2>1. asSig(t) = asCapicSig[t]
    BY <1>3 DEF diffBySig
  <2>2. Returned(t, Message(t, v)) = Read(Message(t, v), asSdBusSig[t], asCapicSig[t])
    BY <1>3, SuffixMeansVariable DEF Returned
  <2>3. Convert(Convert(v, asSig(t)), asCapicSig[t]) = v
    BY <2>1, Unchanged
  <2>4. QED
    BY <1>1, <2>1, <2>2, <2>3, RoundTrip, ReadFits DEF Taken, Read, Message
<1>4. QED
  BY <1>1, <1>2, <1>3

\* Reading never leaves the memory of its variable, and fails only for the signature.
LEMMA ReadingIsDefined ==
  ASSUME NEW t \in Supported, NEW s \in Supported, NEW v \in Int
  PROVE  /\ Message(s, v) \in [sig : DOMAIN Carrier, value : Int]
         /\ Message(s, v).sig = asSdBusSig[s]
         /\ Taken(t, Message(s, v)) \in [status : {"value", "error"}, value : Int]
         /\ Returned(t, Message(s, v)) \in [status : {"value", "error"}, value : Int]
         /\ Taken(t, Message(s, v)).status = "error" => asSdBusSig[s] # asSdBusSig[t]
         /\ Returned(t, Message(s, v)).status = "error" => asSdBusSig[s] # asSdBusSig[t]
<1> DEFINE m == Message(s, v)
<1>1. m \in [sig : DOMAIN Carrier, value : Int] /\ m.sig = asSdBusSig[s]
  BY ReadFits, ConvertType DEF Message
<1>2. ASSUME NEW c \in {asSig(t), asCapicSig[t]}, SizeOf[c] = SizeOf[asSig(t)]
      PROVE  /\ Read(m, asSdBusSig[t], c) \in [status : {"value", "error"}, value : Int]
             /\ Read(m, asSdBusSig[t], c).status = "error" => asSdBusSig[s] # asSdBusSig[t]
  BY <1>1, <1>2, ReadFits, ConvertType DEF Read
<1>3. /\ Taken(t, m) \in [status : {"value", "error"}, value : Int]
      /\ Taken(t, m).status = "error" => asSdBusSig[s] # asSdBusSig[t]
  BY <1>2, ReadFits, ConvertType DEF Taken
<1>4. CASE diffBySig(t)
  BY <1>1, <1>3, <1>4, SuffixMeansVariable DEF Returned
<1>5. CASE ~diffBySig(t)
  <2>1. asSig(t) = asCapicSig[t]
    BY <1>5 DEF diffBySig
  <2>2. Returned(t, m) = Read(m, asSdBusSig[t], asCapicSig[t])
    BY <1>5, SuffixMeansVariable DEF Returned
  <2>3. QED
    BY <1>1, <1>2, <1>3, <2>1, <2>2
<1>6. QED
  BY <1>4, <1>5

\* The same, for all types and values together.
LEMMA ReadingNeverFails ==
  \A t \in Supported, s \in Supported, v \in Int :
    /\ Taken(t, Message(s, v)) \in [status : {"value", "error"}, value : Int]
    /\ Returned(t, Message(s, v)) \in [status : {"value", "error"}, value : Int]
    /\ (Taken(t, Message(s, v)).status = "error") => (asSdBusSig[s] # asSdBusSig[t])
    /\ (Returned(t, Message(s, v)).status = "error") => (asSdBusSig[s] # asSdBusSig[t])
<1>1. TAKE t \in Supported, s \in Supported, v \in Int
<1>2. QED
  BY ReadingIsDefined

-----------------------------------------------------------------------------
\* Files are only written for types that are supported.
FilesSupported ==
  \A n \in Index, p \in 1 .. 4 : files[n][p] \in Supported \cup {Missing}

\* Once the first file of an interface is written its type is supported.
HeaderPassed ==
  outcome = "running" /\ position.part > 1 => loaded[position.interface] \in Supported

\* What is written so far is of the loaded model.
WrittenSoFar ==
  outcome = "running" =>
    \A n \in Index : failures[n] = 0 =>
      /\ n < position.interface => \A p \in 1 .. 4 : files[n][p] = loaded[n]
      /\ n = position.interface =>
           \A p \in 1 .. 4 : p < position.part => files[n][p] = loaded[n]

\* The message of a call is the value that was sent.
CallFaithful ==
  /\ call # NoCall => /\ call.at \in {"sent", "served", "returned"}
                      /\ call.value \in CValues(asCapicSig[call.client])
  /\ call.at = "sent" => call.message = Message(call.client, call.value)

IInv ==
  /\ TypeOK /\ FilesSupported /\ HeaderPassed /\ WrittenSoFar
  /\ AllOrNothing /\ SuccessIsComplete /\ CallFaithful /\ ValuesArrive

FileInv == FilesSupported /\ HeaderPassed /\ WrittenSoFar /\ AllOrNothing /\ SuccessIsComplete

LEMMA Indexes == Index # {} /\ 1 \in Index /\ Len(Interfaces) \in Nat /\ Len(Interfaces) > 0
BY InterfacesAssumption DEF Index

LEMMA InitIInv == Init => IInv
<1> SUFFICES ASSUME Init PROVE IInv
  OBVIOUS
<1>1. TypeOK
  BY Indexes, BoundsAssumption DEF Init, TypeOK, Start
<1>2. FileInv
  BY DEF Init, FileInv, FilesSupported, HeaderPassed, WrittenSoFar, AllOrNothing,
         SuccessIsComplete
<1>3. CallFaithful /\ ValuesArrive
  BY DEF Init, NoCall, CallFaithful, ValuesArrive
<1>4. QED
  BY <1>1, <1>2, <1>3 DEF IInv, FileInv

\* The types of what a write changes.
LEMMA WrittenTypes ==
  ASSUME TypeOK, NEW contents \in Types \cup {Missing}, Written(contents)
  PROVE  /\ position' \in [interface : 1 .. Len(Interfaces) + 1, part : 1 .. 4]
         /\ outcome' \in {"running", "done"}
         /\ outcome' = "running" => position'.interface \in Index
         /\ files' \in [Index -> [1 .. 4 -> Types \cup {Missing}]]
         /\ model' = model /\ loaded' = loaded /\ edits' = edits /\ call' = call
<1> DEFINE k == position.interface  p == position.part
<1>1. k \in Index /\ p \in 1 .. 4 /\ position = [interface |-> k, part |-> p]
  BY DEF TypeOK, Written
<1>2. files' \in [Index -> [1 .. 4 -> Types \cup {Missing}]]
  BY <1>1 DEF TypeOK, Written
<1>3. CASE p < 4
  <2>1. position' = [interface |-> k, part |-> p + 1]
    BY <1>1, <1>3 DEF Written, Advance
  <2>2. QED
    BY <1>1, <1>2, <1>3, <2>1, Indexes DEF Written, Advance, Index
<1>4. CASE p = 4
  <2>1. position' = [interface |-> k + 1, part |-> 1]
    BY <1>1, <1>4 DEF Written, Advance
  <2>2. outcome' = IF k = Len(Interfaces) THEN "done" ELSE "running"
    BY <1>1, <1>4 DEF Written, Advance
  <2>3. QED
    BY <1>1, <1>2, <2>1, <2>2, Indexes DEF Written, Index
<1>5. QED
  BY <1>1, <1>3, <1>4

\* A file that is written, or fails to be, keeps the invariants of the files.
LEMMA WrittenKeepsFiles ==
  ASSUME IInv, NEW contents \in Supported \cup {Missing},
         contents \in Types \cup {Missing}, Written(contents),
         \A n \in Index : n # position.interface => failures'[n] = failures[n],
         \/ /\ contents = loaded[position.interface]
            /\ position.part = 1 \/ failures'[position.interface] = failures[position.interface]
         \/ failures'[position.interface] # 0
  PROVE  FileInv'
<1> USE DEF IInv
<1> DEFINE k == position.interface  q == position.part
<1>1. k \in Index /\ q \in 1 .. 4 /\ position = [interface |-> k, part |-> q] /\ k \in Nat
  BY Indexes DEF TypeOK, Written, Index
<1>2. loaded' = loaded /\ loaded[k] \in Supported /\ outcome = "running"
  BY <1>1, TypesAssumption DEF Written, Throws, TypeOK
<1>3. /\ files'[k] = [files[k] EXCEPT ![q] = contents]
      /\ \A n \in Index : n # k => files'[n] = files[n]
      /\ \A p \in 1 .. 4 : files'[k][p] = IF p = q THEN contents ELSE files[k][p]
  BY <1>1 DEF TypeOK, Written
<1>4. /\ q < 4 => position' = [interface |-> k, part |-> q + 1] /\ outcome' = "running"
      /\ q = 4 => /\ position' = [interface |-> k + 1, part |-> 1]
                  /\ outcome' = IF k = Len(Interfaces) THEN "done" ELSE "running"
  BY <1>1 DEF Written, Advance
<1>5. FilesSupported'
  <2> SUFFICES ASSUME NEW n \in Index, NEW p \in 1 .. 4
               PROVE  files'[n][p] \in Supported \cup {Missing}
    BY DEF FilesSupported
  <2>1. files[n][p] \in Supported \cup {Missing}
    BY DEF FilesSupported
  <2>2. QED
    BY <1>1, <1>3, <2>1
<1>6. HeaderPassed'
  BY <1>1, <1>2, <1>4 DEF HeaderPassed
<1>7. \A p \in 1 .. 4 : failures'[k] = 0 /\ p <= q => files'[k][p] = loaded[k]
  BY <1>1, <1>2, <1>3 DEF WrittenSoFar
<1>8. \A n \in Index, p \in 1 .. 4 : failures'[n] = 0 /\ n < k => files'[n][p] = loaded[n]
  BY <1>1, <1>2, <1>3 DEF WrittenSoFar, Index
<1>9. WrittenSoFar'
  <2>1. CASE q < 4
    BY <1>1, <1>2, <1>4, <1>7, <1>8, <2>1 DEF WrittenSoFar, Index
  <2>2. CASE q = 4
    BY <1>1, <1>2, <1>4, <1>7, <1>8, <2>2 DEF WrittenSoFar, Index
  <2>3. QED
    BY <1>1, <2>1, <2>2
<1>10. AllOrNothing'
  <2> SUFFICES ASSUME NEW n \in Index, failures'[n] = 0,
                      ~(outcome' = "running" /\ position'.interface = n /\ position'.part > 1),
                      NEW p \in 1 .. 4
               PROVE  files'[n][p] = files'[n][1]
    BY DEF AllOrNothing
  <2>1. CASE n = k
    <3>1. q = 4
      BY <1>1, <1>4, <2>1
    <3>2. QED
      BY <1>7, <2>1, <3>1
  <2>2. CASE n # k
    BY <1>1, <1>3, <2>2 DEF AllOrNothing
  <2>3. QED
    BY <2>1, <2>2
<1>11. SuccessIsComplete'
  <2> SUFFICES ASSUME outcome' = "done", NEW n \in Index, failures'[n] = 0, NEW p \in 1 .. 4
               PROVE  files'[n][p] = loaded'[n]
    BY DEF SuccessIsComplete
  <2>1. q = 4 /\ k = Len(Interfaces)
    BY <1>1, <1>4
  <2>2. QED
    BY <1>2, <1>7, <1>8, <2>1, Indexes DEF Index
<1>12. QED
  BY <1>5, <1>6, <1>9, <1>10, <1>11 DEF FileInv

-----------------------------------------------------------------------------
\* The client and the server of a call.
LEMMA CallTypes ==
  ASSUME TypeOK, call # NoCall
  PROVE  call \in Calls
BY DEF TypeOK

LEMMA NextIInv == IInv /\ [Next]_vars => IInv'
<1> SUFFICES ASSUME IInv, [Next]_vars PROVE IInv'
  OBVIOUS
<1>1. ASSUME NEW n \in Index, NEW t \in Types, Edit(n, t)
      PROVE  IInv'
  <2>1. TypeOK'
    BY <1>1, BoundsAssumption DEF Edit, IInv, TypeOK
  <2>2. FileInv' /\ CallFaithful' /\ ValuesArrive'
    BY <1>1 DEF Edit, IInv, FileInv, FilesSupported, HeaderPassed, WrittenSoFar,
                AllOrNothing, SuccessIsComplete, CallFaithful, ValuesArrive
  <2>3. QED
    BY <2>1, <2>2 DEF IInv, FileInv
<1>2. CASE Load
  <2>1. TypeOK'
    BY <1>2, Indexes DEF Load, IInv, TypeOK, Start
  <2>2. FilesSupported' /\ HeaderPassed' /\ SuccessIsComplete'
    BY <1>2 DEF Load, IInv, FilesSupported, HeaderPassed, SuccessIsComplete, Start
  <2>3. WrittenSoFar'
    BY <1>2 DEF Load, WrittenSoFar, Start, Index
  <2>4. AllOrNothing'
    BY <1>2 DEF Load, IInv, AllOrNothing, Start
  <2>5. CallFaithful' /\ ValuesArrive'
    BY <1>2 DEF Load, IInv, CallFaithful, ValuesArrive
  <2>6. QED
    BY <2>1, <2>2, <2>3, <2>4, <2>5 DEF IInv
<1>3. CASE WriteThrows
  <2>1. TypeOK'
    BY <1>3 DEF WriteThrows, IInv, TypeOK
  <2>2. FilesSupported' /\ HeaderPassed' /\ SuccessIsComplete' /\ WrittenSoFar'
    BY <1>3 DEF WriteThrows, IInv, FilesSupported, HeaderPassed, SuccessIsComplete,
                WrittenSoFar
  <2>3. ~(position.part > 1)
    BY <1>3 DEF WriteThrows, Throws, IInv, HeaderPassed, Supported, Unsupported, asCapicSig
  <2>4. AllOrNothing'
    BY <1>3, <2>3 DEF WriteThrows, IInv, AllOrNothing
  <2>5. CallFaithful' /\ ValuesArrive'
    BY <1>3 DEF WriteThrows, IInv, CallFaithful, ValuesArrive
  <2>6. QED
    BY <2>1, <2>2, <2>4, <2>5 DEF IInv
<1>4. CASE Write
  <2> DEFINE contents == loaded[position.interface]
  <2>1. /\ Written(contents)
        /\ failures' = [failures EXCEPT ![position.interface] = Earlier]
    BY <1>4 DEF Write
  <2>2. /\ position.interface \in Index /\ Earlier \in 0 .. MaxFailures
        /\ failures \in [Index -> 0 .. MaxFailures]
        /\ position.part = 1 \/ Earlier = failures[position.interface]
    BY <2>1, BoundsAssumption DEF Written, IInv, TypeOK, Earlier
  <2>3. /\ failures' \in [Index -> 0 .. MaxFailures]
        /\ failures'[position.interface] = Earlier
        /\ \A n \in Index : n # position.interface => failures'[n] = failures[n]
    BY <2>1, <2>2
  <2>4. contents \in Types /\ contents \in Supported
    BY <2>1, TypesAssumption DEF Written, Throws, IInv, TypeOK
  <2>5. TypeOK'
    <3>1. TypeOK
      BY DEF IInv
    <3>2. QED
      BY <2>1, <2>4, <2>3, <3>1, WrittenTypes DEF TypeOK
  <2>6. FileInv'
    BY <2>1, <2>4, <2>2, <2>3, WrittenKeepsFiles
  <2>7. CallFaithful' /\ ValuesArrive'
    BY <2>1 DEF Written, IInv, CallFaithful, ValuesArrive
  <2>8. QED
    BY <2>5, <2>6, <2>7 DEF IInv, FileInv
<1>5. CASE WriteFails
  <2> DEFINE k == position.interface
  <2>1. k \in Index /\ position.part \in 1 .. 4
    BY <1>5 DEF WriteFails, IInv, TypeOK
  <2>2. PICK contents \in {files[k][position.part], Missing} : Written(contents)
    BY <1>5 DEF WriteFails
  <2>3. contents \in Types \cup {Missing} /\ contents \in Supported \cup {Missing}
    BY <2>1, <2>2 DEF IInv, TypeOK, FilesSupported
  <2>4. /\ failures' \in [Index -> 0 .. MaxFailures]
        /\ failures'[k] # 0
        /\ \A n \in Index : n # k => failures'[n] = failures[n]
    <3>1. failures \in [Index -> 0 .. MaxFailures]
      BY DEF IInv, TypeOK
    <3>2. Earlier + 1 \in 1 .. MaxFailures
      BY <1>5, <2>1, <3>1, BoundsAssumption DEF WriteFails, Earlier
    <3>3. failures' = [failures EXCEPT ![k] = Earlier + 1]
      BY <1>5 DEF WriteFails
    <3>4. QED
      BY <2>1, <3>1, <3>2, <3>3, BoundsAssumption
  <2>5. TypeOK'
    <3>1. TypeOK
      BY DEF IInv
    <3>2. QED
      BY <2>2, <2>3, <2>4, <3>1, WrittenTypes DEF TypeOK
  <2>6. FileInv'
    BY <2>2, <2>3, <2>4, WrittenKeepsFiles
  <2>7. CallFaithful' /\ ValuesArrive'
    BY <2>2 DEF Written, IInv, CallFaithful, ValuesArrive
  <2>8. QED
    BY <2>5, <2>6, <2>7 DEF IInv, FileInv
<1>6. ASSUME NEW n \in Index, NEW kind \in {"sync", "async"}, Call(n, kind)
      PROVE  IInv'
  <2> DEFINE c == files[n][1]  s == files[n][3]
  <2>1. c \in Supported /\ s \in Supported /\ c \in Types
    BY <1>6 DEF Call, Compiles, IInv, FilesSupported, TypeOK
  <2>2. PICK v \in Samples[c] :
          call' = [at |-> "sent", kind |-> kind, client |-> c, server |-> s,
                   value |-> v, message |-> Message(c, v)]
    BY <1>6 DEF Call
  <2>3. v \in CValues(asCapicSig[c]) /\ v \in Int
    BY <2>1, <2>2, SamplesAssumption, ValuesAreInts
  <2>4. Message(c, v) \in [sig : DOMAIN Carrier, value : Int]
    BY <2>1, <2>3, ReadingIsDefined
  <2>5. call' \in Calls
    BY <2>1, <2>2, <2>3, <2>4 DEF Calls
  <2>6. TypeOK'
    BY <1>6, <2>5 DEF Call, IInv, TypeOK
  <2>7. FileInv'
    BY <1>6 DEF Call, IInv, FileInv, FilesSupported, HeaderPassed, WrittenSoFar,
                AllOrNothing, SuccessIsComplete
  <2>8. CallFaithful' /\ ValuesArrive'
    BY <2>2, <2>3 DEF CallFaithful, ValuesArrive
  <2>9. QED
    BY <2>6, <2>7, <2>8 DEF IInv, FileInv
<1>7. CASE Serve
  <2> DEFINE c == call.client  s == call.server  v == call.value
  <2>1. call # NoCall /\ call \in Calls
    BY <1>7 DEF Serve, NoCall, IInv, TypeOK
  <2>2. c \in Supported /\ s \in Supported /\ v \in Int /\ call.kind \in {"sync", "async"}
    BY <2>1 DEF Calls
  <2>3. call.message = Message(c, v) /\ v \in CValues(asCapicSig[c])
    BY <1>7, <2>1 DEF Serve, IInv, CallFaithful
  <2>4. call' = [at |-> "served", kind |-> call.kind, client |-> c, server |-> s,
                 value |-> v, got |-> Taken(s, Message(c, v))]
    BY <1>7, <2>3 DEF Serve
  <2>5. /\ Taken(s, Message(c, v)) \in [status : {"value", "error"}, value : Int]
        /\ Taken(s, Message(c, v)).status = "error" => asSdBusSig[c] # asSdBusSig[s]
    <3> HIDE DEF c, s, v
    <3>1. QED
      BY <2>2, ReadingNeverFails
  <2>6. c = s => Taken(s, Message(c, v)) = [status |-> "value", value |-> v]
    BY <2>2, <2>3, MessageArrives
  <2>7. call' \in Calls
    BY <2>2, <2>4, <2>5 DEF Calls, Status
  <2>8. CallFaithful'
    BY <2>3, <2>4 DEF CallFaithful
  <2>9. ValuesArrive'
    BY <2>4, <2>5, <2>6 DEF ValuesArrive
  <2>10. TypeOK'
    BY <1>7, <2>7 DEF Serve, IInv, TypeOK
  <2>11. FileInv'
    BY <1>7 DEF Serve, IInv, FileInv, FilesSupported, HeaderPassed, WrittenSoFar,
                AllOrNothing, SuccessIsComplete
  <2>12. QED
    BY <2>8, <2>9, <2>10, <2>11 DEF IInv, FileInv
<1>8. CASE Return
  <2> DEFINE c == call.client  s == call.server  v == call.value
             m == Message(s, call.got.value)
             got == IF call.kind = "sync" THEN Returned(c, m) ELSE Taken(c, m)
  <2>1. call # NoCall /\ call \in Calls /\ call.at = "served"
    BY <1>8 DEF Return, NoCall, IInv, TypeOK
  <2>2. /\ c \in Supported /\ s \in Supported /\ v \in Int /\ call.kind \in {"sync", "async"}
        /\ call.got.value \in Int
    BY <2>1 DEF Calls
  <2>3. v \in CValues(asCapicSig[c]) /\ (c = s => call.got.value = v)
    BY <2>1 DEF IInv, CallFaithful, ValuesArrive
  <2>4. call' = [at |-> "returned", kind |-> call.kind, client |-> c, server |-> s,
                 value |-> v, got |-> got]
    BY <1>8 DEF Return
  <2>5. /\ got \in [status : {"value", "error"}, value : Int]
        /\ got.status = "error" => asSdBusSig[c] # asSdBusSig[s]
    <3> DEFINE w == call.got.value
    <3>1. w \in Int
      BY <2>2
    <3> HIDE DEF c, s, w
    <3>2. /\ Taken(c, Message(s, w)) \in [status : {"value", "error"}, value : Int]
          /\ Returned(c, Message(s, w)) \in [status : {"value", "error"}, value : Int]
          /\ Taken(c, Message(s, w)).status = "error" => asSdBusSig[s] # asSdBusSig[c]
          /\ Returned(c, Message(s, w)).status = "error" => asSdBusSig[s] # asSdBusSig[c]
      BY <2>2, <3>1, ReadingNeverFails
    <3>3. QED
      BY <3>2 DEF w
  <2>6. c = s => got = [status |-> "value", value |-> v]
    BY <2>2, <2>3, MessageArrives
  <2>7. call' \in Calls
    BY <2>2, <2>4, <2>5 DEF Calls, Status
  <2>8. CallFaithful'
    BY <2>3, <2>4 DEF CallFaithful
  <2>9. ValuesArrive'
    BY <2>4, <2>5, <2>6 DEF ValuesArrive
  <2>10. TypeOK'
    BY <1>8, <2>7 DEF Return, IInv, TypeOK
  <2>11. FileInv'
    BY <1>8 DEF Return, IInv, FileInv, FilesSupported, HeaderPassed, WrittenSoFar,
                AllOrNothing, SuccessIsComplete
  <2>12. QED
    BY <2>8, <2>9, <2>10, <2>11 DEF IInv, FileInv
<1>9. CASE End
  <2>1. TypeOK'
    BY <1>9 DEF End, IInv, TypeOK
  <2>2. FileInv'
    BY <1>9 DEF End, IInv, FileInv, FilesSupported, HeaderPassed, WrittenSoFar,
                AllOrNothing, SuccessIsComplete
  <2>3. CallFaithful' /\ ValuesArrive'
    BY <1>9 DEF End, NoCall, CallFaithful, ValuesArrive
  <2>4. QED
    BY <2>1, <2>2, <2>3 DEF IInv, FileInv
<1>10. CASE UNCHANGED vars
  <2>1. TypeOK'
    BY <1>10 DEF vars, IInv, TypeOK
  <2>2. FileInv'
    BY <1>10 DEF vars, IInv, FileInv, FilesSupported, HeaderPassed, WrittenSoFar,
                 AllOrNothing, SuccessIsComplete
  <2>3. CallFaithful' /\ ValuesArrive'
    BY <1>10 DEF vars, IInv, CallFaithful, ValuesArrive
  <2>4. QED
    BY <2>1, <2>2, <2>3 DEF IInv, FileInv
<1>11. CASE LoadFails
  <2>1. TypeOK'
    BY <1>11 DEF LoadFails, IInv, TypeOK
  <2>2. FileInv'
    BY <1>11 DEF LoadFails, IInv, FileInv, FilesSupported, HeaderPassed, WrittenSoFar,
                 AllOrNothing, SuccessIsComplete
  <2>3. CallFaithful' /\ ValuesArrive'
    BY <1>11 DEF LoadFails, IInv, CallFaithful, ValuesArrive
  <2>4. QED
    BY <2>1, <2>2, <2>3 DEF IInv, FileInv
<1>12. QED
  BY <1>1, <1>2, <1>3, <1>4, <1>5, <1>6, <1>7, <1>8, <1>9, <1>10, <1>11 DEF Next

LEMMA Invariance == Spec => []IInv
BY InitIInv, NextIInv, PTL DEF Spec

\* The generator and the calls between its products keep their types.
THEOREM TypeCorrect == Spec => []TypeOK
<1>1. IInv => TypeOK
  BY DEF IInv
<1>2. QED
  BY <1>1, Invariance, PTL

\* An unsupported type leaves no interface with files of two revisions.
THEOREM InterfacesStayWhole == Spec => []AllOrNothing
<1>1. IInv => AllOrNothing
  BY DEF IInv
<1>2. QED
  BY <1>1, Invariance, PTL

\* A run of the generator that ends without an exception has written every file.
THEOREM RunsAreComplete == Spec => []SuccessIsComplete
<1>1. IInv => SuccessIsComplete
  BY DEF IInv
<1>2. QED
  BY <1>1, Invariance, PTL

\* The values of all supported types arrive and come back unchanged.
THEOREM MappingIsFaithful == Spec => []ValuesArrive
<1>1. IInv => ValuesArrive
  BY DEF IInv
<1>2. QED
  BY <1>1, Invariance, PTL

=============================================================================
