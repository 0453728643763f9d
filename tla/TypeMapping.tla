----------------------------- MODULE TypeMapping -----------------------------
(***************************************************************************)
(* The type mapping of the code generator: which C type, which suffix and  *)
(* which wire signature XGenerator gives to a basic type of Franca IDL,    *)
(* and what the generated expressions do to a value on its way through a   *)
(* client and a server.                                                    *)
(*                                                                         *)
(* Numbers are scaled: an integer of n bytes takes 2 * Half[n] values, and *)
(* of the doubles, here integers, every FloatStep-th one is a float.       *)
(***************************************************************************)
EXTENDS Integers

CONSTANTS Half, FloatStep

ASSUME HalfAssumption == Half \in [{1, 2, 4, 8} -> Nat \ {0}]
ASSUME FloatAssumption == FloatStep \in Nat \ {0}

\* The C type of a basic type in the interface of the stubs.
asCapicSig ==
  [BOOLEAN |-> "bool",
   INT8 |-> "int8_t", INT16 |-> "int16_t", INT32 |-> "int32_t", INT64 |-> "int64_t",
   UINT8 |-> "uint8_t", UINT16 |-> "uint16_t", UINT32 |-> "uint32_t",
   UINT64 |-> "uint64_t", FLOAT |-> "float", DOUBLE |-> "double"]

\* The other types make asCapicSig throw an exception.
Supported == DOMAIN asCapicSig
Unsupported == {"UNDEFINED", "STRING", "BYTE_BUFFER"}

\* Faulty: the variable has the type of the argument, also for a float.
FloatAsIs(t) ==
  CASE t = "BOOLEAN" -> "int"
    [] t = "INT8" -> "uint8_t"
    [] OTHER -> asCapicSig[t]

\* The C type of the variable that sd_bus_message_read writes to.
asSig(t) ==
  CASE t = "BOOLEAN" -> "int"
    [] t = "FLOAT" -> "double"
    [] t = "INT8" -> "uint8_t"
    [] OTHER -> asCapicSig[t]

\* The signature of the type in a message.
asSdBusSig ==
  [BOOLEAN |-> "b", INT8 |-> "y", INT16 |-> "n", INT32 |-> "i", INT64 |-> "x",
   UINT8 |-> "y", UINT16 |-> "q", UINT32 |-> "u", UINT64 |-> "t",
   FLOAT |-> "d", DOUBLE |-> "d"]

-----------------------------------------------------------------------------
\* What sd-bus appends and reads for a signature.
Carrier ==
  [b |-> "int", y |-> "uint8_t", n |-> "int16_t", i |-> "int32_t", x |-> "int64_t",
   q |-> "uint16_t", u |-> "uint32_t", t |-> "uint64_t", d |-> "double"]

\* The size of C types in bytes.
SizeOf ==
  [bool |-> 1, int |-> 4, int8_t |-> 1, int16_t |-> 2, int32_t |-> 4, int64_t |-> 8,
   uint8_t |-> 1, uint16_t |-> 2, uint32_t |-> 4, uint64_t |-> 8,
   float |-> 4, double |-> 8]

Unsigned == {"uint8_t", "uint16_t", "uint32_t", "uint64_t"}
Signed == {"int", "int8_t", "int16_t", "int32_t", "int64_t"}

\* The values of a C type.
CValues(c) ==
  CASE c = "bool" -> {0, 1}
    [] c = "float" -> {x \in Int : x = FloatStep * (x \div FloatStep)}
    [] c = "double" -> Int
    [] c \in Unsigned -> 0 .. 2 * Half[SizeOf[c]] - 1
    [] OTHER -> -Half[SizeOf[c]] .. Half[SizeOf[c]] - 1

\* The value v as a value of C type c; integers come from a type of c's size.
Convert(v, c) ==
  CASE c = "bool" -> IF v = 0 THEN 0 ELSE 1
    [] c = "float" -> FloatStep * (v \div FloatStep)
    [] c = "double" -> v
    [] c \in Unsigned -> IF v < 0 THEN v + 2 * Half[SizeOf[c]] ELSE v
    [] OTHER -> IF v >= Half[SizeOf[c]] THEN v - 2 * Half[SizeOf[c]] ELSE v

-----------------------------------------------------------------------------
\* The message for argument v of type t: asRVal casts it for the bus.
Message(t, v) == [sig |-> asSdBusSig[t], value |-> Convert(v, asSig(t))]

\* Reading a message into a variable of C type c: refused for another signature,
\* and undefined when sd-bus writes more or fewer bytes than the variable has.
Read(message, sig, c) ==
  [status |-> IF message.sig # sig THEN "error"
              ELSE IF SizeOf[Carrier[sig]] = SizeOf[c] THEN "value" ELSE "undefined",
   value |-> Convert(message.value, c)]

\* A variable of its own for the argument, whose value is then cast back: what
\* server thunks do for input and reply thunks for output arguments.
Taken(t, message) ==
  LET read == Read(message, asSdBusSig[t], asSig(t))
  IN  [read EXCEPT !.value = Convert(@, asCapicSig[t])]

\* The output arguments for which a synchronous call declares a variable.
diffBySig(t) == asSig(t) # asCapicSig[t]

\* The arguments whose reference is that of a variable with a suffix.
HasSuffix(t) == t \in {"BOOLEAN", "FLOAT", "INT8"}

\* A synchronous call reads through the caller's pointer or through a variable,
\* and copies the variables it declared. One it reads but has not declared does
\* not compile; one it declared and has not read is copied uninitialized.
Returned(t, message) ==
  IF HasSuffix(t) # diffBySig(t) THEN [status |-> "undefined", value |-> 0]
  ELSE IF diffBySig(t) THEN Taken(t, message)
  ELSE Read(message, asSdBusSig[t], asCapicSig[t])

=============================================================================
