------------------------------- MODULE Address -------------------------------
(***************************************************************************)
(* How cc_instance_new takes an address "service:path:interface" apart, in *)
(* place: two colons of its copy are overwritten with NUL and three        *)
(* pointers into the copy are kept, from which the rest of the code reads  *)
(* C strings.                                                              *)
(***************************************************************************)
EXTENDS Naturals, Sequences, FiniteSetsExt

Colon == ":"
NUL == "NUL"

Texts(letters, longest) == UNION {[1..n -> letters \cup {Colon}] : n \in 0..longest}

Colons(text, from) == {i \in from..Len(text) : text[i] = Colon}

\* Everything up to the first NUL or the end.
CString(text, from) ==
  SubSeq(text, from, Min({i \in from..Len(text) : text[i] = NUL} \cup {Len(text) + 1}) - 1)

Refused == [result |-> "EINVAL"]

\* Faulty: the next field starts at the colon, not behind it.
CutAtColon(text, from) ==
  LET colon == Min(Colons(text, from))
  IN  [text |-> [text EXCEPT ![colon] = NUL], next |-> colon]

\* strchr for the next colon, which ends one field and starts the next.
Cut(text, from) ==
  LET colon == Min(Colons(text, from))
  IN  [text |-> [text EXCEPT ![colon] = NUL], next |-> colon + 1]

\* The parsing in cc_instance_new: two cuts; what follows the second one is the
\* interface, further colons included.
Parse(text) ==
  IF Colons(text, 1) = {} THEN Refused
  ELSE LET s == Cut(text, 1)
       IN  IF Colons(s.text, s.next) = {} THEN Refused
           ELSE LET p == Cut(s.text, s.next)
                IN  [result |-> "ok", address |-> p.text,
                     service |-> 1, path |-> s.next, interface |-> p.next]

\* instance->service, as the bus reads it.
ServiceOf(text) == CString(Parse(text).address, Parse(text).service)

-----------------------------------------------------------------------------
\* The three C strings, put together again, are the address that was given, and
\* the service and the path hold no colon: no character is lost to the NULs that
\* cc_instance_new writes into its copy.
FieldsMake(text) ==
  LET i == Parse(text)
      s == CString(i.address, i.service)
      p == CString(i.address, i.path)
  IN  /\ text = s \o <<Colon>> \o p \o <<Colon>> \o CString(i.address, i.interface)
      /\ Colons(s, 1) = {} /\ Colons(p, 1) = {}

\* The address has fewer than two colons.
Incomplete(text) == \E a \in 0..Len(text) : Colons(text, 1) \subseteq {a}
=============================================================================
