----------------------------- MODULE StubProofs -----------------------------
(***************************************************************************)
(* The bookkeeping of a generated client instance is right for any set of  *)
(* methods and any number of calls.                                        *)
(***************************************************************************)
EXTENDS Stub, TLAPS

-----------------------------------------------------------------------------
(* Type correctness.                                                       *)

\* What happens to the queue of replies keeps it a queue of replies.
LEMMA InboxType ==
  ASSUME NEW q \in Seq(CallIds \X {"value", "error"})
  PROVE  /\ \A i \in DOMAIN q : RemoveAt(q, i) \in Seq(CallIds \X {"value", "error"})
         /\ q # <<>> => /\ Tail(q) \in Seq(CallIds \X {"value", "error"})
                        /\ Head(q) \in CallIds \X {"value", "error"}
<1>1. ASSUME NEW i \in DOMAIN q PROVE RemoveAt(q, i) \in Seq(CallIds \X {"value", "error"})
  BY DEF RemoveAt
<1> QED
  BY <1>1

LEMMA TypeStep == TypeOK /\ [Next]_vars => TypeOK'
<1> SUFFICES ASSUME TypeOK, [Next]_vars PROVE TypeOK'
  OBVIOUS
<1> USE MaxCallsAssumption DEF TypeOK, CallIds, Outcomes, clientVars
<1>1. CASE New
  BY <1>1 DEF New
<1>2. CASE Free
  BY <1>2 DEF Free
<1>3. CASE SyncReturn
  <2>1. PICK i \in DOMAIN inbox :
          /\ outcome' = [outcome EXCEPT ![blocked] =
                           IF inbox[i][2] = "value" THEN "answered" ELSE "failed"]
          /\ inbox' = RemoveAt(inbox, i)
    BY <1>3 DEF SyncReturn
  <2>2. inbox' \in Seq(CallIds \X {"value", "error"})
    BY <2>1, InboxType
  <2>3. outcome' \in [CallIds -> Outcomes]
    BY <2>1
  <2> QED
    BY <1>3, <2>2, <2>3 DEF SyncReturn
<1>4. CASE SyncTimeout
  BY <1>4 DEF SyncTimeout
<1>5. CASE ReplyValue
  BY <1>5, InboxType DEF ReplyValue
<1>6. CASE CallbackReturn
  BY <1>6 DEF CallbackReturn, Finish
<1>7. CASE ReplyError
  BY <1>7, InboxType DEF ReplyError, Fail, Finish
<1>8. CASE Discard
  BY <1>8, InboxType DEF Discard
<1>9. ASSUME NEW m \in Methods, Async(m) PROVE TypeOK'
  BY <1>9 DEF Async, InUserCode, Transmit
<1>10. ASSUME NEW m \in Methods, Sync(m) PROVE TypeOK'
  BY <1>10 DEF Sync, InUserCode, Transmit
<1>11. ASSUME NEW m \in Methods, Timeout(m) PROVE TypeOK'
  BY <1>11 DEF Timeout, Fail, Finish
<1>12. ASSUME NEW c \in CallIds, Serve(c) PROVE TypeOK'
  <2>1. PICK replies \in {<< <<c, "value">> >>, << <<c, "error">> >>,
                          << <<c, "error">>, <<c, "error">> >>} : Answer(c, replies)
    BY <1>12 DEF Serve, ServeValue, ServeFailure, ServeRefusal
  <2>2. replies \in Seq(CallIds \X {"value", "error"})
    <3>1. /\ <<c, "value">> \in CallIds \X {"value", "error"}
          /\ <<c, "error">> \in CallIds \X {"value", "error"}
      BY <1>12
    <3>2. ASSUME NEW S, NEW x \in S, NEW y \in S
          PROVE  <<x>> \in Seq(S) /\ <<y>> \in Seq(S) /\ <<y, y>> \in Seq(S)
      OBVIOUS
    <3> HIDE DEF CallIds
    <3> QED
      BY ONLY <2>1, <3>1, <3>2
  <2>3. inbox' \in Seq(CallIds \X {"value", "error"})
    BY <2>1, <2>2 DEF Answer
  <2> QED
    BY <2>1, <2>3 DEF Answer
<1>13. CASE UNCHANGED vars
  BY <1>13 DEF vars
<1> QED
  BY <1>1, <1>2, <1>3, <1>4, <1>5, <1>6, <1>7, <1>8, <1>9, <1>10, <1>11, <1>12, <1>13 DEF
    Next, User, Client

-----------------------------------------------------------------------------
(***************************************************************************)
(* The inductive invariant: the promises of Stub, with what the numbers of *)
(* the calls, the slots and the outcomes have to do with each other.       *)
(***************************************************************************)

\* Calls are numbered in the order they are sent.
CallsNumbered == \A c \in CallIds : c > sent <=> outcome[c] = "unused"

\* Without an instance there is nothing to reply to.
NothingWhenFreed == ~ready => blocked = 0 /\ thunk = Idle /\ \A m \in Methods : slot[m] = 0

\* The call of a slot is open and registered until its callback is invoked.
SlotsOpen ==
  \A m \in Methods : slot[m] # 0 =>
    IF thunk = m
    THEN outcome[slot[m]] = "answered" /\ <<slot[m], m>> \notin table
    ELSE outcome[slot[m]] = "open" /\ <<slot[m], m>> \in table

\* No two methods wait for the same call.
SlotsDistinct ==
  \A m, n \in Methods : slot[m] = slot[n] /\ slot[m] # 0 => m = n

\* The blocking call is open and has no slot.
BlockedOpen ==
  blocked # 0 => outcome[blocked] = "open" /\ \A m \in Methods : slot[m] # blocked

Books == /\ CallsNumbered /\ NothingWhenFreed /\ SlotsOpen /\ SlotsDistinct /\ BlockedOpen
         /\ SlotHasItsCallback /\ NoStaleReply /\ OpenCallsTracked

IInv == TypeOK /\ Books

LEMMA InitIInv == Init => IInv
<1> SUFFICES ASSUME Init PROVE IInv
  OBVIOUS
<1> USE MaxCallsAssumption, IdleAssumption DEF Init, CallIds
<1>1. TypeOK
  <2>1. ready \in BOOLEAN
    BY Zenon
  <2>2. inbox \in Seq(CallIds \X {"value", "error"})
    OBVIOUS
  <2>3. slot \in [Methods -> {0} \cup CallIds] /\ callback \in [Methods -> {0} \cup CallIds]
    OBVIOUS
  <2> QED
    BY <2>1, <2>2, <2>3 DEF TypeOK, Outcomes
<1>2. CallsNumbered
  BY DEF CallsNumbered
<1>3. NothingWhenFreed /\ SlotsOpen /\ SlotsDistinct
  BY DEF NothingWhenFreed, SlotsOpen, SlotsDistinct
<1>4. BlockedOpen /\ SlotHasItsCallback /\ NoStaleReply /\ OpenCallsTracked
  BY DEF BlockedOpen, SlotHasItsCallback, NoStaleReply, OpenCallsTracked
<1> QED
  BY <1>1, <1>2, <1>3, <1>4 DEF IInv, Books

\* A call not made yet is in no slot.
LEMMA SlotsAreOld ==
  ASSUME IInv PROVE \A m \in Methods : slot[m] # sent + 1
<1> SUFFICES ASSUME NEW m \in Methods, slot[m] = sent + 1 PROVE FALSE
  OBVIOUS
<1>1. sent \in Nat /\ slot[m] \in CallIds /\ slot[m] # 0 /\ slot[m] > sent
  BY MaxCallsAssumption DEF IInv, TypeOK, CallIds
<1>2. outcome[slot[m]] # "unused"
  BY <1>1 DEF IInv, Books, SlotsOpen
<1> QED
  BY <1>1, <1>2 DEF IInv, Books, CallsNumbered

\* A method has at most one registered handler.
LEMMA HandlersDistinct ==
  ASSUME IInv, NEW e \in table, NEW f \in table, e[2] = f[2] PROVE e = f
<1>1. e = <<e[1], e[2]>> /\ f = <<f[1], f[2]>>
  BY DEF IInv, TypeOK
<1>2. e[2] \in Methods /\ e[1] = slot[e[2]] /\ f[1] = slot[f[2]]
  BY DEF IInv, TypeOK, Books, NoStaleReply
<1> QED
  BY <1>1, <1>2

LEMMA BooksStep ==
  ASSUME IInv, [Next]_vars, TypeOK' PROVE Books'
<1> USE MaxCallsAssumption, IdleAssumption DEF IInv, Books, TypeOK, CallIds, clientVars
<1>1. CASE New
  <2>1. CallsNumbered'
    BY <1>1 DEF New, CallsNumbered, NothingWhenFreed, SlotsOpen, SlotsDistinct, BlockedOpen,
      SlotHasItsCallback, NoStaleReply
  <2>2. NothingWhenFreed'
    BY <1>1 DEF New, CallsNumbered, NothingWhenFreed, SlotsOpen, SlotsDistinct, BlockedOpen,
      SlotHasItsCallback, NoStaleReply
  <2>3. SlotsOpen'
    BY <1>1 DEF New, CallsNumbered, NothingWhenFreed, SlotsOpen, SlotsDistinct, BlockedOpen,
      SlotHasItsCallback, NoStaleReply
  <2>4. SlotsDistinct'
    BY <1>1 DEF New, CallsNumbered, NothingWhenFreed, SlotsOpen, SlotsDistinct, BlockedOpen,
      SlotHasItsCallback, NoStaleReply
  <2>5. BlockedOpen'
    BY <1>1 DEF New, CallsNumbered, NothingWhenFreed, SlotsOpen, SlotsDistinct, BlockedOpen,
      SlotHasItsCallback, NoStaleReply
  <2>6. SlotHasItsCallback'
    BY <1>1 DEF New, CallsNumbered, NothingWhenFreed, SlotsOpen, SlotsDistinct, BlockedOpen,
      SlotHasItsCallback, NoStaleReply
  <2>7. NoStaleReply'
    BY <1>1 DEF New, CallsNumbered, NothingWhenFreed, SlotsOpen, SlotsDistinct, BlockedOpen,
      SlotHasItsCallback, NoStaleReply
  <2>8. OpenCallsTracked'
    BY <1>1 DEF New, OpenCallsTracked, CallsNumbered, NothingWhenFreed,
      SlotsOpen, SlotsDistinct, BlockedOpen, SlotHasItsCallback, NoStaleReply
  <2> QED
    BY <2>1, <2>2, <2>3, <2>4, <2>5, <2>6, <2>7, <2>8
<1>2. CASE Free
  <2>1. CallsNumbered'
    <3>1. ASSUME NEW m \in Methods, slot[m] # 0 PROVE outcome[slot[m]] = "open"
      BY <1>2, <3>1 DEF Free, SlotsOpen
    <3>2. ASSUME NEW c \in CallIds PROVE (c > sent)' <=> outcome'[c] = "unused"
      <4>1. CASE \E m \in Methods : slot[m] = c
        <5>1. outcome'[c] = "cancelled"
          BY <1>2, <4>1 DEF Free
        <5>2. PICK m \in Methods : slot[m] = c /\ slot[m] # 0
          BY <4>1, <3>2
        <5>3. outcome[c] = "open"
          BY <5>2, <3>1
        <5> QED
          BY <1>2, <5>1, <5>3, <3>2 DEF Free, CallsNumbered
      <4>2. CASE ~ \E m \in Methods : slot[m] = c
        BY <1>2, <4>2, <3>2 DEF Free, CallsNumbered
      <4> QED
        BY <4>1, <4>2
    <3> QED
      BY <3>2 DEF CallsNumbered
  <2>2. NothingWhenFreed'
    BY <1>2 DEF Free, CallsNumbered, NothingWhenFreed, SlotsOpen, SlotsDistinct,
      BlockedOpen, SlotHasItsCallback, NoStaleReply
  <2>3. SlotsOpen'
    BY <1>2 DEF Free, CallsNumbered, NothingWhenFreed, SlotsOpen, SlotsDistinct,
      BlockedOpen, SlotHasItsCallback, NoStaleReply
  <2>4. SlotsDistinct'
    BY <1>2 DEF Free, CallsNumbered, NothingWhenFreed, SlotsOpen, SlotsDistinct,
      BlockedOpen, SlotHasItsCallback, NoStaleReply
  <2>5. BlockedOpen'
    BY <1>2 DEF Free, CallsNumbered, NothingWhenFreed, SlotsOpen, SlotsDistinct,
      BlockedOpen, SlotHasItsCallback, NoStaleReply
  <2>6. SlotHasItsCallback'
    BY <1>2 DEF Free, CallsNumbered, NothingWhenFreed, SlotsOpen, SlotsDistinct,
      BlockedOpen, SlotHasItsCallback, NoStaleReply
  <2>7. NoStaleReply'
    BY <1>2 DEF Free, CallsNumbered, NothingWhenFreed, SlotsOpen, SlotsDistinct,
      BlockedOpen, SlotHasItsCallback, NoStaleReply
  <2>8. OpenCallsTracked'
    BY <1>2 DEF Free, OpenCallsTracked, CallsNumbered, NothingWhenFreed,
      SlotsOpen, SlotsDistinct, BlockedOpen, SlotHasItsCallback, NoStaleReply
  <2> QED
    BY <2>1, <2>2, <2>3, <2>4, <2>5, <2>6, <2>7, <2>8
<1>3. CASE SyncReturn
  <2>1. CallsNumbered'
    BY <1>3 DEF SyncReturn, CallsNumbered, NothingWhenFreed, SlotsOpen, SlotsDistinct,
      BlockedOpen, SlotHasItsCallback, NoStaleReply
  <2>2. NothingWhenFreed'
    BY <1>3 DEF SyncReturn, CallsNumbered, NothingWhenFreed, SlotsOpen, SlotsDistinct,
      BlockedOpen, SlotHasItsCallback, NoStaleReply
  <2>3. SlotsOpen'
    BY <1>3 DEF SyncReturn, CallsNumbered, NothingWhenFreed, SlotsOpen, SlotsDistinct,
      BlockedOpen, SlotHasItsCallback, NoStaleReply
  <2>4. SlotsDistinct'
    BY <1>3 DEF SyncReturn, CallsNumbered, NothingWhenFreed, SlotsOpen, SlotsDistinct,
      BlockedOpen, SlotHasItsCallback, NoStaleReply
  <2>5. BlockedOpen'
    BY <1>3 DEF SyncReturn, CallsNumbered, NothingWhenFreed, SlotsOpen, SlotsDistinct,
      BlockedOpen, SlotHasItsCallback, NoStaleReply
  <2>6. SlotHasItsCallback'
    BY <1>3 DEF SyncReturn, CallsNumbered, NothingWhenFreed, SlotsOpen, SlotsDistinct,
      BlockedOpen, SlotHasItsCallback, NoStaleReply
  <2>7. NoStaleReply'
    BY <1>3 DEF SyncReturn, CallsNumbered, NothingWhenFreed, SlotsOpen, SlotsDistinct,
      BlockedOpen, SlotHasItsCallback, NoStaleReply
  <2>8. OpenCallsTracked'
    <3>1. \A c \in CallIds : outcome'[c] = "open" => outcome[c] = "open" /\ c # blocked
      BY <1>3 DEF SyncReturn
    <3> QED
      BY <1>3, <3>1 DEF SyncReturn, OpenCallsTracked
  <2> QED
    BY <2>1, <2>2, <2>3, <2>4, <2>5, <2>6, <2>7, <2>8
<1>4. CASE SyncTimeout
  <2>1. CallsNumbered'
    BY <1>4 DEF SyncTimeout, CallsNumbered, NothingWhenFreed, SlotsOpen, SlotsDistinct,
      BlockedOpen, SlotHasItsCallback, NoStaleReply
  <2>2. NothingWhenFreed'
    BY <1>4 DEF SyncTimeout, CallsNumbered, NothingWhenFreed, SlotsOpen, SlotsDistinct,
      BlockedOpen, SlotHasItsCallback, NoStaleReply
  <2>3. SlotsOpen'
    BY <1>4 DEF SyncTimeout, CallsNumbered, NothingWhenFreed, SlotsOpen, SlotsDistinct,
      BlockedOpen, SlotHasItsCallback, NoStaleReply
  <2>4. SlotsDistinct'
    BY <1>4 DEF SyncTimeout, CallsNumbered, NothingWhenFreed, SlotsOpen, SlotsDistinct,
      BlockedOpen, SlotHasItsCallback, NoStaleReply
  <2>5. BlockedOpen'
    BY <1>4 DEF SyncTimeout, CallsNumbered, NothingWhenFreed, SlotsOpen, SlotsDistinct,
      BlockedOpen, SlotHasItsCallback, NoStaleReply
  <2>6. SlotHasItsCallback'
    BY <1>4 DEF SyncTimeout, CallsNumbered, NothingWhenFreed, SlotsOpen, SlotsDistinct,
      BlockedOpen, SlotHasItsCallback, NoStaleReply
  <2>7. NoStaleReply'
    BY <1>4 DEF SyncTimeout, CallsNumbered, NothingWhenFreed, SlotsOpen, SlotsDistinct,
      BlockedOpen, SlotHasItsCallback, NoStaleReply
  <2>8. OpenCallsTracked'
    BY <1>4 DEF SyncTimeout, OpenCallsTracked, CallsNumbered, NothingWhenFreed,
      SlotsOpen, SlotsDistinct, BlockedOpen, SlotHasItsCallback, NoStaleReply
  <2> QED
    BY <2>1, <2>2, <2>3, <2>4, <2>5, <2>6, <2>7, <2>8
<1>5. CASE ReplyValue
  <2>1. CallsNumbered'
    BY <1>5 DEF ReplyValue, InLoop, CallsNumbered, NothingWhenFreed, SlotsOpen,
      SlotsDistinct, BlockedOpen, SlotHasItsCallback, NoStaleReply
  <2>2. NothingWhenFreed'
    BY <1>5 DEF ReplyValue, InLoop, CallsNumbered, NothingWhenFreed, SlotsOpen,
      SlotsDistinct, BlockedOpen, SlotHasItsCallback, NoStaleReply
  <2>3. SlotsOpen'
    BY <1>5 DEF ReplyValue, InLoop, CallsNumbered, NothingWhenFreed, SlotsOpen,
      SlotsDistinct, BlockedOpen, SlotHasItsCallback, NoStaleReply
  <2>4. SlotsDistinct'
    BY <1>5 DEF ReplyValue, InLoop, CallsNumbered, NothingWhenFreed, SlotsOpen,
      SlotsDistinct, BlockedOpen, SlotHasItsCallback, NoStaleReply
  <2>5. BlockedOpen'
    BY <1>5 DEF ReplyValue, InLoop, CallsNumbered, NothingWhenFreed, SlotsOpen,
      SlotsDistinct, BlockedOpen, SlotHasItsCallback, NoStaleReply
  <2>6. SlotHasItsCallback'
    BY <1>5 DEF ReplyValue, InLoop, CallsNumbered, NothingWhenFreed, SlotsOpen,
      SlotsDistinct, BlockedOpen, SlotHasItsCallback, NoStaleReply
  <2>7. NoStaleReply'
    BY <1>5 DEF ReplyValue, InLoop, CallsNumbered, NothingWhenFreed, SlotsOpen,
      SlotsDistinct, BlockedOpen, SlotHasItsCallback, NoStaleReply
  <2>8. OpenCallsTracked'
    BY <1>5 DEF ReplyValue, InLoop, OpenCallsTracked, CallsNumbered, NothingWhenFreed,
      SlotsOpen, SlotsDistinct, BlockedOpen, SlotHasItsCallback, NoStaleReply
  <2> QED
    BY <2>1, <2>2, <2>3, <2>4, <2>5, <2>6, <2>7, <2>8
<1>6. CASE CallbackReturn
  <2>1. CallsNumbered'
    BY <1>6 DEF CallbackReturn, Finish, CallsNumbered, NothingWhenFreed, SlotsOpen,
      SlotsDistinct, BlockedOpen, SlotHasItsCallback, NoStaleReply
  <2>2. NothingWhenFreed'
    BY <1>6 DEF CallbackReturn, Finish, CallsNumbered, NothingWhenFreed, SlotsOpen,
      SlotsDistinct, BlockedOpen, SlotHasItsCallback, NoStaleReply
  <2>3. SlotsOpen'
    BY <1>6 DEF CallbackReturn, Finish, CallsNumbered, NothingWhenFreed, SlotsOpen,
      SlotsDistinct, BlockedOpen, SlotHasItsCallback, NoStaleReply
  <2>4. SlotsDistinct'
    BY <1>6 DEF CallbackReturn, Finish, CallsNumbered, NothingWhenFreed, SlotsOpen,
      SlotsDistinct, BlockedOpen, SlotHasItsCallback, NoStaleReply
  <2>5. BlockedOpen'
    BY <1>6 DEF CallbackReturn, Finish, CallsNumbered, NothingWhenFreed, SlotsOpen,
      SlotsDistinct, BlockedOpen, SlotHasItsCallback, NoStaleReply
  <2>6. SlotHasItsCallback'
    BY <1>6 DEF CallbackReturn, Finish, CallsNumbered, NothingWhenFreed, SlotsOpen,
      SlotsDistinct, BlockedOpen, SlotHasItsCallback, NoStaleReply
  <2>7. NoStaleReply'
    BY <1>6 DEF CallbackReturn, Finish, CallsNumbered, NothingWhenFreed, SlotsOpen,
      SlotsDistinct, BlockedOpen, SlotHasItsCallback, NoStaleReply
  <2>8. OpenCallsTracked'
    BY <1>6 DEF CallbackReturn, Finish, OpenCallsTracked, CallsNumbered, NothingWhenFreed,
      SlotsOpen, SlotsDistinct, BlockedOpen, SlotHasItsCallback, NoStaleReply
  <2> QED
    BY <2>1, <2>2, <2>3, <2>4, <2>5, <2>6, <2>7, <2>8
<1>7. CASE ReplyError
  <2>1. CallsNumbered'
    BY <1>7 DEF ReplyError, InLoop, Fail, Finish, CallsNumbered, NothingWhenFreed,
      SlotsOpen, SlotsDistinct, BlockedOpen, SlotHasItsCallback, NoStaleReply
  <2>2. NothingWhenFreed'
    BY <1>7 DEF ReplyError, InLoop, Fail, Finish, CallsNumbered, NothingWhenFreed,
      SlotsOpen, SlotsDistinct, BlockedOpen, SlotHasItsCallback, NoStaleReply
  <2>3. SlotsOpen'
    BY <1>7 DEF ReplyError, InLoop, Fail, Finish, CallsNumbered, NothingWhenFreed,
      SlotsOpen, SlotsDistinct, BlockedOpen, SlotHasItsCallback, NoStaleReply
  <2>4. SlotsDistinct'
    BY <1>7 DEF ReplyError, InLoop, Fail, Finish, CallsNumbered, NothingWhenFreed,
      SlotsOpen, SlotsDistinct, BlockedOpen, SlotHasItsCallback, NoStaleReply
  <2>5. BlockedOpen'
    BY <1>7 DEF ReplyError, InLoop, Fail, Finish, CallsNumbered, NothingWhenFreed,
      SlotsOpen, SlotsDistinct, BlockedOpen, SlotHasItsCallback, NoStaleReply
  <2>6. SlotHasItsCallback'
    BY <1>7 DEF ReplyError, InLoop, Fail, Finish, CallsNumbered, NothingWhenFreed,
      SlotsOpen, SlotsDistinct, BlockedOpen, SlotHasItsCallback, NoStaleReply
  <2>7. NoStaleReply'
    <3>1. PICK e \in table : Fail(e)
      BY <1>7 DEF ReplyError
    <3>2. \A f \in table \ {e} : f[2] # e[2] /\ f[2] \in Methods
      BY <3>1, HandlersDistinct
    <3> QED
      BY <1>7, <3>1, <3>2 DEF ReplyError, InLoop, Fail, Finish, NoStaleReply, NothingWhenFreed
  <2>8. OpenCallsTracked'
    <3>1. PICK e \in table : Fail(e)
      BY <1>7 DEF ReplyError
    <3>2. e[2] \in Methods /\ callback[e[2]] = e[1] /\ slot[e[2]] = e[1] /\ e[1] # 0
      BY <3>1 DEF SlotHasItsCallback, NoStaleReply
    <3>3. ASSUME NEW c \in CallIds, outcome'[c] = "open" PROVE outcome[c] = "open" /\ c # e[1]
      BY <3>1, <3>2, <3>3 DEF Fail
    <3>4. ASSUME NEW n \in Methods, NEW c \in CallIds, c # e[1], slot[n] = c, <<c, n>> \in table
          PROVE  slot'[n] = c /\ <<c, n>> \in table'
      BY <3>1, <3>2, <3>4 DEF Fail, Finish
    <3> QED
      BY <1>7, <3>1, <3>3, <3>4 DEF ReplyError, InLoop, Fail, OpenCallsTracked
  <2> QED
    BY <2>1, <2>2, <2>3, <2>4, <2>5, <2>6, <2>7, <2>8
<1>8. CASE Discard
  <2>1. CallsNumbered'
    BY <1>8 DEF Discard, CallsNumbered, NothingWhenFreed, SlotsOpen, SlotsDistinct,
      BlockedOpen, SlotHasItsCallback, NoStaleReply
  <2>2. NothingWhenFreed'
    BY <1>8 DEF Discard, CallsNumbered, NothingWhenFreed, SlotsOpen, SlotsDistinct,
      BlockedOpen, SlotHasItsCallback, NoStaleReply
  <2>3. SlotsOpen'
    BY <1>8 DEF Discard, CallsNumbered, NothingWhenFreed, SlotsOpen, SlotsDistinct,
      BlockedOpen, SlotHasItsCallback, NoStaleReply
  <2>4. SlotsDistinct'
    BY <1>8 DEF Discard, CallsNumbered, NothingWhenFreed, SlotsOpen, SlotsDistinct,
      BlockedOpen, SlotHasItsCallback, NoStaleReply
  <2>5. BlockedOpen'
    BY <1>8 DEF Discard, CallsNumbered, NothingWhenFreed, SlotsOpen, SlotsDistinct,
      BlockedOpen, SlotHasItsCallback, NoStaleReply
  <2>6. SlotHasItsCallback'
    BY <1>8 DEF Discard, CallsNumbered, NothingWhenFreed, SlotsOpen, SlotsDistinct,
      BlockedOpen, SlotHasItsCallback, NoStaleReply
  <2>7. NoStaleReply'
    BY <1>8 DEF Discard, CallsNumbered, NothingWhenFreed, SlotsOpen, SlotsDistinct,
      BlockedOpen, SlotHasItsCallback, NoStaleReply
  <2>8. OpenCallsTracked'
    BY <1>8 DEF Discard, OpenCallsTracked, CallsNumbered, NothingWhenFreed,
      SlotsOpen, SlotsDistinct, BlockedOpen, SlotHasItsCallback, NoStaleReply
  <2> QED
    BY <2>1, <2>2, <2>3, <2>4, <2>5, <2>6, <2>7, <2>8
<1>9. ASSUME NEW m \in Methods, Async(m) PROVE Books'
  <2>1. CallsNumbered'
    BY <1>9 DEF Async, InUserCode, NotBusy, Transmit, CallsNumbered, NothingWhenFreed,
      SlotsOpen, SlotsDistinct, BlockedOpen, SlotHasItsCallback, NoStaleReply
  <2>2. NothingWhenFreed'
    BY <1>9 DEF Async, InUserCode, NotBusy, Transmit, CallsNumbered, NothingWhenFreed,
      SlotsOpen, SlotsDistinct, BlockedOpen, SlotHasItsCallback, NoStaleReply
  <2>3. SlotsOpen'
    BY <1>9 DEF Async, InUserCode, NotBusy, Transmit, CallsNumbered, NothingWhenFreed,
      SlotsOpen, SlotsDistinct, BlockedOpen, SlotHasItsCallback, NoStaleReply
  <2>4. SlotsDistinct'
    BY <1>9, SlotsAreOld DEF Async, Transmit, SlotsDistinct
  <2>5. BlockedOpen'
    BY <1>9 DEF Async, InUserCode, NotBusy, Transmit, CallsNumbered, NothingWhenFreed,
      SlotsOpen, SlotsDistinct, BlockedOpen, SlotHasItsCallback, NoStaleReply
  <2>6. SlotHasItsCallback'
    BY <1>9 DEF Async, InUserCode, NotBusy, Transmit, CallsNumbered, NothingWhenFreed,
      SlotsOpen, SlotsDistinct, BlockedOpen, SlotHasItsCallback, NoStaleReply
  <2>7. NoStaleReply'
    BY <1>9 DEF Async, InUserCode, NotBusy, Transmit, CallsNumbered, NothingWhenFreed,
      SlotsOpen, SlotsDistinct, BlockedOpen, SlotHasItsCallback, NoStaleReply
  <2>8. OpenCallsTracked'
    <3>1. ASSUME NEW c \in CallIds, outcome'[c] = "open"
          PROVE  c = sent + 1 \/ outcome[c] = "open"
      BY <1>9, <3>1 DEF Async, Transmit
    <3>2. ASSUME NEW n \in Methods, slot[n] # 0, <<slot[n], n>> \in table
          PROVE  slot'[n] = slot[n] /\ <<slot[n], n>> \in table'
      BY <1>9, <3>2 DEF Async, NotBusy
    <3>3. slot'[m] = sent + 1 /\ <<sent + 1, m>> \in table'
      BY <1>9 DEF Async
    <3> QED
      BY <1>9, <3>1, <3>2, <3>3 DEF Async, InUserCode, NotBusy, OpenCallsTracked
  <2> QED
    BY <2>1, <2>2, <2>3, <2>4, <2>5, <2>6, <2>7, <2>8
<1>10. ASSUME NEW m \in Methods, Sync(m) PROVE Books'
  <2>1. CallsNumbered'
    BY <1>10 DEF Sync, InUserCode, NotBusy, Transmit, CallsNumbered, NothingWhenFreed,
      SlotsOpen, SlotsDistinct, BlockedOpen, SlotHasItsCallback, NoStaleReply
  <2>2. NothingWhenFreed'
    BY <1>10 DEF Sync, InUserCode, NotBusy, Transmit, CallsNumbered, NothingWhenFreed,
      SlotsOpen, SlotsDistinct, BlockedOpen, SlotHasItsCallback, NoStaleReply
  <2>3. SlotsOpen'
    BY <1>10 DEF Sync, InUserCode, NotBusy, Transmit, CallsNumbered, NothingWhenFreed,
      SlotsOpen, SlotsDistinct, BlockedOpen, SlotHasItsCallback, NoStaleReply
  <2>4. SlotsDistinct'
    BY <1>10 DEF Sync, InUserCode, NotBusy, Transmit, CallsNumbered, NothingWhenFreed,
      SlotsOpen, SlotsDistinct, BlockedOpen, SlotHasItsCallback, NoStaleReply
  <2>5. BlockedOpen'
    BY <1>10, SlotsAreOld DEF Sync, InUserCode, Transmit, BlockedOpen
  <2>6. SlotHasItsCallback'
    BY <1>10 DEF Sync, InUserCode, NotBusy, Transmit, CallsNumbered, NothingWhenFreed,
      SlotsOpen, SlotsDistinct, BlockedOpen, SlotHasItsCallback, NoStaleReply
  <2>7. NoStaleReply'
    BY <1>10 DEF Sync, InUserCode, NotBusy, Transmit, CallsNumbered, NothingWhenFreed,
      SlotsOpen, SlotsDistinct, BlockedOpen, SlotHasItsCallback, NoStaleReply
  <2>8. OpenCallsTracked'
    <3>1. ASSUME NEW c \in CallIds, outcome'[c] = "open"
          PROVE  c = sent + 1 \/ outcome[c] = "open"
      BY <1>10, <3>1 DEF Sync, Transmit
    <3>2. \A c \in CallIds : outcome[c] = "open" =>
            \E n \in Methods : slot[n] = c /\ <<c, n>> \in table
      <4>1. blocked = 0 /\ \A c \in CallIds : c # 0
        BY <1>10 DEF Sync, InUserCode
      <4> QED
        BY <4>1 DEF OpenCallsTracked
    <3>3. blocked' = sent + 1 /\ UNCHANGED <<slot, table>>
      BY <1>10 DEF Sync
    <3> QED
      BY <3>1, <3>2, <3>3 DEF OpenCallsTracked
  <2> QED
    BY <2>1, <2>2, <2>3, <2>4, <2>5, <2>6, <2>7, <2>8
<1>11. ASSUME NEW m \in Methods, Timeout(m) PROVE Books'
  <2>1. CallsNumbered'
    BY <1>11 DEF Timeout, InLoop, Fail, Finish, CallsNumbered, NothingWhenFreed, SlotsOpen,
      SlotsDistinct, BlockedOpen, SlotHasItsCallback, NoStaleReply
  <2>2. NothingWhenFreed'
    BY <1>11 DEF Timeout, InLoop, Fail, Finish, CallsNumbered, NothingWhenFreed, SlotsOpen,
      SlotsDistinct, BlockedOpen, SlotHasItsCallback, NoStaleReply
  <2>3. SlotsOpen'
    BY <1>11 DEF Timeout, InLoop, Fail, Finish, CallsNumbered, NothingWhenFreed, SlotsOpen,
      SlotsDistinct, BlockedOpen, SlotHasItsCallback, NoStaleReply
  <2>4. SlotsDistinct'
    BY <1>11 DEF Timeout, InLoop, Fail, Finish, CallsNumbered, NothingWhenFreed, SlotsOpen,
      SlotsDistinct, BlockedOpen, SlotHasItsCallback, NoStaleReply
  <2>5. BlockedOpen'
    BY <1>11 DEF Timeout, InLoop, Fail, Finish, CallsNumbered, NothingWhenFreed, SlotsOpen,
      SlotsDistinct, BlockedOpen, SlotHasItsCallback, NoStaleReply
  <2>6. SlotHasItsCallback'
    BY <1>11 DEF Timeout, InLoop, Fail, Finish, CallsNumbered, NothingWhenFreed, SlotsOpen,
      SlotsDistinct, BlockedOpen, SlotHasItsCallback, NoStaleReply
  <2>7. NoStaleReply'
    <3>1. PICK e \in table : Fail(e)
      BY <1>11 DEF Timeout
    <3>2. \A f \in table \ {e} : f[2] # e[2] /\ f[2] \in Methods
      BY <3>1, HandlersDistinct
    <3> QED
      BY <1>11, <3>1, <3>2 DEF Timeout, InLoop, Fail, Finish, NoStaleReply, NothingWhenFreed
  <2>8. OpenCallsTracked'
    <3>1. PICK e \in table : Fail(e)
      BY <1>11 DEF Timeout
    <3>2. e[2] \in Methods /\ callback[e[2]] = e[1] /\ slot[e[2]] = e[1] /\ e[1] # 0
      BY <3>1 DEF SlotHasItsCallback, NoStaleReply
    <3>3. ASSUME NEW c \in CallIds, outcome'[c] = "open" PROVE outcome[c] = "open" /\ c # e[1]
      BY <3>1, <3>2, <3>3 DEF Fail
    <3>4. ASSUME NEW n \in Methods, NEW c \in CallIds, c # e[1], slot[n] = c, <<c, n>> \in table
          PROVE  slot'[n] = c /\ <<c, n>> \in table'
      BY <3>1, <3>2, <3>4 DEF Fail, Finish
    <3> QED
      BY <1>11, <3>1, <3>3, <3>4 DEF Timeout, InLoop, Fail, OpenCallsTracked
  <2> QED
    BY <2>1, <2>2, <2>3, <2>4, <2>5, <2>6, <2>7, <2>8
<1>12. ASSUME NEW c \in CallIds, Serve(c) PROVE Books'
  <2>1. UNCHANGED <<clientVars, sent, table, outcome>>
    BY <1>12 DEF Serve, ServeValue, ServeFailure, ServeRefusal, Answer
  <2>2. CallsNumbered' /\ NothingWhenFreed' /\ SlotsOpen' /\ SlotsDistinct' /\ BlockedOpen'
    BY <2>1 DEF CallsNumbered, NothingWhenFreed, SlotsOpen, SlotsDistinct, BlockedOpen
  <2>3. SlotHasItsCallback' /\ NoStaleReply' /\ OpenCallsTracked'
    BY <2>1 DEF SlotHasItsCallback, NoStaleReply, OpenCallsTracked
  <2> QED
    BY <2>2, <2>3
<1>13. CASE UNCHANGED vars
  BY <1>13 DEF vars, CallsNumbered, NothingWhenFreed, SlotsOpen, SlotsDistinct, BlockedOpen,
    SlotHasItsCallback, NoStaleReply, OpenCallsTracked
<1> QED
  BY <1>1, <1>2, <1>3, <1>4, <1>5, <1>6, <1>7, <1>8, <1>9, <1>10, <1>11, <1>12, <1>13 DEF
    Next, User, Client

LEMMA Invariance == Spec => []IInv
<1>1. IInv /\ [Next]_vars => IInv'
  BY TypeStep, BooksStep DEF IInv
<1> QED
  BY InitIInv, <1>1, PTL DEF Spec

-----------------------------------------------------------------------------
(* The promises. *)

\* The type invariant of Stub, for any methods and any bound on the calls: slots,
\* callbacks and queued replies of a client instance only ever name real calls.
THEOREM TypeCorrect == Spec => []TypeOK
<1>1. IInv => TypeOK
  BY DEF IInv
<1> QED
  BY <1>1, Invariance, PTL

\* The assertions on <m>_reply_callback in the generated code always hold.
THEOREM CallbackAssertionsHold == Spec => []SlotHasItsCallback
<1>1. IInv => SlotHasItsCallback
  BY DEF IInv, Books
<1> QED
  BY <1>1, Invariance, PTL

\* No reply, timeout or error of one call reaches the callback of another, and
\* the assertion on sd_bus_get_current_slot in the thunk holds.
THEOREM RepliesReachTheirCall == Spec => []NoStaleReply
<1>1. IInv => NoStaleReply
  BY DEF IInv, Books
<1> QED
  BY <1>1, Invariance, PTL

\* No accepted call is forgotten: until its outcome is known, it blocks the user
\* or sd-bus holds its slot.
THEOREM NoCallIsForgotten == Spec => []OpenCallsTracked
<1>1. IInv => OpenCallsTracked
  BY DEF IInv, Books
<1> QED
  BY <1>1, Invariance, PTL

\* The user hears of every call at most once, whatever errors, timeouts and
\* duplicated replies the bus delivers.
THEOREM EveryCallHasOneOutcome == Spec => OneOutcome
<1> DEFINE Told(c) == outcome'[c] # outcome[c] =>
      \/ outcome[c] = "unused" /\ outcome'[c] = "open"
      \/ outcome[c] = "open" /\ outcome'[c] \in {"answered", "failed", "cancelled"}
<1>1. ASSUME IInv, [Next]_vars PROVE \A c \in CallIds : Told(c)
  <2>1. /\ outcome \in [CallIds -> Outcomes] /\ sent \in Nat
        /\ \A c \in CallIds : c \in Nat /\ c # 0
        /\ \A c \in CallIds : c > sent <=> outcome[c] = "unused"
    BY <1>1, MaxCallsAssumption DEF IInv, Books, TypeOK, CallsNumbered, CallIds
  <2>2. CASE UNCHANGED outcome
    BY <2>2
  <2>3. CASE Transmit
    <3>1. \A c \in CallIds : c = sent + 1 => outcome[c] = "unused" /\ outcome'[c] = "open"
      BY <2>1, <2>3 DEF Transmit
    <3>2. \A c \in CallIds : c # sent + 1 => outcome'[c] = outcome[c]
      BY <2>1, <2>3 DEF Transmit
    <3> QED
      BY <3>1, <3>2
  <2>4. ASSUME NEW k \in {"answered", "failed"}, NEW d \in CallIds,
               outcome[d] = "open", outcome' = [outcome EXCEPT ![d] = k]
        PROVE  \A c \in CallIds : Told(c)
    BY <2>1, <2>4
  <2>5. CASE SyncReturn \/ SyncTimeout
    <3>1. blocked \in CallIds /\ outcome[blocked] = "open"
      BY <1>1, <2>5 DEF SyncReturn, SyncTimeout, IInv, Books, BlockedOpen, TypeOK
    <3>2. \E k \in {"answered", "failed"} : outcome' = [outcome EXCEPT ![blocked] = k]
      BY <2>5 DEF SyncReturn, SyncTimeout
    <3> QED
      BY <2>4, <3>1, <3>2
  <2>6. CASE Free
    <3>1. ASSUME NEW m \in Methods, slot[m] # 0 PROVE outcome[slot[m]] = "open"
      BY <1>1, <2>6, <3>1, IdleAssumption DEF Free, IInv, Books, SlotsOpen
    <3>2. ASSUME NEW c \in CallIds, \E m \in Methods : slot[m] = c PROVE outcome[c] = "open"
      BY <2>1, <3>1, <3>2
    <3> QED
      BY <2>6, <3>2 DEF Free
  <2>7. ASSUME NEW e \in table, InLoop
        PROVE  callback[e[2]] \in CallIds /\ outcome[callback[e[2]]] = "open"
    <3>1. e[2] \in Methods /\ e[1] \in CallIds /\ slot[e[2]] = e[1] /\ callback[e[2]] = e[1]
      BY <1>1 DEF IInv, Books, TypeOK, NoStaleReply, SlotHasItsCallback
    <3>2. slot[e[2]] # 0 /\ thunk # e[2]
      BY <2>1, <2>7, <3>1, IdleAssumption DEF InLoop
    <3>3. outcome[slot[e[2]]] = "open"
      BY <1>1, <3>1, <3>2 DEF IInv, Books, SlotsOpen
    <3> QED
      BY <3>1, <3>3
  <2>8. CASE ReplyValue
    BY <2>4, <2>7, <2>8 DEF ReplyValue
  <2>9. CASE ReplyError \/ \E m \in Methods : Timeout(m)
    <3>1. PICK e \in table : Fail(e) /\ InLoop
      BY <2>9 DEF ReplyError, Timeout
    <3> QED
      BY <2>4, <2>7, <3>1 DEF Fail
  <2> QED
    BY <1>1, <2>2, <2>3, <2>5, <2>6, <2>8, <2>9 DEF Next, User, Client, New, Async, Sync,
      CallbackReturn, Discard, Serve, ServeValue, ServeFailure, ServeRefusal, Answer, vars
<1> QED
  BY <1>1, Invariance, PTL DEF Spec, OneOutcome
=============================================================================
