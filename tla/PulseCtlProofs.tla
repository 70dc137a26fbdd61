--------------------------- MODULE PulseCtlProofs ---------------------------
(***************************************************************************)
(* Proofs about PulseCtl, for every set of elements written to and every   *)
(* number of writes, changes by others and refusals.                       *)
(*                                                                         *)
(* The inductive invariant has four subjects.  Own: of all that is under   *)
(* way at most one item is what the application's thread waits for, and it *)
(* is the one its call asked for.  Waiting: while it waits there is one.   *)
(* Reading: from the answer a read waits for onward, everything that comes *)
(* is a value of the time of the call, and what came first is overwritten. *)
(* Noticing: the last word on its way about an element is the value in     *)
(* force, or something under way will bring a later one.                   *)
(***************************************************************************)
EXTENDS PulseCtl, TLAPS

Side == {"sink", "source"}
Opening == {"open", "names", "subscribe"}
Asking == {"names", "subscribe", "sink", "source", "set"}

(* What the two directions of the connection carry                         *)
InfoRequests == [kind : {"info"}, side : Side, mine : BOOLEAN]
Requests ==
  InfoRequests \cup [kind : {"server", "subscribe"}, mine : {TRUE}]
    \cup [kind : {"set"}, mine : {TRUE}, elem : Element, value : Int]
Readings == [Keys("sink") -> Int] \cup [Keys("source") -> Int] \cup {NoItem}
InfoMessages ==
  {m \in [kind : {"info"}, side : Side, mine : BOOLEAN, values : Readings] :
     m.values = NoItem \/ DOMAIN m.values = Keys(m.side)}
Messages ==
  InfoMessages \cup [kind : {"ack"}, mine : {TRUE}] \cup [kind : {"event"}, mine : {FALSE}]

Controls == [copy : [Element -> Int], updated : SUBSET Element, subscribed : BOOLEAN]
Calls ==
  [pc : Asking \cup {"open", "idle"}, op : {"open", "none", "attribute", "read", "write"},
   elem : Element, value : Int]
Counters == [changes : Nat, writes : Nat, refusals : Nat, errors : Nat]

Typed ==
  /\ ctl \in Controls
  /\ ctx \in {"ready", "failed", "closed"}
  /\ call \in Calls
  /\ done \in BOOLEAN /\ awake \in BOOLEAN /\ poll \in BOOLEAN
  /\ toServer \in Seq(Requests) /\ toClient \in Seq(Messages)
  /\ server \in [Element -> Int] /\ posted \in BOOLEAN /\ told \in BOOLEAN
  /\ view \in [Element -> Int] /\ unheard \subseteq Element
  /\ used \in Counters

(* The operation a call is at, and nothing left of a lost connection       *)
Calling ==
  /\ call.pc = "idle" => call.op = "none"
  /\ call.pc = "set" => call.op = "write"
  /\ call.pc \in {"idle", "open"} => awake /\ ~done
  /\ done => awake
  /\ ctx # "ready" => awake /\ toServer = <<>> /\ toClient = <<>> /\ ~posted

Asked(i) == i \in 1 .. Len(toServer) /\ toServer[i].mine
Answered(i) == i \in 1 .. Len(toClient) /\ toClient[i].mine

(* What is under way for the application's thread is what its call asked   *)
(* for, and there is only one such thing.                                  *)
Own ==
  /\ \A i \in 1 .. Len(toServer) : Asked(i) =>
       /\ ~done /\ call.pc \in Asking
       /\ call.pc \in Side => toServer[i].kind = "info" /\ toServer[i].side = call.pc
       /\ \A j \in 1 .. Len(toServer) : Asked(j) => j = i
       /\ \A j \in 1 .. Len(toClient) : ~Answered(j)
  /\ \A i \in 1 .. Len(toClient) : Answered(i) =>
       /\ ~done /\ call.pc \in Asking
       /\ call.pc \in Side =>
            toClient[i].kind = "info" /\ toClient[i].side = call.pc
       /\ \A j \in 1 .. Len(toClient) : Answered(j) => j = i

Waiting ==
  call.pc \in Asking /\ ~done /\ ctx = "ready" =>
    \/ \E i \in 1 .. Len(toServer) : Asked(i)
    \/ \E i \in 1 .. Len(toClient) : Answered(i)

(* A message is about an element; unless it is an error it has its value.  *)
Mentions(m, e) == m.kind = "info" /\ e \in Keys(m.side)
Carries(m, e) == Mentions(m, e) /\ m.values # NoItem

(* The answer about the element of the call has come: the copy is current, *)
(* unless it was an error.                                                 *)
Current ==
  \/ call.pc = "source" /\ (call.elem \in Keys("sink") \/ done)
  \/ call.pc = "sink" /\ call.elem \in Keys("sink") /\ done

FreshFrom(i) ==
  \A j \in 1 .. Len(toClient) :
    j >= i /\ Carries(toClient[j], call.elem) => toClient[j].values[call.elem] \in during

Reading ==
  call.op = "read" =>
    /\ server[call.elem] \in during
    /\ \A i \in 1 .. Len(toClient) :
         Answered(i) /\ Mentions(toClient[i], call.elem) => FreshFrom(i)
    /\ Current => FreshFrom(1)
    /\ Current /\ call.elem \notin unheard => ctl.copy[call.elem] \in during

(* The server tells of changes before anything is believed, and the poll   *)
(* pipe is readable for as long as there is an event to read.              *)
Telling ==
  ctx = "ready" =>
    /\ call.pc \notin Opening => told
    /\ call.pc = "subscribe" => told \/ \E i \in 1 .. Len(toServer) : toServer[i].kind = "subscribe"
    /\ call.pc \in Opening => \A e \in Element : view[e] = Unknown
    /\ poll <=> ctl.updated # {}

(* What the application believes is the copy, or an event will tell it.    *)
Believed ==
  used.refusals = 0 /\ ctx = "ready" =>
    /\ \A e \in Element :
         \/ view[e] \in {Unknown, ctl.copy[e]} \/ e \in ctl.updated
         \/ call.pc = "set" /\ e = call.elem
    /\ call.pc = "set" => ctl.copy[call.elem] = call.value \/ call.elem \in ctl.updated

LastWord(e) ==
  \/ \E i \in 1 .. Len(toClient) :
       /\ Mentions(toClient[i], e)
       /\ Carries(toClient[i], e) => toClient[i].values[e] = server[e]
       /\ \A j \in 1 .. Len(toClient) : j > i => ~Mentions(toClient[j], e)
  \/ /\ \A i \in 1 .. Len(toClient) : ~Mentions(toClient[i], e)
     /\ ctl.copy[e] = server[e] \/ e \in unheard

(* A later word will come: the server will be asked again, or it will take *)
(* a value it has not got, and tell of it.                                 *)
Later(e) ==
  \/ posted
  \/ \E i \in 1 .. Len(toClient) : toClient[i].kind = "event"
  \/ \E i \in 1 .. Len(toServer) : toServer[i].kind = "info" /\ e \in Keys(toServer[i].side)
  \/ \E i \in 1 .. Len(toServer) :
       toServer[i].kind = "set" /\ toServer[i].elem = e /\ toServer[i].value # server[e]

(* The elements the plugin has asked about since it is told of changes     *)
Followed(e) ==
  \/ view[e] # Unknown
  \/ call.pc \in {"sink", "source", "set"} /\ e \in Keys("sink")
  \/ call.pc \in {"source", "set"}

Noticing ==
  used.refusals = 0 /\ ctx = "ready" =>
    \A e \in Element : Followed(e) => LastWord(e) \/ Later(e)

IInv == Typed /\ Calling /\ Own /\ Waiting /\ Reading /\ Telling /\ Believed /\ Noticing


-----------------------------------------------------------------------------
(* Sequences at both ends.                                                 *)
LEMMA AtTheEnd ==
  ASSUME NEW S, NEW q \in Seq(S), NEW x \in S
  PROVE  /\ Append(q, x) \in Seq(S) /\ Len(Append(q, x)) = Len(q) + 1
         /\ \A i \in 1 .. Len(q) : Append(q, x)[i] = q[i]
         /\ Append(q, x)[Len(q) + 1] = x
OBVIOUS

LEMMA AtTheHead ==
  ASSUME NEW S, NEW q \in Seq(S), q # <<>>
  PROVE  /\ Tail(q) \in Seq(S) /\ Len(Tail(q)) = Len(q) - 1 /\ Len(q) \in Nat \ {0}
         /\ Head(q) = q[1] /\ Head(q) \in S
         /\ \A i \in 1 .. Len(q) - 1 : Tail(q)[i] = q[i + 1]
OBVIOUS

LEMMA TwoMore ==
  ASSUME NEW S, NEW q \in Seq(S), NEW x \in S, NEW y \in S
  PROVE  /\ q \o <<x, y>> \in Seq(S) /\ Len(q \o <<x, y>>) = Len(q) + 2
         /\ \A i \in 1 .. Len(q) : (q \o <<x, y>>)[i] = q[i]
         /\ (q \o <<x, y>>)[Len(q) + 1] = x /\ (q \o <<x, y>>)[Len(q) + 2] = y
OBVIOUS

(* The requests and answers are of the kinds listed above.                 *)
LEMMA RequestKinds ==
  /\ \A s \in Side, b \in BOOLEAN : InfoRequest(s, b) \in Requests
  /\ \A k \in {"server", "subscribe"} : Request(k) \in Requests
  /\ \A e \in Element, v \in Int :
       [kind |-> "set", mine |-> TRUE, elem |-> e, value |-> v] \in Requests
BY DEF Requests, InfoRequests, InfoRequest, Request

LEMMA MessageKinds ==
  /\ [kind |-> "ack", mine |-> TRUE] \in Messages
  /\ [kind |-> "event", mine |-> FALSE] \in Messages
BY DEF Messages, InfoMessages

LEMMA InfoTyped ==
  ASSUME NEW m \in Messages, m.kind = "info"
  PROVE  /\ m.side \in Side /\ m.mine \in BOOLEAN /\ m.values \in Readings
         /\ m.values = NoItem \/ DOMAIN m.values = Keys(m.side)
BY DEF Messages, InfoMessages

LEMMA RequestTyped ==
  ASSUME NEW m \in Requests
  PROVE  /\ m.kind = "info" => m.side \in Side /\ m.mine \in BOOLEAN
         /\ m.kind = "set" => m.elem \in Element /\ m.value \in Int
         /\ m.kind # "info" => m.mine
BY DEF Requests, InfoRequests

LEMMA MessageTyped ==
  ASSUME NEW m \in Messages
  PROVE  /\ m.kind \in {"info", "ack", "event"}
         /\ m.kind = "ack" => m.mine
         /\ m.kind = "event" => ~m.mine
BY DEF Messages, InfoMessages

LEMMA KeysOf ==
  /\ Keys("source") = {0, 1} /\ Keys("sink") = {2, 3} /\ Element = {0, 1, 2, 3}
BY DEF Keys, Element

LEMMA ReadingTyped ==
  ASSUME NEW r \in Readings
  PROVE  /\ DOMAIN r \in {Keys("sink"), Keys("source"), {}}
         /\ r = NoItem <=> DOMAIN r = {}
         /\ DOMAIN r \subseteq Element /\ \A e \in DOMAIN r : r[e] \in Int
BY KeysOf DEF Readings, NoItem

(* The server's answer to a request for information                        *)
LEMMA AnswerTyped ==
  ASSUME toServer \in Seq(Requests), server \in [Element -> Int], toServer # <<>>,
         Next1.kind = "info", NEW r \in {InForce, NoItem}
  PROVE  /\ Next1.side \in Side /\ Next1.mine \in BOOLEAN /\ Info(r) \in Messages
         /\ Info(r).kind = "info" /\ Info(r).side = Next1.side /\ Info(r).mine = Next1.mine
         /\ \A e : Mentions(Info(r), e) <=> e \in Keys(Next1.side)
         /\ \A e : Carries(Info(r), e) => Info(r).values[e] = server[e]
<1>1. Next1.side \in Side /\ Next1.mine \in BOOLEAN
  BY AtTheHead, RequestTyped DEF Next1
<1>2. InForce \in [Keys(Next1.side) -> Int] /\ DOMAIN InForce = Keys(Next1.side)
  BY <1>1, KeysOf DEF InForce, Side
<1>3. r \in Readings /\ (r = NoItem \/ DOMAIN r = Keys(Next1.side))
  BY <1>1, <1>2 DEF Readings, Side
<1>4. Info(r) \in InfoMessages
  BY <1>1, <1>3 DEF Info, InfoMessages
<1>5. \A e : Carries(Info(r), e) => Info(r).values[e] = server[e]
  BY DEF Carries, Mentions, Info, InForce
<1> QED BY <1>1, <1>4, <1>5 DEF Messages, Info, Mentions

(* A message of the server carries the elements its values are of.         *)
LEMMA CarriedIn ==
  ASSUME NEW m \in Messages, m.kind = "info", NEW e
  PROVE  Carries(m, e) <=> e \in DOMAIN m.values
<1>1. m.values = NoItem => DOMAIN m.values = {}
  BY DEF NoItem
<1>2. m.values # NoItem => DOMAIN m.values = Keys(m.side)
  BY InfoTyped
<1> QED BY <1>1, <1>2 DEF Carries, Mentions

-----------------------------------------------------------------------------
LEMMA InitInv == Init => IInv
<1> SUFFICES ASSUME Init PROVE IInv  OBVIOUS
<1>0. toServer = <<>> /\ toClient = <<>> /\ Len(toServer) = 0 /\ Len(toClient) = 0
  BY DEF Init
<1>1. Typed
  <2>1. ctl \in Controls
    BY DEF Init, Zeroed, Unset, Controls
  <2>2. call \in Calls /\ used \in Counters
    BY DEF Init, Element, Calls, Counters
  <2>3. server \in [Element -> Int] /\ view \in [Element -> Int]
    BY DEF Init, Unknown
  <2>4. toServer \in Seq(Requests) /\ toClient \in Seq(Messages)
    BY <1>0
  <2> QED BY <2>1, <2>2, <2>3, <2>4 DEF Init, Typed
<1>2. Calling /\ Own /\ Waiting /\ Reading
  BY <1>0 DEF Init, Calling, Own, Waiting, Reading, Asking, Asked, Answered
<1>3. Telling /\ Believed /\ Noticing
  BY <1>0, <1>1 DEF Init, Zeroed, Telling, Believed, Noticing, Opening, Followed
<1> QED BY <1>1, <1>2, <1>3 DEF IInv

-----------------------------------------------------------------------------
(* The records of the plugin, of a call and of the counters are changed a  *)
(* field at a time.                                                        *)
LEMMA CallFields ==
  ASSUME NEW c \in Calls
  PROVE  /\ c.pc \in Asking \cup {"open", "idle"} /\ c.elem \in Element /\ c.value \in Int
         /\ c.op \in {"open", "none", "attribute", "read", "write"}
         /\ \A q \in Asking :
              /\ [c EXCEPT !.pc = q] \in Calls /\ [c EXCEPT !.pc = q].pc = q
              /\ [c EXCEPT !.pc = q].op = c.op /\ [c EXCEPT !.pc = q].elem = c.elem
              /\ [c EXCEPT !.pc = q].value = c.value
BY DEF Calls

LEMMA IdleCall == Idle \in Calls
BY DEF Calls, Idle, Element

LEMMA Counted ==
  ASSUME NEW u \in Counters
  PROVE  /\ [u EXCEPT !.changes = @ + 1] \in Counters
         /\ [u EXCEPT !.writes = @ + 1] \in Counters
         /\ [u EXCEPT !.refusals = @ + 1] \in Counters
         /\ [u EXCEPT !.errors = @ + 1] \in Counters
         /\ [u EXCEPT !.errors = @ + 1].refusals = u.refusals
BY DEF Counters

LEMMA ControlFields ==
  ASSUME NEW c \in Controls
  PROVE  /\ c.copy \in [Element -> Int] /\ c.updated \subseteq Element
         /\ c.subscribed \in BOOLEAN
BY DEF Controls

(* What an answer does to the copy: it is in it from then on, and what it  *)
(* changes is an event to read.                                            *)
LEMMA CopyTakes ==
  ASSUME Typed, NEW r \in Readings
  PROVE  LET n == Refreshed(Differing(r), r) IN
         /\ n \in [Element -> Int] /\ Differing(r) \subseteq Element
         /\ \A e \in Element : n[e] = IF e \in DOMAIN r THEN r[e] ELSE ctl.copy[e]
         /\ \A e \in Element : n[e] # ctl.copy[e] => e \in Differing(r)
BY ReadingTyped, ControlFields DEF Refreshed, Differing, Typed

-----------------------------------------------------------------------------
(* Requests and answers move down the connection one at a time, and what   *)
(* a step asks for is well-formed.                                         *)
LEMMA AskTyped ==
  ASSUME Typed, NEW m \in Requests, NEW q \in Asking, Ask(m, q)
  PROVE  /\ toServer' \in Seq(Requests)
         /\ call' \in Calls
         /\ done' \in BOOLEAN /\ awake' \in BOOLEAN
BY AtTheEnd, CallFields DEF Typed, Ask

LEMMA BeginTyped ==
  ASSUME Typed, NEW op \in {"attribute", "read", "write"}, NEW e \in Element, NEW v \in Int,
         Begin(op, e, v), used' \in Counters
  PROVE  Typed'
<1>1. toServer' \in Seq(Requests)
  <2>1. InfoRequest("sink", TRUE) \in Requests
    BY RequestKinds DEF Side
  <2> QED BY <2>1, AtTheEnd DEF Typed, Begin
<1>2. call' \in Calls
  BY DEF Begin, Asking, Calls
<1> QED BY <1>1, <1>2 DEF Typed, Begin, sound

LEMMA ReturnTyped ==
  ASSUME Typed, Return
  PROVE  /\ toServer' \in Seq(Requests)
         /\ call' \in Calls
         /\ done' \in BOOLEAN /\ awake' \in BOOLEAN
BY IdleCall DEF Typed, Return

LEMMA ValuesAreNumbers == \A e \in Element : Values(e) \subseteq Int
BY BoundsAssumption DEF Values

LEMMA TypedStep == Typed /\ [Next]_vars => Typed'
<1> SUFFICES ASSUME Typed, [Next]_vars PROVE Typed'  OBVIOUS
<1>1. CASE Open \/ OpenNamed
  <2>1. \E m \in Requests, q \in Asking : Ask(m, q)
    BY <1>1, RequestKinds DEF Open, OpenNamed, Asking
  <2> QED BY <1>1, <2>1, AskTyped DEF Open, OpenNamed, Typed, sound, history
<1>2. CASE OpenSubscribed \/ EndAttribute
  BY <1>2, ReturnTyped DEF OpenSubscribed, EndAttribute, Typed, sound, history
<1>3. CASE GetAttribute
  <2>1. Begin("attribute", 0, 0) /\ used' \in Counters /\ 0 \in Element
    BY <1>3 DEF GetAttribute, Typed, Element
  <2> QED BY <2>1, BeginTyped
<1>4. CASE ReadInteger
  <2>1. PICK e \in Touched : Begin("read", e, 0)
    BY <1>4 DEF ReadInteger
  <2>2. used' \in Counters /\ e \in Element
    BY <1>4, BoundsAssumption DEF ReadInteger, Typed
  <2> QED BY <2>1, <2>2, BeginTyped
<1>5. CASE WriteInteger
  <2>1. PICK e \in Touched : \E v \in Values(e) : Begin("write", e, v)
    BY <1>5 DEF WriteInteger
  <2>2. PICK v \in Values(e) : Begin("write", e, v)
    BY <2>1
  <2>3. used' \in Counters
    BY <1>5, Counted DEF WriteInteger, Typed
  <2>4. e \in Element /\ v \in Int
    BY BoundsAssumption, ValuesAreNumbers
  <2> QED BY <2>2, <2>3, <2>4, BeginTyped
<1>6. CASE UpdateSource
  <2>1. InfoRequest("source", TRUE) \in Requests /\ "source" \in Asking
    BY RequestKinds DEF Side, Asking
  <2> QED BY <1>6, <2>1, AskTyped DEF UpdateSource, Typed, sound, history
<1>7. CASE EndRead
  <2>1. view' \in [Element -> Int]
    BY <1>7, CallFields, ControlFields DEF EndRead, Believe, Typed
  <2> QED BY <1>7, <2>1, ReturnTyped DEF EndRead, Typed, sound
<1>8. CASE WriteSame \/ EndWrite
  <2>1. view' \in [Element -> Int]
    BY <1>8, CallFields DEF WriteSame, EndWrite, Believe, Typed
  <2> QED BY <1>8, <2>1, ReturnTyped DEF WriteSame, EndWrite, Typed, sound
<1>9. ASSUME Store
      PROVE  ctl' \in Controls
  BY <1>9, CallFields DEF Store, Typed, Controls
<1>10. CASE WriteSet
  <2>1. PICK m \in Requests : Ask(m, "set")
    BY <1>10, RequestKinds, CallFields DEF WriteSet, Typed
  <2>2. "set" \in Asking
    BY DEF Asking
  <2> QED BY <1>9, <1>10, <2>1, <2>2, AskTyped DEF WriteSet, Typed, sound, history
<1>11. ASSUME Refuse PROVE used' \in Counters
  BY <1>11, Counted DEF Refuse, Typed
<1>12. CASE WriteRefused
  BY <1>9, <1>11, <1>12, ReturnTyped DEF WriteRefused, Typed, sound
<1>13. CASE SleepAgain
  BY <1>13 DEF SleepAgain, Typed, link, sound, history
<1>14. CASE WaitFails
  BY <1>14, ReturnTyped DEF WaitFails, Typed, sound
<1>15. CASE SubscribeEvents
  BY <1>15 DEF SubscribeEvents, Typed, Controls, link, sound, history
<1>16. CASE ReadEvent
  <2>1. ctl' \in Controls
    BY <1>16 DEF ReadEvent, Typed, Controls
  <2>2. view' \in [Element -> Int]
    <3>1. view \in [Element -> Int] /\ Unknown \in Int
      BY DEF Typed, Unknown
    <3>2. ASSUME NEW e PROVE [view EXCEPT ![e] = Unknown] \in [Element -> Int]
      BY <3>1
    <3> QED BY <1>16, <3>2 DEF ReadEvent, Believe
  <2>3. poll' \in BOOLEAN
    BY <1>16 DEF ReadEvent, Typed
  <2> QED BY <1>16, <2>1, <2>2, <2>3 DEF ReadEvent, Typed, link, sound
<1>17. CASE Close
  <2>1. ctl' \in Controls
    BY <1>17 DEF Close, Zeroed, Unset, Controls
  <2>2. toServer' \in Seq(Requests) /\ toClient' \in Seq(Messages) /\ view' \in [Element -> Int]
    BY <1>17 DEF Close, Unknown
  <2> QED BY <1>17, <2>1, <2>2 DEF Close, Typed
<1>18. ASSUME toServer # <<>>, NEW m \in Messages, Answer(m)
       PROVE  toServer' \in Seq(Requests) /\ toClient' \in Seq(Messages)
  BY <1>18, AtTheHead DEF Answer, Typed
<1>19. CASE ServeInfo
  <2>1. PICK r \in {InForce, NoItem} : Answer(Info(r))
    BY <1>19 DEF ServeInfo
  <2>2. Info(r) \in Messages /\ toServer # <<>>
    BY <1>19, AnswerTyped DEF ServeInfo, Reached, Typed
  <2>3. toServer' \in Seq(Requests) /\ toClient' \in Seq(Messages)
    BY <1>18, <2>1, <2>2
  <2>4. used' \in Counters
    BY <1>19, Counted DEF ServeInfo, Typed
  <2> QED BY <1>19, <2>3, <2>4 DEF ServeInfo, Typed, sound
<1>20. ASSUME NEW e \in Element, NEW v \in Int, Change(e, v)
       PROVE  server' \in [Element -> Int] /\ posted' \in BOOLEAN
  BY <1>20 DEF Change, Typed
<1>21. CASE ServeSet
  <2>1. Next1.elem \in Element /\ Next1.value \in Int
    BY <1>21, AtTheHead, RequestTyped DEF ServeSet, Reached, Next1, Typed
  <2>2. server' \in [Element -> Int] /\ posted' \in BOOLEAN
        /\ used' \in Counters
    BY <1>11, <1>20, <1>21, <2>1 DEF ServeSet, Typed
  <2>3. toServer' \in Seq(Requests) /\ toClient' \in Seq(Messages)
    BY <1>18, <1>21, MessageKinds DEF ServeSet, Reached
  <2> QED BY <1>21, <2>2, <2>3 DEF ServeSet, Typed
<1>22. CASE ServeOther
  <2>1. toServer' \in Seq(Requests) /\ toClient' \in Seq(Messages)
    BY <1>18, <1>22, MessageKinds DEF ServeOther, Reached
  <2> QED BY <1>22, <2>1 DEF ServeOther, Typed, history
<1>23. CASE TellOfChange
  <2>1. toClient' \in Seq(Messages)
    BY <1>23, MessageKinds, AtTheEnd DEF TellOfChange, Typed
  <2> QED BY <1>23, <2>1 DEF TellOfChange, Typed, history
<1>24. CASE OtherClient
  <2>1. PICK e \in Touched : \E v \in Values(e) \ {server[e]} : Change(e, v)
    BY <1>24 DEF OtherClient
  <2>2. server' \in [Element -> Int] /\ posted' \in BOOLEAN
    BY <1>20, <2>1, BoundsAssumption, ValuesAreNumbers
  <2>3. used' \in Counters
    BY <1>24, Counted DEF OtherClient, Typed
  <2> QED BY <1>24, <2>2, <2>3 DEF OtherClient, Typed, link
<1>25. ASSUME toClient # <<>>, toClient' = Tail(toClient) PROVE toClient' \in Seq(Messages)
  BY <1>25, AtTheHead DEF Typed
<1>26. CASE InfoCb
  <2>1. /\ Message.values \in Readings /\ Message.mine \in BOOLEAN
        /\ Keys(Message.side) \subseteq Element
    BY <1>26, AtTheHead, InfoTyped, KeysOf DEF InfoCb, Arrived, Message, Typed, Side
  <2>2. ctl' \in Controls
    BY <1>26, <2>1, CopyTakes DEF InfoCb, Typed, Controls
  <2>3. unheard' \subseteq Element
    BY <1>26, <2>1 DEF InfoCb, Typed
  <2> QED BY <1>25, <1>26, <2>1, <2>2, <2>3 DEF InfoCb, Arrived, Typed, Signalled, sound
<1>27. CASE SuccessCb
  BY <1>25, <1>27 DEF SuccessCb, Arrived, Typed, Signalled, sound, history
<1>28. CASE EventCb
  <2>1. toServer' \in Seq(Requests)
    BY <1>28, RequestKinds, TwoMore DEF EventCb, Typed, Side
  <2> QED BY <1>25, <1>28, <2>1 DEF EventCb, Arrived, Typed, sound, history
<1>29. CASE ContextFails
  <2>1. toServer' \in Seq(Requests) /\ toClient' \in Seq(Messages)
    BY <1>29 DEF ContextFails
  <2> QED BY <1>29, <2>1 DEF ContextFails, Typed, history
<1>30. CASE UNCHANGED vars
  BY <1>30 DEF vars, link, sound, history, Typed
<1> QED
  BY <1>1, <1>2, <1>3, <1>4, <1>5, <1>6, <1>7, <1>8, <1>10, <1>12, <1>13, <1>14, <1>15, <1>16,
     <1>17, <1>19, <1>21, <1>22, <1>23, <1>24, <1>26, <1>27, <1>28, <1>29, <1>30
     DEF Next, Application, Server, Mainloop

-----------------------------------------------------------------------------
LEMMA CallingStep == IInv /\ [Next]_vars => Calling'
<1> SUFFICES ASSUME IInv, [Next]_vars PROVE Calling'  OBVIOUS
<1>0. Typed /\ Calling
  BY DEF IInv
<1>1. ASSUME NEW m, NEW q \in Asking, Ask(m, q), ctx = "ready", ctx' = ctx,
             q = "set" => call.op = "write"
      PROVE  Calling'
  BY <1>0, <1>1, CallFields DEF Ask, Calling, Typed, Asking
<1>2. ASSUME Return, awake, toClient' = toClient, posted' = posted,
             ctx = "failed" \/ ctx' = ctx
      PROVE  Calling'
  BY <1>0, <1>2 DEF Return, Calling, Idle, Typed
<1>3. ASSUME NEW op, op # "none", NEW e, NEW v, Begin(op, e, v)
      PROVE  Calling'
  BY <1>0, <1>3 DEF Begin, Calling
<1>4. ASSUME toClient # <<>>, Message.mine PROVE call.pc \in Asking /\ ~done
  <2>1. Answered(1)
    BY <1>0, <1>4, AtTheHead DEF Answered, Message, Typed
  <2> QED BY <2>1 DEF IInv, Own, Answered
<1>5. CASE Open \/ OpenNamed \/ UpdateSource \/ WriteSet
  BY <1>1, <1>5 DEF Open, OpenNamed, UpdateSource, WriteSet, Writing, Waited, WaitReturns, Asking
<1>6. CASE OpenSubscribed \/ EndAttribute \/ EndRead \/ WriteSame \/ WriteRefused \/ EndWrite
  BY <1>2, <1>6 DEF OpenSubscribed, EndAttribute, EndRead, WriteSame, WriteRefused, EndWrite,
     Writing, Waited, WaitReturns, sound
<1>7. CASE GetAttribute \/ ReadInteger \/ WriteInteger
  BY <1>3, <1>7 DEF GetAttribute, ReadInteger, WriteInteger
<1>8. CASE WaitFails
  BY <1>0, <1>2, <1>8 DEF WaitFails, sound
<1>9. CASE SleepAgain
  BY <1>0, <1>9 DEF SleepAgain, Calling
<1>10. CASE SubscribeEvents \/ ReadEvent \/ UNCHANGED vars
  BY <1>0, <1>10 DEF SubscribeEvents, ReadEvent, Calling, link, sound, vars
<1>11. CASE Close \/ ContextFails
  BY <1>0, <1>11 DEF Close, ContextFails, Calling
<1>12. CASE Server
  BY <1>0, <1>12 DEF Server, ServeInfo, ServeSet, ServeOther, TellOfChange, OtherClient, Reached,
     Calling
<1>13. CASE InfoCb \/ SuccessCb \/ EventCb
  <2>1. toClient # <<>> /\ Message \in Messages /\ UNCHANGED <<call, ctx>> /\ ctx = "ready"
    BY <1>0, <1>13, AtTheHead DEF InfoCb, SuccessCb, EventCb, Arrived, Message, Typed, Calling
  <2>2. (Message.kind = "ack" => Message.mine) /\ "idle" \notin Asking /\ "open" \notin Asking
    BY <2>1, MessageTyped DEF Asking
  <2>3. CASE InfoCb \/ SuccessCb
    <3>1. awake' /\ (done' => done \/ Message.mine)
      BY <2>2, <2>3 DEF InfoCb, SuccessCb, Arrived, Message, Signalled
    <3> QED BY <1>0, <1>4, <2>1, <2>2, <3>1 DEF Calling
  <2>4. CASE EventCb
    BY <1>0, <2>1, <2>4 DEF EventCb, Calling
  <2> QED BY <1>13, <2>3, <2>4
<1> QED
  BY <1>5, <1>6, <1>7, <1>8, <1>9, <1>10, <1>11, <1>12, <1>13 DEF Next, Application, Mainloop

-----------------------------------------------------------------------------
(* What is under way for the application's thread, class of step by class  *)
(* of step.                                                                *)
Nothing == (\A i \in 1 .. Len(toServer) : ~Asked(i)) /\ (\A i \in 1 .. Len(toClient) : ~Answered(i))
Mail == Own /\ Waiting

LEMMA NothingMail ==
  ASSUME Nothing', (call.pc \in Asking => done \/ ctx # "ready")'
  PROVE  Mail'
BY DEF Nothing, Mail, Own, Waiting

LEMMA NothingLeft ==
  ASSUME Typed, Own, done \/ call.pc \notin Asking
  PROVE  Nothing
BY DEF Own, Nothing

LEMMA AskMail ==
  ASSUME Typed, Nothing, NEW m \in Requests, NEW q \in Asking, m.mine,
         q \in Side => m.kind = "info" /\ m.side = q,
         toServer' = Append(toServer, m), toClient' = toClient, call'.pc = q, ~done'
  PROVE  Mail'
<1>1. /\ Len(toServer') = Len(toServer) + 1 /\ Len(toServer) \in Nat
      /\ \A i \in 1 .. Len(toServer) : toServer'[i] = toServer[i]
      /\ toServer'[Len(toServer) + 1] = m
  BY AtTheEnd DEF Typed
<1>2. \A i : Asked(i)' <=> i = Len(toServer) + 1
  BY <1>1 DEF Asked, Nothing
<1>3. \A i : ~Answered(i)'
  BY DEF Answered, Nothing
<1>4. Len(toServer) + 1 \in 1 .. Len(toServer')
  BY <1>1
<1> QED
  BY <1>1, <1>2, <1>3, <1>4 DEF Mail, Own, Waiting

(* The answer to a request takes its place.                                *)
LEMMA AnswerMail ==
  ASSUME Typed, Mail, toServer # <<>>, NEW m \in Messages, Answer(m),
         UNCHANGED <<call, done, ctx>>,
         m.mine = toServer[1].mine,
         m.mine /\ call.pc \in Side => m.kind = "info" /\ m.side = call.pc
  PROVE  Mail'
<1> SUFFICES ASSUME NEW n, n = Len(toClient) + 1 PROVE Mail'
  OBVIOUS
<1>1. /\ Len(toServer') = Len(toServer) - 1 /\ Len(toServer) \in Nat \ {0}
      /\ \A i \in 1 .. Len(toServer) - 1 : toServer'[i] = toServer[i + 1]
  BY AtTheHead DEF Typed, Answer
<1>2. /\ Len(toClient') = n /\ Len(toClient) \in Nat
      /\ \A i \in 1 .. Len(toClient) : toClient'[i] = toClient[i]
      /\ toClient'[n] = m
  BY AtTheEnd DEF Typed, Answer
<1>3. \A i \in 1 .. Len(toServer') : Asked(i)' <=> Asked(i + 1)
  BY <1>1 DEF Asked
<1>4. \A i \in 1 .. Len(toClient) : Answered(i)' <=> Answered(i)
  BY <1>2 DEF Answered
<1>5. Answered(n)' <=> Asked(1)
  <2>1. 1 \in 1 .. Len(toServer) /\ n \in 1 .. Len(toClient')
    BY <1>1, <1>2
  <2> QED BY <1>2, <2>1, Zenon DEF Asked, Answered
<1>0. \A i \in 1 .. Len(toClient') : i \in 1 .. Len(toClient) \/ i = n
  BY <1>2
<1>6. CASE Asked(1)
  <2>1. /\ \A j \in 1 .. Len(toServer) : Asked(j) => j = 1
        /\ \A j \in 1 .. Len(toClient) : ~Answered(j)
        /\ ~done /\ call.pc \in Asking
    BY <1>1, <1>6 DEF Mail, Own
  <2>2. \A i \in 1 .. Len(toServer') : ~Asked(i)'
    BY <1>1, <1>3, <2>1
  <2>3. \A i \in 1 .. Len(toClient') : Answered(i)' <=> i = n
    BY <1>0, <1>4, <1>5, <1>6, <2>1, Zenon
  <2>4. n \in 1 .. Len(toClient') /\ m.mine
    BY <1>2, <1>6 DEF Asked
  <2> QED BY <1>2, <2>1, <2>2, <2>3, <2>4 DEF Mail, Own, Waiting
<1>7. CASE ~Asked(1)
  <2>1. \A i \in 1 .. Len(toClient') : Answered(i)' <=> (i \in 1 .. Len(toClient) /\ Answered(i))
    BY <1>0, <1>4, <1>5, <1>7, Zenon
  <2>2. Own'
    <3>1. ASSUME NEW i \in 1 .. Len(toServer'), Asked(i)'
          PROVE  /\ (~done /\ call.pc \in Asking)'
                 /\ (call.pc \in Side => toServer[i].kind = "info" /\ toServer[i].side = call.pc)'
                 /\ \A j \in 1 .. Len(toServer') : Asked(j)' => j = i
                 /\ \A j \in 1 .. Len(toClient') : ~Answered(j)'
      <4>1. i + 1 \in 1 .. Len(toServer) /\ Asked(i + 1) /\ toServer'[i] = toServer[i + 1]
        BY <1>1, <1>3, <3>1
      <4>2. \A j \in 1 .. Len(toServer') : Asked(j)' => j + 1 = i + 1
        BY <1>1, <1>3, <4>1 DEF Mail, Own
      <4>3. \A j \in 1 .. Len(toClient') : ~Answered(j)'
        BY <2>1, <4>1 DEF Mail, Own
      <4>4. /\ ~done' /\ call'.pc \in Asking
            /\ call'.pc \in Side => toServer'[i].kind = "info" /\ toServer'[i].side = call'.pc
        BY <4>1 DEF Mail, Own
      <4> QED BY <1>1, <4>2, <4>3, <4>4
    <3>2. ASSUME NEW i \in 1 .. Len(toClient'), Answered(i)'
          PROVE  /\ (~done /\ call.pc \in Asking)'
                 /\ (call.pc \in Side =>
                       toClient[i].kind = "info" /\ toClient[i].side = call.pc)'
                 /\ \A j \in 1 .. Len(toClient') : Answered(j)' => j = i
      BY <1>2, <2>1, <3>2 DEF Mail, Own
    <3> QED BY <3>1, <3>2 DEF Own
  <2>3. Waiting'
    <3>1. ASSUME NEW i \in 1 .. Len(toServer), Asked(i)
          PROVE  i - 1 \in 1 .. Len(toServer') /\ Asked(i - 1)'
      <4>1. i - 1 \in 1 .. Len(toServer') /\ (i - 1) + 1 = i
        BY <1>1, <1>7, <3>1
      <4> QED BY <1>3, <3>1, <4>1
    <3>2. ASSUME NEW i \in 1 .. Len(toClient), Answered(i)
          PROVE  i \in 1 .. Len(toClient') /\ Answered(i)'
      BY <1>2, <1>4, <3>2
    <3> QED BY <3>1, <3>2 DEF Mail, Waiting
  <2> QED BY <2>2, <2>3 DEF Mail
<1> QED BY <1>6, <1>7

(* A message is taken off the connection; the one waited for ends the wait.*)
LEMMA ReceiveMail ==
  ASSUME Typed, Mail, toClient # <<>>, toClient' = Tail(toClient), UNCHANGED <<call, ctx>>,
         done' = (done \/ toClient[1].mine),
         Len(toServer') \in Nat, Len(toServer) <= Len(toServer'),
         \A i \in 1 .. Len(toServer) : toServer'[i] = toServer[i],
         \A i \in Len(toServer) + 1 .. Len(toServer') : ~toServer'[i].mine
  PROVE  Mail'
<1>1. /\ Len(toClient') = Len(toClient) - 1 /\ Len(toClient) \in Nat \ {0} /\ Len(toServer) \in Nat
      /\ \A i \in 1 .. Len(toClient) - 1 : toClient'[i] = toClient[i + 1]
  BY AtTheHead DEF Typed
<1>2. \A i \in 1 .. Len(toClient') : Answered(i)' <=> Answered(i + 1)
  BY <1>1 DEF Answered
<1>3. \A i \in 1 .. Len(toServer') : Asked(i)' <=> (i \in 1 .. Len(toServer) /\ Asked(i))
  BY <1>1 DEF Asked
<1>4. CASE Answered(1)
  <2>1. /\ \A j \in 1 .. Len(toClient) : Answered(j) => j = 1
        /\ \A j \in 1 .. Len(toServer) : ~Asked(j)
        /\ done' /\ toClient[1].mine
    BY <1>1, <1>4 DEF Mail, Own, Answered
  <2>2. \A i \in 1 .. Len(toClient') : ~Answered(i)'
    BY <1>1, <1>2, <2>1
  <2> QED BY <1>3, <2>1, <2>2, NothingMail DEF Nothing
<1>5. CASE ~Answered(1)
  <2>0. done' = done
    BY <1>1, <1>5 DEF Answered, Typed
  <2>1. Own'
    <3>1. ASSUME NEW i \in 1 .. Len(toServer'), Asked(i)'
          PROVE  /\ (~done /\ call.pc \in Asking)'
                 /\ (call.pc \in Side => toServer[i].kind = "info" /\ toServer[i].side = call.pc)'
                 /\ \A j \in 1 .. Len(toServer') : Asked(j)' => j = i
                 /\ \A j \in 1 .. Len(toClient') : ~Answered(j)'
      BY <1>1, <1>2, <1>3, <2>0, <3>1 DEF Mail, Own
    <3>2. ASSUME NEW i \in 1 .. Len(toClient'), Answered(i)'
          PROVE  /\ (~done /\ call.pc \in Asking)'
                 /\ (call.pc \in Side =>
                       toClient[i].kind = "info" /\ toClient[i].side = call.pc)'
                 /\ \A j \in 1 .. Len(toClient') : Answered(j)' => j = i
      <4>1. i + 1 \in 1 .. Len(toClient) /\ Answered(i + 1) /\ toClient'[i] = toClient[i + 1]
        BY <1>1, <1>2, <3>2
      <4>2. \A j \in 1 .. Len(toClient') : Answered(j)' => j + 1 = i + 1
        BY <1>1, <1>2, <4>1 DEF Mail, Own
      <4> QED BY <1>1, <2>0, <4>1, <4>2 DEF Mail, Own
    <3> QED BY <3>1, <3>2 DEF Own
  <2>2. Waiting'
    <3>1. ASSUME NEW i \in 1 .. Len(toClient), Answered(i)
          PROVE  i - 1 \in 1 .. Len(toClient') /\ Answered(i - 1)'
      <4>1. i - 1 \in 1 .. Len(toClient') /\ (i - 1) + 1 = i
        BY <1>1, <1>5, <3>1
      <4> QED BY <1>2, <3>1, <4>1
    <3>2. ASSUME NEW i \in 1 .. Len(toServer), Asked(i)
          PROVE  i \in 1 .. Len(toServer') /\ Asked(i)'
      BY <1>1, <1>3, <3>2
    <3> QED BY <2>0, <3>1, <3>2 DEF Mail, Waiting
  <2> QED BY <2>1, <2>2 DEF Mail
<1> QED BY <1>4, <1>5

LEMMA SameMail ==
  ASSUME Mail, UNCHANGED <<toServer, call, done, ctx>>, Typed,
         toClient' = toClient \/ \E m \in Messages : ~m.mine /\ toClient' = Append(toClient, m)
  PROVE  Mail'
<1>1. CASE toClient' = toClient
  BY <1>1 DEF Mail, Own, Waiting, Asked, Answered
<1>2. ASSUME NEW m \in Messages, ~m.mine, toClient' = Append(toClient, m) PROVE Mail'
  <2>1. /\ Len(toClient') = Len(toClient) + 1 /\ Len(toClient) \in Nat
        /\ \A i \in 1 .. Len(toClient) : toClient'[i] = toClient[i]
        /\ ~toClient'[Len(toClient) + 1].mine
    BY <1>2, AtTheEnd DEF Typed
  <2>2. \A i : Answered(i)' <=> Answered(i)
    BY <2>1 DEF Answered
  <2>3. \A i : Asked(i)' <=> Asked(i)
    BY DEF Asked
  <2>4. \A i : Answered(i) => i \in 1 .. Len(toClient)
    BY DEF Answered
  <2>5. Own'
    BY <2>1, <2>2, <2>3, <2>4 DEF Mail, Own
  <2>6. Waiting'
    BY <2>1, <2>2, <2>3 DEF Mail, Waiting
  <2> QED BY <2>5, <2>6 DEF Mail
<1> QED BY <1>1, <1>2

(* What each request is answered with.                                     *)
LEMMA AnswerFits ==
  ASSUME IInv, ServeInfo \/ ServeSet \/ ServeOther
  PROVE  \E m \in Messages :
           /\ Answer(m) /\ m.mine = toServer[1].mine /\ toServer # <<>>
           /\ m.mine /\ call.pc \in Side => m.kind = "info" /\ m.side = call.pc
           /\ UNCHANGED <<call, done, ctx>>
<1>0. Typed /\ Own
  BY DEF IInv
<1>1. /\ toServer # <<>> /\ Next1 = toServer[1] /\ Next1 \in Requests
      /\ 1 \in 1 .. Len(toServer) /\ UNCHANGED <<call, done, ctx>>
  BY <1>0, AtTheHead DEF ServeInfo, ServeSet, ServeOther, Reached, Next1, Typed
<1>2. Next1.mine /\ call.pc \in Side => Next1.kind = "info" /\ Next1.side = call.pc
  BY <1>0, <1>1 DEF Own, Asked
<1>3. CASE ServeInfo
  <2>1. PICK r \in {InForce, NoItem} : Answer(Info(r))
    BY <1>3 DEF ServeInfo
  <2>2. /\ Info(r) \in Messages /\ Info(r).mine = Next1.mine
        /\ Info(r).kind = "info" /\ Info(r).side = Next1.side
    BY <1>0, <1>1, <1>3, AnswerTyped DEF ServeInfo, Typed
  <2> QED BY <1>1, <1>2, <2>1, <2>2
<1>4. CASE ServeSet \/ ServeOther
  <2> DEFINE m == [kind |-> "ack", mine |-> TRUE]
  <2>1. m \in Messages /\ m.mine /\ Answer(m)
    BY <1>4, MessageKinds DEF ServeSet, ServeOther
  <2>2. Next1.kind # "info"
    BY <1>4 DEF ServeSet, ServeOther
  <2>3. Next1.mine = TRUE
    BY <1>1, <2>2 DEF Requests, InfoRequests
  <2> QED BY <1>1, <1>2, <2>1, <2>2, <2>3
<1> QED BY <1>3, <1>4

LEMMA MailStep == IInv /\ [Next]_vars => Mail'
<1> SUFFICES ASSUME IInv, [Next]_vars PROVE Mail'  OBVIOUS
<1>0. Typed /\ Calling /\ Own /\ Mail
  BY DEF IInv, Mail
<1>1. ASSUME NEW m \in Requests, m.mine, NEW q \in Asking, Ask(m, q),
             q \in Side => m.kind = "info" /\ m.side = q,
             done \/ call.pc \notin Asking, toClient' = toClient
      PROVE  Mail'
  <2>1. call'.pc = q /\ ~done' /\ toServer' = Append(toServer, m)
    BY <1>0, <1>1, CallFields DEF Ask, Typed
  <2> QED BY <1>0, <1>1, <2>1, NothingLeft, AskMail
<1>2. ASSUME Return, done \/ call.pc \notin Asking \/ ctx = "failed", toClient' = toClient
      PROVE  Mail'
  <2>1. Nothing'
    <3>1. CASE ctx = "failed"
      BY <1>0, <1>2, <3>1 DEF Calling, Return, Nothing, Asked, Answered
    <3>2. CASE done \/ call.pc \notin Asking
      BY <1>0, <1>2, <3>2, NothingLeft DEF Return, Nothing, Asked, Answered
    <3> QED BY <1>2, <3>1, <3>2
  <2>2. call'.pc \notin Asking
    BY <1>2 DEF Return, Idle, Asking
  <2> QED BY <2>1, <2>2, NothingMail
<1>3. CASE Open \/ OpenNamed
  <2>1. PICK m \in Requests, q \in {"names", "subscribe"} : Ask(m, q) /\ m.mine
    BY <1>3, RequestKinds DEF Open, OpenNamed, Request
  <2>2. q \in Asking /\ q \notin Side /\ (done \/ call.pc \notin Asking) /\ toClient' = toClient
    BY <1>3 DEF Open, OpenNamed, Asking, Side, Waited, WaitReturns
  <2> QED BY <1>1, <2>1, <2>2
<1>4. CASE UpdateSource
  <2>1. InfoRequest("source", TRUE) \in Requests
    BY RequestKinds DEF Side
  <2>2. /\ "source" \in Asking /\ done /\ toClient' = toClient
        /\ Ask(InfoRequest("source", TRUE), "source")
    BY <1>4 DEF UpdateSource, Asking, Waited, WaitReturns
  <2>3. /\ InfoRequest("source", TRUE).mine /\ InfoRequest("source", TRUE).kind = "info"
        /\ InfoRequest("source", TRUE).side = "source"
    BY DEF InfoRequest
  <2> QED BY <1>1, <2>1, <2>2, <2>3
<1>5. CASE WriteSet
  <2>1. PICK m \in Requests : Ask(m, "set") /\ m.mine
    BY <1>0, <1>5, RequestKinds, CallFields DEF WriteSet, Typed
  <2>2. "set" \in Asking /\ "set" \notin Side /\ done /\ toClient' = toClient
    BY <1>5 DEF WriteSet, Writing, Waited, WaitReturns, Asking, Side
  <2> QED BY <1>1, <2>1, <2>2
<1>6. CASE OpenSubscribed \/ EndAttribute \/ EndRead \/ WriteSame \/ WriteRefused \/ EndWrite
           \/ WaitFails
  <2>1. Return /\ (done \/ ctx = "failed") /\ toClient' = toClient
    BY <1>6 DEF OpenSubscribed, EndAttribute, EndRead, WriteSame, WriteRefused, EndWrite, WaitFails,
       Writing, Waited, WaitReturns
  <2> QED BY <1>2, <2>1
<1>7. CASE GetAttribute \/ ReadInteger \/ WriteInteger
  <2>1. PICK op, e, v : Begin(op, e, v)
    BY <1>7 DEF GetAttribute, ReadInteger, WriteInteger
  <2>2. /\ call.pc \notin Asking /\ toClient' = toClient /\ call'.pc = "sink" /\ ~done'
        /\ toServer' = Append(toServer, InfoRequest("sink", TRUE))
    BY <2>1 DEF Begin, Asking
  <2>3. /\ InfoRequest("sink", TRUE) \in Requests /\ "sink" \in Asking
        /\ InfoRequest("sink", TRUE).mine /\ InfoRequest("sink", TRUE).kind = "info"
        /\ InfoRequest("sink", TRUE).side = "sink"
    BY RequestKinds DEF InfoRequest, Side, Asking
  <2> QED BY <1>0, <2>2, <2>3, NothingLeft, AskMail
<1>8. CASE SleepAgain \/ SubscribeEvents \/ ReadEvent \/ OtherClient \/ UNCHANGED vars
  <2>1. UNCHANGED <<toServer, toClient, call, done, ctx>>
    BY <1>8 DEF SleepAgain, SubscribeEvents, ReadEvent, OtherClient, vars, link
  <2> QED BY <1>0, <2>1, SameMail
<1>9. CASE TellOfChange
  BY <1>0, <1>9, MessageKinds, SameMail DEF TellOfChange
<1>10. CASE Close \/ ContextFails
  <2>1. toServer' = <<>> /\ toClient' = <<>> /\ ctx' # "ready"
    BY <1>10 DEF Close, ContextFails
  <2>2. Nothing'
    BY <2>1 DEF Nothing, Asked, Answered
  <2> QED BY <2>1, <2>2, NothingMail
<1>11. CASE ServeInfo \/ ServeSet \/ ServeOther
  BY <1>0, <1>11, AnswerFits, AnswerMail
<1>12. CASE InfoCb \/ SuccessCb \/ EventCb
  <2>1. /\ toClient # <<>> /\ toClient' = Tail(toClient) /\ UNCHANGED <<call, ctx>>
        /\ Message = toClient[1] /\ Message \in Messages /\ Len(toServer) \in Nat
    BY <1>0, <1>12, AtTheHead DEF InfoCb, SuccessCb, EventCb, Arrived, Message, Typed
  <2>2. CASE InfoCb \/ SuccessCb
    <3>1. toServer' = toServer /\ done' = (done \/ Message.mine)
      BY <2>1, <2>2, MessageTyped DEF InfoCb, SuccessCb, Arrived, Message
    <3> QED BY <1>0, <2>1, <3>1, ReceiveMail
  <2>3. CASE EventCb
    <3> DEFINE x == InfoRequest("sink", FALSE)
               y == InfoRequest("source", FALSE)
    <3>1. x \in Requests /\ y \in Requests /\ ~x.mine /\ ~y.mine
      BY RequestKinds DEF InfoRequest, Side
    <3>2. toServer' = toServer \o <<x, y>> /\ done' = done
      BY <2>3 DEF EventCb
    <3> HIDE DEF x, y
    <3>3. /\ Len(toServer') = Len(toServer) + 2
          /\ \A i \in 1 .. Len(toServer) : toServer'[i] = toServer[i]
          /\ toServer'[Len(toServer) + 1] = x /\ toServer'[Len(toServer) + 2] = y
      BY <1>0, <3>1, <3>2, TwoMore DEF Typed
    <3>4. \A i \in Len(toServer) + 1 .. Len(toServer') : ~toServer'[i].mine
      BY <2>1, <3>1, <3>3
    <3>5. ~Message.mine
      BY <2>1, <2>3, MessageTyped DEF EventCb, Arrived, Message
    <3>6. done' = (done \/ toClient[1].mine)
      BY <1>0, <2>1, <3>2, <3>5 DEF Typed
    <3> QED BY <1>0, <2>1, <3>3, <3>4, <3>6, ReceiveMail
  <2> QED BY <1>12, <2>2, <2>3
<1> QED
  BY <1>3, <1>4, <1>5, <1>6, <1>7, <1>8, <1>9, <1>10, <1>11, <1>12
     DEF Next, Application, Server, Mainloop

-----------------------------------------------------------------------------
(* A read and the values its element has had.  Nothing the application or  *)
(* the server does makes what is under way older.                          *)
LEMMA ReadingSent ==
  ASSUME Typed, Reading, UNCHANGED <<call, done, unheard>>, ctl'.copy = ctl.copy,
         call.op = "read" => during \subseteq during' /\ server'[call.elem] \in during',
         \/ toClient' = toClient
         \/ \E m \in Messages :
              /\ toClient' = Append(toClient, m)
              /\ call.op = "read" /\ Carries(m, call.elem) => m.values[call.elem] \in during'
  PROVE  Reading'
<1> SUFFICES ASSUME call.op = "read" PROVE Reading'
  BY DEF Reading
<1>1. CASE toClient' = toClient
  BY <1>1 DEF Reading, Answered, FreshFrom, Current, Carries, Mentions
<1>2. ASSUME NEW m \in Messages, toClient' = Append(toClient, m),
             Carries(m, call.elem) => m.values[call.elem] \in during'
      PROVE  Reading'
  <2>1. /\ Len(toClient') = Len(toClient) + 1 /\ Len(toClient) \in Nat
        /\ \A i \in 1 .. Len(toClient) : toClient'[i] = toClient[i]
        /\ toClient'[Len(toClient) + 1] = m
    BY <1>2, AtTheEnd DEF Typed
  <2>2. ASSUME NEW i \in 1 .. Len(toClient), FreshFrom(i) PROVE FreshFrom(i)'
    <3>1. ASSUME NEW j \in 1 .. Len(toClient'), j >= i, Carries(toClient'[j], call.elem)
          PROVE  toClient'[j].values[call.elem] \in during'
      <4>1. CASE j \in 1 .. Len(toClient)
        BY <2>1, <2>2, <3>1, <4>1 DEF FreshFrom
      <4>2. CASE j = Len(toClient) + 1
        BY <1>2, <2>1, <3>1, <4>2
      <4> QED BY <2>1, <4>1, <4>2
    <3> QED BY <3>1 DEF FreshFrom, Carries, Mentions
  <2>3. ASSUME NEW i, i = Len(toClient) + 1 PROVE FreshFrom(i)'
    BY <1>2, <2>1, <2>3 DEF FreshFrom, Carries, Mentions
  <2>4. ASSUME NEW i \in 1 .. Len(toClient'), Answered(i)', Mentions(toClient'[i], call'.elem)
        PROVE  FreshFrom(i)'
    <3>1. CASE i = Len(toClient) + 1
      BY <2>3, <3>1
    <3>2. CASE i \in 1 .. Len(toClient)
      BY <2>1, <2>2, <2>4, <3>2 DEF Reading, Answered, Mentions
    <3> QED BY <2>1, <3>1, <3>2
  <2>5. Current' => FreshFrom(1)' /\ (call'.elem \notin unheard' => ctl'.copy[call'.elem] \in during')
    <3>1. Current' => Current
      BY DEF Current
    <3>2. CASE Len(toClient) = 0
      BY <2>3, <3>1, <3>2 DEF Reading
    <3>3. CASE Len(toClient) # 0
      <4>1. 1 \in 1 .. Len(toClient)
        BY <2>1, <3>3
      <4> QED BY <2>2, <3>1, <4>1 DEF Reading
    <3> QED BY <3>2, <3>3
  <2> QED BY <2>4, <2>5 DEF Reading
<1> QED BY <1>1, <1>2

LEMMA ReadingReceived ==
  ASSUME Typed, Reading, UNCHANGED <<call, server, during>>,
         toClient # <<>>, toClient' = Tail(toClient),
         Current' => Current \/ (Answered(1) /\ Mentions(toClient[1], call.elem)),
         Current' /\ call.elem \notin unheard' =>
           \/ /\ Current /\ call.elem \notin unheard
              /\ ctl'.copy[call.elem] = ctl.copy[call.elem]
           \/ /\ Carries(toClient[1], call.elem)
              /\ ctl'.copy[call.elem] = toClient[1].values[call.elem]
  PROVE  Reading'
<1> SUFFICES ASSUME call.op = "read" PROVE Reading'
  BY DEF Reading
<1>1. /\ Len(toClient') = Len(toClient) - 1 /\ Len(toClient) \in Nat \ {0}
      /\ \A i \in 1 .. Len(toClient) - 1 : toClient'[i] = toClient[i + 1]
  BY AtTheHead DEF Typed
<1>2. ASSUME NEW i \in 1 .. Len(toClient'), FreshFrom(i + 1) PROVE FreshFrom(i)'
  BY <1>1, <1>2 DEF FreshFrom, Carries, Mentions
<1>3. FreshFrom(1) => FreshFrom(1)'
  BY <1>1 DEF FreshFrom, Carries, Mentions
<1>4. ASSUME NEW i \in 1 .. Len(toClient'), Answered(i)', Mentions(toClient'[i], call'.elem)
      PROVE  FreshFrom(i)'
  <2>1. i + 1 \in 1 .. Len(toClient) /\ toClient'[i] = toClient[i + 1]
    BY <1>1
  <2>2. Answered(i + 1) /\ Mentions(toClient[i + 1], call.elem)
    BY <1>4, <2>1 DEF Answered, Mentions
  <2> QED BY <1>2, <2>1, <2>2 DEF Reading
<1>5. ASSUME Current'
      PROVE  FreshFrom(1)' /\ (call'.elem \notin unheard' => ctl'.copy[call'.elem] \in during')
  <2>1. 1 \in 1 .. Len(toClient)
    BY <1>1
  <2>2. FreshFrom(1)
    BY <1>5, <2>1 DEF Reading
  <2>3. Carries(toClient[1], call.elem) => toClient[1].values[call.elem] \in during
    BY <2>1, <2>2 DEF FreshFrom
  <2>4. Current /\ call.elem \notin unheard => ctl.copy[call.elem] \in during
    BY DEF Reading
  <2> QED BY <1>3, <1>5, <2>2, <2>3, <2>4
<1>6. server'[call'.elem] \in during'
  BY DEF Reading
<1> QED BY <1>4, <1>5, <1>6 DEF Reading

LEMMA ReadingStep == IInv /\ [Next]_vars => Reading'
<1> SUFFICES ASSUME IInv, [Next]_vars PROVE Reading'  OBVIOUS
<1>0. Typed /\ Calling /\ Own /\ Reading
  BY DEF IInv
<1>1. CASE OpenSubscribed \/ EndAttribute \/ EndRead \/ WriteSame \/ WriteRefused \/ EndWrite
           \/ WaitFails
  <2>1. call'.op = "none"
    BY <1>1 DEF OpenSubscribed, EndAttribute, EndRead, WriteSame, WriteRefused, EndWrite, WaitFails,
       Return, Idle
  <2> QED BY <2>1 DEF Reading
<1>2. ASSUME NEW m, NEW q \in Asking, Ask(m, q),
             UNCHANGED <<toClient, server, during, unheard, ctl>>,
             q \in Side => q = "source" /\ call.pc = "sink" /\ done
      PROVE  Reading'
  <2>1. call'.elem = call.elem /\ call'.op = call.op /\ call'.pc = q /\ ~done'
    BY <1>0, <1>2, CallFields DEF Ask, Typed
  <2>2. Current' => Current
    BY <1>2, <2>1 DEF Current, Side
  <2> QED BY <1>0, <1>2, <2>1, <2>2 DEF Reading, FreshFrom, Answered, Carries, Mentions
<1>3. CASE Open \/ OpenNamed
  <2>1. PICK m \in Requests, q \in {"names", "subscribe"} : Ask(m, q)
    BY <1>3, RequestKinds DEF Open, OpenNamed
  <2>2. q \in Asking /\ q \notin Side /\ UNCHANGED <<toClient, server, during, unheard, ctl>>
    BY <1>3 DEF Open, OpenNamed, Asking, Side, sound, history
  <2> QED BY <1>2, <2>1, <2>2
<1>4. CASE UpdateSource
  <2>1. /\ "source" \in Asking /\ call.pc = "sink" /\ done
        /\ UNCHANGED <<toClient, server, during, unheard, ctl>>
        /\ Ask(InfoRequest("source", TRUE), "source")
    BY <1>4 DEF UpdateSource, Asking, Waited, WaitReturns, sound, history
  <2> QED BY <1>2, <2>1
<1>5. CASE WriteSet
  <2>1. call.op = "write" /\ call'.op = call.op
    BY <1>0, <1>5, CallFields DEF WriteSet, Writing, Ask, Typed, Asking
  <2> QED BY <2>1 DEF Reading
<1>6. CASE GetAttribute \/ ReadInteger \/ WriteInteger
  <2>1. PICK op, e, v : Begin(op, e, v)
    BY <1>6 DEF GetAttribute, ReadInteger, WriteInteger
  <2>2. /\ call' = [pc |-> "sink", op |-> op, elem |-> e, value |-> v] /\ done' = FALSE
        /\ toClient' = toClient /\ server' = server /\ call.pc \notin Asking
        /\ op = "read" => during' = {server[e]}
    BY <2>1 DEF Begin, sound, Asking
  <2>3. \A i \in 1 .. Len(toClient') : ~Answered(i)'
    BY <1>0, <2>2, NothingLeft DEF Nothing, Answered
  <2>4. ~Current'
    BY <2>2 DEF Current
  <2> QED BY <2>2, <2>3, <2>4 DEF Reading
<1>7. CASE SleepAgain \/ SubscribeEvents \/ ReadEvent \/ UNCHANGED vars
  <2>1. UNCHANGED <<call, done, toClient, server, during, unheard>>
    BY <1>7 DEF SleepAgain, SubscribeEvents, ReadEvent, vars, link, sound, history
  <2>2. ctl'.copy = ctl.copy
    BY <1>0, <1>7 DEF SleepAgain, SubscribeEvents, ReadEvent, vars, Typed, Controls
  <2> QED BY <1>0, <2>1, <2>2, ReadingSent DEF Reading
<1>8. CASE Close
  BY <1>0, <1>8 DEF Close, Calling, Reading
<1>9. CASE ContextFails
  <2>1. toClient' = <<>> /\ UNCHANGED <<ctl, call, done, server, during, unheard>>
    BY <1>9 DEF ContextFails, history
  <2> QED BY <1>0, <2>1 DEF Reading, Answered, FreshFrom, Current
<1>10. ASSUME NEW e, NEW v, Change(e, v), UNCHANGED call
       PROVE  call.op = "read" => during \subseteq during' /\ server'[call.elem] \in during'
  <2>1. call.elem \in DOMAIN server
    BY <1>0, CallFields DEF Typed
  <2> QED BY <1>0, <1>10, <2>1 DEF Change, Reading
<1>11. CASE ServeInfo
  <2>1. PICK r \in {InForce, NoItem} : Answer(Info(r))
    BY <1>11 DEF ServeInfo
  <2>2. /\ Info(r) \in Messages /\ toClient' = Append(toClient, Info(r))
        /\ Carries(Info(r), call.elem) => Info(r).values[call.elem] = server[call.elem]
    BY <1>0, <1>11, <2>1, AnswerTyped DEF ServeInfo, Reached, Answer, Typed
  <2>3. UNCHANGED <<call, done, ctl, server, during, unheard>>
    BY <1>11 DEF ServeInfo, sound
  <2>4. call.op = "read" /\ Carries(Info(r), call.elem) => Info(r).values[call.elem] \in during'
    BY <1>0, <2>2, <2>3 DEF Reading
  <2>5. call.op = "read" => during \subseteq during' /\ server'[call.elem] \in during'
    BY <1>0, <2>3 DEF Reading
  <2> QED BY <1>0, <2>2, <2>3, <2>4, <2>5, ReadingSent
<1>12. ASSUME NEW k \in {"ack", "event"}, NEW b PROVE ~Carries([kind |-> k, mine |-> b], call.elem)
  BY DEF Carries, Mentions
<1>13. CASE ServeSet \/ ServeOther \/ TellOfChange
  <2>1. \E m \in Messages : toClient' = Append(toClient, m) /\ ~Carries(m, call.elem)
    BY <1>12, <1>13, MessageKinds DEF ServeSet, ServeOther, TellOfChange, Answer
  <2>2. UNCHANGED <<call, done, ctl, unheard>>
    BY <1>13 DEF ServeSet, ServeOther, TellOfChange, history
  <2>3. call.op = "read" => during \subseteq during' /\ server'[call.elem] \in during'
    BY <1>0, <1>10, <1>13, <2>2 DEF ServeSet, ServeOther, TellOfChange, Reading, history
  <2> QED BY <1>0, <2>1, <2>2, <2>3, ReadingSent
<1>14. CASE OtherClient
  <2>1. UNCHANGED <<call, done, ctl, toClient, unheard>>
    BY <1>14 DEF OtherClient, link
  <2>2. call.op = "read" => during \subseteq during' /\ server'[call.elem] \in during'
    BY <1>10, <1>14, <2>1 DEF OtherClient
  <2> QED BY <1>0, <2>1, <2>2, ReadingSent
<1>15. CASE InfoCb \/ SuccessCb \/ EventCb
  <2>1. /\ toClient # <<>> /\ toClient' = Tail(toClient) /\ UNCHANGED <<call, server, during>>
        /\ Message = toClient[1] /\ Message \in Messages /\ 1 \in 1 .. Len(toClient)
    BY <1>0, <1>15, AtTheHead
    DEF InfoCb, SuccessCb, EventCb, Arrived, Message, Typed, sound, history
  <2>2. Message.mine => Answered(1)
    BY <2>1 DEF Answered
  <2>3. CASE InfoCb
    <3>1. Message.kind = "info" /\ Message.values \in Readings /\ done' = (done \/ Message.mine)
      BY <2>1, <2>3, InfoTyped DEF InfoCb, Arrived, Message
    <3>0. call.elem \in unheard' <=> IF Mentions(Message, call.elem) THEN ~Carries(Message, call.elem)
                                                                   ELSE call.elem \in unheard
      BY <2>1, <2>3, <3>1 DEF InfoCb, Mentions, Carries
    <3>2. ctl'.copy = Refreshed(Differing(Message.values), Message.values)
      BY <1>0, <2>3 DEF InfoCb, Typed, Controls
    <3>3. call.elem \in Element
      BY <1>0, CallFields DEF Typed
    <3>4. ctl'.copy[call.elem] = IF Carries(Message, call.elem)
                                   THEN Message.values[call.elem] ELSE ctl.copy[call.elem]
      BY <1>0, <2>1, <3>1, <3>2, <3>3, CopyTakes, CarriedIn
    <3>5. Current' /\ ~Current => Message.mine /\ call.pc \in Side /\ call.elem \in Keys(call.pc)
      BY <2>1, <3>1, <3>3, KeysOf DEF Current, Side
    <3>6. Current' /\ ~Current => Answered(1) /\ Mentions(Message, call.elem)
      BY <1>0, <2>1, <2>2, <3>1, <3>5 DEF Own, Mentions
    <3>7. Carries(Message, call.elem) => Mentions(Message, call.elem)
      BY DEF Carries
    <3> QED BY <1>0, <2>1, <3>0, <3>4, <3>6, <3>7, ReadingReceived
  <2>4. CASE SuccessCb
    <3>1. Message.mine /\ Message.kind = "ack"
      BY <2>1, <2>4, MessageTyped DEF SuccessCb, Arrived, Message
    <3>2. call.pc \notin Side
      BY <1>0, <2>1, <2>2, <3>1 DEF Own
    <3>3. ~Current'
      BY <2>1, <3>2 DEF Current, Side
    <3> QED BY <1>0, <2>1, <3>3, ReadingReceived
  <2>5. CASE EventCb
    <3>1. (Current' => Current /\ ctl'.copy = ctl.copy) /\ unheard' = unheard
      BY <2>1, <2>5 DEF EventCb, Current, history
    <3> QED BY <1>0, <2>1, <3>1, ReadingReceived
  <2> QED BY <1>15, <2>3, <2>4, <2>5
<1> QED
  BY <1>1, <1>3, <1>4, <1>5, <1>6, <1>7, <1>8, <1>9, <1>11, <1>13, <1>14, <1>15
     DEF Next, Application, Server, Mainloop

-----------------------------------------------------------------------------
(* A request for the subscription stays under way until the server has it. *)
Subscribing == \E i \in 1 .. Len(toServer) : toServer[i].kind = "subscribe"

LEMMA SubscribingAsked ==
  ASSUME Typed, NEW m \in Requests, toServer' = Append(toServer, m)
  PROVE  Subscribing \/ m.kind = "subscribe" => Subscribing'
<1>1. /\ Len(toServer') = Len(toServer) + 1 /\ Len(toServer) \in Nat
      /\ \A i \in 1 .. Len(toServer) : toServer'[i] = toServer[i]
      /\ toServer'[Len(toServer) + 1] = m
  BY AtTheEnd DEF Typed
<1>2. ASSUME m.kind = "subscribe" PROVE Subscribing'
  <2>1. \E i \in 1 .. Len(toServer') : toServer'[i] = m
    BY <1>1
  <2> QED BY <1>2, <2>1 DEF Subscribing
<1>3. Subscribing => Subscribing'
  BY <1>1 DEF Subscribing
<1> QED BY <1>2, <1>3

LEMMA SubscribingServed ==
  ASSUME Typed, Subscribing, toServer # <<>>, toServer' = Tail(toServer)
  PROVE  Subscribing' \/ Next1.kind = "subscribe"
<1>1. /\ Len(toServer') = Len(toServer) - 1 /\ Len(toServer) \in Nat \ {0} /\ Next1 = toServer[1]
      /\ \A i \in 1 .. Len(toServer) - 1 : toServer'[i] = toServer[i + 1]
  BY AtTheHead DEF Typed, Next1
<1>2. PICK i \in 1 .. Len(toServer) : toServer[i].kind = "subscribe"
  BY DEF Subscribing
<1>3. CASE i = 1
  BY <1>1, <1>2, <1>3
<1>4. CASE i # 1
  <2>1. i - 1 \in 1 .. Len(toServer') /\ toServer'[i - 1] = toServer[i]
    <3>1. i - 1 \in 1 .. Len(toServer) - 1 /\ (i - 1) + 1 = i
      BY <1>1, <1>4
    <3> QED BY <1>1, <3>1
  <2> QED BY <1>2, <2>1 DEF Subscribing
<1> QED BY <1>3, <1>4

LEMMA TellingFrame ==
  ASSUME Telling, ctx' = "ready" => ctx = "ready",
         ctx = "ready" /\ call'.pc \notin Opening => call.pc \notin Opening \/ told,
         ctx = "ready" /\ call'.pc = "subscribe" =>
           Subscribing' \/ (call.pc = "subscribe" /\ (told' \/ Subscribing => told' \/ Subscribing')),
         call'.pc \in Opening => call.pc \in Opening /\ view' = view,
         told => told', ctx = "ready" => (poll' <=> ctl'.updated # {})
  PROVE  Telling'
BY DEF Telling, Subscribing

LEMMA TellingStep == IInv /\ [Next]_vars => Telling'
<1> SUFFICES ASSUME IInv, [Next]_vars PROVE Telling'  OBVIOUS
<1>0. Typed /\ Calling /\ Own /\ Telling
  BY DEF IInv
<1>p. ctx = "ready" => (poll <=> ctl.updated # {})
  BY <1>0 DEF Telling
<1>1. CASE Open \/ OpenNamed
  <2>1. PICK m \in Requests, q \in {"names", "subscribe"} :
          Ask(m, q) /\ (q = "subscribe" => m.kind = "subscribe")
    BY <1>1, RequestKinds DEF Open, OpenNamed, Request
  <2>2. toServer' = Append(toServer, m) /\ call'.pc = q
    BY <1>0, <2>1, CallFields DEF Ask, Typed, Asking
  <2>3. UNCHANGED <<ctx, told, view, poll, ctl>> /\ call.pc \in Opening /\ q \in Opening
    BY <1>1 DEF Open, OpenNamed, Waited, sound, history, Opening
  <2>4. q = "subscribe" => Subscribing'
    BY <1>0, <2>1, <2>2, SubscribingAsked
  <2> QED BY <1>0, <1>p, <2>2, <2>3, <2>4, TellingFrame
<1>2. CASE OpenSubscribed
  <2>1. call.pc = "subscribe" /\ done /\ ctx = "ready" /\ call'.pc = "idle"
    BY <1>2 DEF OpenSubscribed, Waited, WaitReturns, Return, Idle
  <2>2. ~Subscribing
    <3>1. ASSUME NEW i \in 1 .. Len(toServer), toServer[i].kind = "subscribe" PROVE FALSE
      <4>1. toServer[i] \in Requests
        BY <1>0 DEF Typed
      <4>2. toServer[i].mine
        BY <3>1, <4>1, RequestTyped
      <4> QED BY <1>0, <2>1, <4>2, NothingLeft DEF Nothing, Asked
    <3> QED BY <3>1 DEF Subscribing
  <2>3. told
    BY <1>0, <2>1, <2>2 DEF Telling, Subscribing
  <2>4. UNCHANGED <<ctx, told, view, poll, ctl>>
    BY <1>2 DEF OpenSubscribed, sound, history
  <2> QED BY <1>0, <1>p, <2>1, <2>3, <2>4, TellingFrame DEF Opening
<1>3. CASE EndAttribute \/ EndRead \/ WriteSame \/ WriteRefused \/ EndWrite
  <2>1. /\ call.pc \in {"source", "set"} /\ call'.pc = "idle" /\ UNCHANGED <<ctx, told, poll>>
        /\ ctl'.updated = ctl.updated
    BY <1>0, <1>3 DEF EndAttribute, EndRead, WriteSame, WriteRefused, EndWrite, Writing, Waited,
       Return, Idle, Store, sound, Typed, Controls
  <2> QED BY <1>0, <1>p, <2>1, TellingFrame DEF Opening
<1>4. CASE WaitFails
  BY <1>4 DEF WaitFails, Telling
<1>5. CASE GetAttribute \/ ReadInteger \/ WriteInteger
  <2>1. PICK op, e, v : Begin(op, e, v)
    BY <1>5 DEF GetAttribute, ReadInteger, WriteInteger
  <2>2. call.pc = "idle" /\ call'.pc = "sink" /\ UNCHANGED <<ctx, told, poll, ctl>>
    BY <2>1 DEF Begin, sound
  <2> QED BY <1>0, <1>p, <2>2, TellingFrame DEF Opening
<1>6. CASE UpdateSource \/ WriteSet
  <2>1. PICK q \in {"source", "set"}, m \in Requests : Ask(m, q)
    BY <1>0, <1>6, RequestKinds, CallFields DEF UpdateSource, WriteSet, Side, Typed
  <2>2. call'.pc = q
    BY <1>0, <2>1, CallFields DEF Ask, Typed, Asking
  <2>3. call.pc \in {"sink", "source"} /\ UNCHANGED <<ctx, told, poll>> /\ ctl'.updated = ctl.updated
    BY <1>0, <1>6 DEF UpdateSource, WriteSet, Writing, Waited, Store, sound, Typed, Controls
  <2> QED BY <1>0, <1>p, <2>2, <2>3, TellingFrame DEF Opening
<1>7. CASE SleepAgain \/ SubscribeEvents \/ UNCHANGED vars \/ OtherClient
  <2>1. UNCHANGED <<call, ctx, toServer, told, view, poll>> /\ ctl'.updated = ctl.updated
    BY <1>0, <1>7
    DEF SleepAgain, SubscribeEvents, OtherClient, vars, link, sound, history, Typed, Controls
  <2> QED BY <1>0, <1>p, <2>1, TellingFrame DEF Subscribing, Telling
<1>8. CASE ReadEvent
  <2>1. PICK e : ctl'.updated = ctl.updated \ {e} /\ poll' = (poll /\ ctl.updated # {e})
    BY <1>0, <1>8 DEF ReadEvent, Typed, Controls
  <2>2. poll' <=> ctl'.updated # {}
    BY <1>0, <1>p, <1>8, <2>1 DEF ReadEvent
  <2>3. call.pc = "idle" /\ UNCHANGED <<call, ctx, told>>
    BY <1>8 DEF ReadEvent, sound
  <2> QED BY <1>0, <2>2, <2>3, TellingFrame DEF Opening
<1>9. CASE Close \/ ContextFails
  BY <1>9 DEF Close, ContextFails, Telling
<1>10. CASE ServeInfo \/ ServeSet \/ ServeOther
  <2>1. toServer # <<>> /\ toServer' = Tail(toServer) /\ UNCHANGED <<call, ctx, view, poll, ctl>>
    BY <1>10 DEF ServeInfo, ServeSet, ServeOther, Reached, Answer, history
  <2>2. (told => told') /\ (Next1.kind = "subscribe" => told')
    <3>1. CASE ServeInfo \/ ServeSet
      BY <3>1 DEF ServeInfo, ServeSet, sound
    <3>2. CASE ServeOther
      BY <1>0, <3>2 DEF ServeOther, Typed
    <3> QED BY <1>10, <3>1, <3>2
  <2>3. told \/ Subscribing => told' \/ Subscribing'
    BY <1>0, <2>1, <2>2, SubscribingServed
  <2> QED BY <1>0, <1>p, <2>1, <2>2, <2>3, TellingFrame DEF Telling, Subscribing
<1>11. CASE TellOfChange \/ SuccessCb
  <2>1. UNCHANGED <<call, ctx, toServer, told, view, poll, ctl>>
    BY <1>11 DEF TellOfChange, SuccessCb, sound, history
  <2> QED BY <1>0, <1>p, <2>1, TellingFrame DEF Subscribing, Telling
<1>12. CASE InfoCb
  <2>1. UNCHANGED <<call, ctx, toServer, told, view>>
    BY <1>12 DEF InfoCb, sound, history
  <2>2. /\ ctl'.updated = ctl.updated \cup Differing(Message.values)
        /\ poll' = (poll \/ Differing(Message.values) # {})
    BY <1>0, <1>12 DEF InfoCb, Typed, Controls
  <2>3. ctx = "ready" => (poll' <=> ctl'.updated # {})
    BY <1>p, <2>2
  <2> QED BY <1>0, <2>1, <2>3, TellingFrame DEF Subscribing, Telling
<1>13. CASE EventCb
  <2>1. UNCHANGED <<call, ctx, told, view, poll, ctl>>
    BY <1>13 DEF EventCb, sound, history
  <2>2. /\ Len(toServer') = Len(toServer) + 2 /\ Len(toServer) \in Nat
        /\ \A i \in 1 .. Len(toServer) : toServer'[i] = toServer[i]
    BY <1>0, <1>13, RequestKinds, TwoMore DEF EventCb, Typed, Side
  <2>3. Subscribing => Subscribing'
    BY <2>2 DEF Subscribing
  <2> QED BY <1>0, <1>p, <2>1, <2>3, TellingFrame DEF Telling, Subscribing
<1> QED
  BY <1>1, <1>2, <1>3, <1>4, <1>5, <1>6, <1>7, <1>8, <1>9, <1>10, <1>11, <1>12, <1>13
     DEF Next, Application, Server, Mainloop

-----------------------------------------------------------------------------
(* The copy, the events and what the application believes.                 *)
LEMMA BelievedFrame ==
  ASSUME Believed, UNCHANGED <<ctl, view>>, used'.refusals = used.refusals, ctx' = "ready" => ctx = "ready",
         call'.pc = "set" => call.pc = "set" /\ UNCHANGED call,
         call.pc = "set" => UNCHANGED call \/ ctx' # "ready"
  PROVE  Believed'
BY DEF Believed

LEMMA BelievedStep == IInv /\ [Next]_vars => Believed'
<1> SUFFICES ASSUME IInv, [Next]_vars PROVE Believed'  OBVIOUS
<1>0. Typed /\ Calling /\ Own /\ Believed
  BY DEF IInv
<1>1. CASE Open \/ OpenNamed \/ UpdateSource
  <2>1. PICK m \in Requests, q \in {"names", "subscribe", "source"} : Ask(m, q)
    BY <1>1, RequestKinds DEF Open, OpenNamed, UpdateSource, Side
  <2>2. call'.pc = q
    BY <1>0, <2>1, CallFields DEF Ask, Typed, Asking
  <2>3. UNCHANGED <<ctl, view, used, ctx>> /\ call.pc # "set"
    BY <1>1 DEF Open, OpenNamed, UpdateSource, Waited, history
  <2> QED BY <1>0, <2>2, <2>3, BelievedFrame
<1>2. CASE OpenSubscribed \/ EndAttribute
  <2>1. UNCHANGED <<ctl, view, used, ctx>> /\ call.pc # "set" /\ call'.pc # "set"
    BY <1>2 DEF OpenSubscribed, EndAttribute, Waited, Return, Idle, history
  <2> QED BY <1>0, <2>1, BelievedFrame
<1>3. CASE EndRead \/ WriteSame \/ EndWrite
  <2>1. PICK v : /\ view' = [view EXCEPT ![call.elem] = v]
                 /\ v = ctl.copy[call.elem] \/ (call.pc = "set" /\ v = call.value)
    <3>1. CASE EndRead \/ WriteSame
      <4>1. Believe(call.elem, ctl.copy[call.elem])
        BY <3>1 DEF EndRead, WriteSame, Differs
      <4> QED BY <4>1 DEF Believe
    <3>2. CASE EndWrite
      <4>1. Believe(call.elem, call.value) /\ call.pc = "set"
        BY <3>2 DEF EndWrite, Waited
      <4> QED BY <4>1 DEF Believe
    <3> QED BY <1>3, <3>1, <3>2
  <2>2. UNCHANGED <<ctl, used, ctx>> /\ call'.pc # "set"
    BY <1>3 DEF EndRead, WriteSame, EndWrite, Return, Idle
  <2>3. ASSUME used.refusals = 0, ctx = "ready", NEW e \in Element
        PROVE  view'[e] \in {Unknown, ctl.copy[e]} \/ e \in ctl.updated
    <3>1. CASE e = call.elem
      BY <1>0, <2>1, <2>3, <3>1 DEF Believed, Believe, Typed
    <3>2. CASE e # call.elem
      BY <1>0, <2>1, <2>3, <3>2 DEF Believed, Believe, Typed
    <3> QED BY <3>1, <3>2
  <2> QED BY <2>2, <2>3 DEF Believed
<1>4. CASE WriteSet
  <2>1. PICK m \in Requests : Ask(m, "set")
    BY <1>0, <1>4, RequestKinds, CallFields DEF WriteSet, Typed
  <2>2. call'.pc = "set" /\ call'.elem = call.elem /\ call'.value = call.value /\ call.pc = "source"
    BY <1>0, <1>4, <2>1, CallFields DEF Ask, Typed, Asking, WriteSet, Writing, Waited
  <2>3. UNCHANGED <<view, used, ctx>> /\ Store
    BY <1>4 DEF WriteSet, history
  <2>4. /\ ctl'.copy = [ctl.copy EXCEPT ![call.elem] = call.value] /\ ctl'.updated = ctl.updated
        /\ ctl.copy \in [Element -> Int] /\ call.elem \in Element
    BY <1>0, <2>3, CallFields DEF Store, Typed, Controls
  <2>5. ctl'.copy[call.elem] = call.value /\ \A e \in Element \ {call.elem} : ctl'.copy[e] = ctl.copy[e]
    BY <2>4
  <2> QED BY <1>0, <2>2, <2>3, <2>4, <2>5 DEF Believed
<1>5. CASE WriteRefused
  <2>1. used'.refusals = used.refusals + 1 /\ used.refusals \in Nat
    BY <1>0, <1>5 DEF WriteRefused, Refuse, Typed, Counters
  <2> QED BY <2>1 DEF Believed
<1>6. CASE WaitFails
  BY <1>6 DEF WaitFails, Believed
<1>7. CASE GetAttribute \/ ReadInteger \/ WriteInteger
  <2>1. PICK op, e, v : Begin(op, e, v)
    BY <1>7 DEF GetAttribute, ReadInteger, WriteInteger
  <2>2. call.pc = "idle" /\ call'.pc = "sink" /\ UNCHANGED <<ctx, ctl, view>>
    BY <2>1 DEF Begin
  <2>3. used'.refusals = used.refusals
    BY <1>0, <1>7 DEF GetAttribute, ReadInteger, WriteInteger, Typed, Counters
  <2> QED BY <1>0, <2>2, <2>3 DEF Believed
<1>8. CASE SleepAgain \/ TellOfChange \/ SuccessCb \/ EventCb \/ ServeInfo \/ ServeOther
           \/ UNCHANGED vars
  <2>1. UNCHANGED <<call, ctl, view, ctx>>
    BY <1>8 DEF SleepAgain, TellOfChange, SuccessCb, EventCb, ServeInfo, ServeOther, vars, history
  <2>2. used'.refusals = used.refusals
    BY <1>0, <1>8, Counted
    DEF SleepAgain, TellOfChange, SuccessCb, EventCb, ServeInfo, ServeOther, vars, history, Typed
  <2> QED BY <1>0, <2>1, <2>2, BelievedFrame
<1>9. CASE SubscribeEvents
  <2>1. ctl'.copy = ctl.copy /\ ctl'.updated = ctl.updated /\ UNCHANGED <<call, view, used, ctx>>
    BY <1>0, <1>9 DEF SubscribeEvents, history, Typed, Controls
  <2> QED BY <1>0, <2>1 DEF Believed
<1>10. CASE ReadEvent
  <2>1. PICK e : ctl' = [ctl EXCEPT !.updated = @ \ {e}] /\ Believe(e, Unknown)
    BY <1>10 DEF ReadEvent
  <2>2. ctl'.copy = ctl.copy /\ ctl'.updated = ctl.updated \ {e}
    BY <1>0, <2>1 DEF Typed, Controls
  <2>3. call.pc = "idle" /\ UNCHANGED <<call, used, ctx>>
    BY <1>10 DEF ReadEvent
  <2>4. \A x \in Element : view'[x] = IF x = e THEN Unknown ELSE view[x]
    BY <1>0, <2>1 DEF Believe, Typed
  <2> QED BY <1>0, <2>2, <2>3, <2>4 DEF Believed
<1>11. CASE Close \/ ContextFails
  BY <1>11 DEF Close, ContextFails, Believed
<1>12. CASE ServeSet \/ OtherClient
  <2>1. UNCHANGED <<call, ctl, view, ctx>>
    BY <1>12 DEF ServeSet, OtherClient
  <2>2. used'.refusals = 0 => used.refusals = 0
    BY <1>0, <1>12 DEF ServeSet, OtherClient, Refuse, Typed, Counters
  <2> QED BY <1>0, <2>1, <2>2 DEF Believed
<1>13. CASE InfoCb
  <2>1. Message.values \in Readings
    BY <1>0, <1>13, AtTheHead, InfoTyped DEF InfoCb, Arrived, Message, Typed
  <2>2. /\ ctl'.copy = Refreshed(Differing(Message.values), Message.values)
        /\ ctl'.updated = ctl.updated \cup Differing(Message.values)
    BY <1>0, <1>13 DEF InfoCb, Typed, Controls
  <2>3. \A e \in Element :
          \/ ctl'.copy[e] = ctl.copy[e] /\ (e \in ctl.updated => e \in ctl'.updated)
          \/ e \in ctl'.updated
    BY <1>0, <2>1, <2>2, CopyTakes
  <2>4. UNCHANGED <<call, view, used, ctx>> /\ call.elem \in Element
    BY <1>0, <1>13, CallFields DEF InfoCb, history, Typed
  <2> QED BY <1>0, <2>3, <2>4 DEF Believed
<1> QED
  BY <1>1, <1>2, <1>3, <1>4, <1>5, <1>6, <1>7, <1>8, <1>9, <1>10, <1>11, <1>12, <1>13
     DEF Next, Application, Server, Mainloop

-----------------------------------------------------------------------------
(* The last word about an element and what will bring a later one, as the  *)
(* connection moves.                                                       *)
LEMMA WordSent ==
  ASSUME Typed, NEW e \in Element, NEW m \in Messages, toClient' = Append(toClient, m),
         ctl'.copy[e] = ctl.copy[e], server'[e] = server[e], unheard' = unheard,
         IF Mentions(m, e) THEN Carries(m, e) => m.values[e] = server[e] ELSE LastWord(e)
  PROVE  LastWord(e)'
<1>1. /\ Len(toClient') = Len(toClient) + 1 /\ Len(toClient) \in Nat
      /\ \A i \in 1 .. Len(toClient) : toClient'[i] = toClient[i]
      /\ toClient'[Len(toClient) + 1] = m
  BY AtTheEnd DEF Typed
<1>2. \A i \in 1 .. Len(toClient') : i \in 1 .. Len(toClient) \/ i = Len(toClient) + 1
  BY <1>1
<1>3. CASE Mentions(m, e)
  <2>1. \E i \in 1 .. Len(toClient') : toClient'[i] = m /\ i = Len(toClient')
    BY <1>1
  <2>2. PICK i \in 1 .. Len(toClient') : toClient'[i] = m /\ i = Len(toClient')
    BY <2>1
  <2>3. \A j \in 1 .. Len(toClient') : ~(j > i)
    BY <1>1, <2>2
  <2> QED BY <1>3, <2>2, <2>3 DEF LastWord, Carries, Mentions
<1>4. CASE ~Mentions(m, e) /\ \E i \in 1 .. Len(toClient) : Mentions(toClient[i], e)
  <2>1. PICK i \in 1 .. Len(toClient) :
          /\ Mentions(toClient[i], e)
          /\ Carries(toClient[i], e) => toClient[i].values[e] = server[e]
          /\ \A j \in 1 .. Len(toClient) : j > i => ~Mentions(toClient[j], e)
    BY <1>4 DEF LastWord
  <2>2. i \in 1 .. Len(toClient') /\ toClient'[i] = toClient[i]
    BY <1>1
  <2>3. \A j \in 1 .. Len(toClient') : j > i => ~Mentions(toClient'[j], e)
    BY <1>1, <1>2, <1>4, <2>1
  <2> QED BY <2>1, <2>2, <2>3 DEF LastWord, Carries, Mentions
<1>5. CASE ~Mentions(m, e) /\ \A i \in 1 .. Len(toClient) : ~Mentions(toClient[i], e)
  <2>1. \A i \in 1 .. Len(toClient') : ~Mentions(toClient'[i], e)
    BY <1>1, <1>2, <1>5
  <2> QED BY <1>5, <2>1 DEF LastWord, Carries, Mentions
<1> QED BY <1>3, <1>4, <1>5

LEMMA WordReceived ==
  ASSUME Typed, NEW e \in Element, toClient # <<>>, toClient' = Tail(toClient), LastWord(e),
         server'[e] = server[e],
         ctl'.copy[e] = IF Carries(toClient[1], e) THEN toClient[1].values[e] ELSE ctl.copy[e],
         e \in unheard' <=> IF Mentions(toClient[1], e) THEN ~Carries(toClient[1], e)
                                                       ELSE e \in unheard
  PROVE  LastWord(e)'
<1>1. /\ Len(toClient') = Len(toClient) - 1 /\ Len(toClient) \in Nat \ {0}
      /\ \A i \in 1 .. Len(toClient) - 1 : toClient'[i] = toClient[i + 1]
  BY AtTheHead DEF Typed
<1>2. ASSUME \A i \in 2 .. Len(toClient) : ~Mentions(toClient[i], e)
      PROVE  \A i \in 1 .. Len(toClient') : ~Mentions(toClient'[i], e)
  <2>1. ASSUME NEW i \in 1 .. Len(toClient') PROVE ~Mentions(toClient'[i], e)
    <3>1. i + 1 \in 2 .. Len(toClient) /\ toClient'[i] = toClient[i + 1]
      BY <1>1
    <3> QED BY <1>2, <3>1
  <2> QED BY <2>1
<1>3. CASE \A i \in 1 .. Len(toClient) : ~Mentions(toClient[i], e)
  <2>1. 1 \in 1 .. Len(toClient) /\ \A i \in 2 .. Len(toClient) : i \in 1 .. Len(toClient)
    BY <1>1
  <2> QED BY <1>2, <1>3, <2>1 DEF LastWord, Carries, Mentions
<1>4. CASE \E i \in 1 .. Len(toClient) : Mentions(toClient[i], e)
  <2>1. PICK i \in 1 .. Len(toClient) :
          /\ Mentions(toClient[i], e)
          /\ Carries(toClient[i], e) => toClient[i].values[e] = server[e]
          /\ \A j \in 1 .. Len(toClient) : j > i => ~Mentions(toClient[j], e)
    BY <1>4 DEF LastWord
  <2>2. CASE i = 1
    <3>1. \A j \in 2 .. Len(toClient) : j \in 1 .. Len(toClient) /\ j > i
      BY <1>1, <2>2
    <3>2. \A j \in 2 .. Len(toClient) : ~Mentions(toClient[j], e)
      BY <2>1, <3>1
    <3> QED BY <1>2, <2>1, <2>2, <3>2 DEF LastWord, Carries, Mentions
  <2>3. CASE i # 1
    <3> DEFINE k == i - 1
    <3>1. k \in 1 .. Len(toClient') /\ toClient'[k] = toClient[i]
      <4>1. k \in 1 .. Len(toClient) - 1 /\ k + 1 = i
        BY <1>1, <2>3
      <4> QED BY <1>1, <4>1
    <3>2. ASSUME NEW j \in 1 .. Len(toClient'), j > k PROVE ~Mentions(toClient'[j], e)
      <4>1. j + 1 \in 1 .. Len(toClient) /\ j + 1 > i /\ toClient'[j] = toClient[j + 1]
        BY <1>1, <3>2
      <4> QED BY <2>1, <4>1
    <3>3. \E l \in 1 .. Len(toClient') :
            /\ toClient'[l] = toClient[i]
            /\ \A j \in 1 .. Len(toClient') : j > l => ~Mentions(toClient'[j], e)
      BY <3>1, <3>2
    <3> QED BY <2>1, <3>3 DEF LastWord, Carries, Mentions
  <2> QED BY <2>2, <2>3
<1> QED BY <1>3, <1>4

(* The server takes a request that is not the one that matters.            *)
LEMMA LaterServed ==
  ASSUME Typed, NEW e \in Element, toServer # <<>>, NEW m \in Messages, Answer(m),
         posted => posted', server'[e] = server[e], Later(e),
         ~(Next1.kind = "info" /\ e \in Keys(Next1.side)),
         ~(Next1.kind = "set" /\ Next1.elem = e /\ Next1.value # server[e])
  PROVE  Later(e)'
<1>1. /\ Len(toServer') = Len(toServer) - 1 /\ Len(toServer) \in Nat \ {0} /\ Next1 = toServer[1]
      /\ \A i \in 1 .. Len(toServer) - 1 : toServer'[i] = toServer[i + 1]
  BY AtTheHead DEF Typed, Next1, Answer
<1>2. /\ \A i \in 1 .. Len(toClient) : toClient'[i] = toClient[i]
      /\ \A i \in 1 .. Len(toClient) : i \in 1 .. Len(toClient')
  BY AtTheEnd DEF Typed, Answer
<1>3. ASSUME NEW i \in 1 .. Len(toServer), i # 1
      PROVE  \E j \in 1 .. Len(toServer') : toServer'[j] = toServer[i]
  <2>1. i - 1 \in 1 .. Len(toServer') /\ i - 1 \in 1 .. Len(toServer) - 1 /\ (i - 1) + 1 = i
    BY <1>1, <1>3
  <2> QED BY <1>1, <2>1
<1>4. ASSUME NEW i \in 1 .. Len(toClient), toClient[i].kind = "event" PROVE Later(e)'
  BY <1>2, <1>4 DEF Later
<1>5. ASSUME NEW i \in 1 .. Len(toServer), toServer[i].kind = "info", e \in Keys(toServer[i].side)
      PROVE  Later(e)'
  <2>1. i # 1
    BY <1>1, <1>5
  <2> QED BY <1>3, <1>5, <2>1 DEF Later
<1>6. ASSUME NEW i \in 1 .. Len(toServer), toServer[i].kind = "set", toServer[i].elem = e,
             toServer[i].value # server[e]
      PROVE  Later(e)'
  <2>1. i # 1
    BY <1>1, <1>6
  <2> QED BY <1>3, <1>6, <2>1 DEF Later
<1>7. posted => Later(e)'
  BY DEF Later
<1> QED BY <1>4, <1>5, <1>6, <1>7 DEF Later

LEMMA LaterReceived ==
  ASSUME Typed, NEW e \in Element, toClient # <<>>, toClient' = Tail(toClient),
         toClient[1].kind # "event", UNCHANGED <<posted, server, toServer>>, Later(e)
  PROVE  Later(e)'
<1>1. /\ Len(toClient') = Len(toClient) - 1 /\ Len(toClient) \in Nat \ {0}
      /\ \A i \in 1 .. Len(toClient) - 1 : toClient'[i] = toClient[i + 1]
  BY AtTheHead DEF Typed
<1>2. ASSUME NEW i \in 1 .. Len(toClient), toClient[i].kind = "event"
      PROVE  \E j \in 1 .. Len(toClient') : toClient'[j].kind = "event"
  <2>1. i - 1 \in 1 .. Len(toClient') /\ i - 1 \in 1 .. Len(toClient) - 1 /\ (i - 1) + 1 = i
    BY <1>1, <1>2
  <2>2. toClient'[i - 1].kind = "event"
    BY <1>1, <1>2, <2>1
  <2> QED BY <2>1, <2>2
<1> QED BY <1>2 DEF Later

LEMMA LaterAsked ==
  ASSUME Typed, NEW e \in Element, NEW m \in Requests, toServer' = Append(toServer, m),
         UNCHANGED <<posted, server, toClient>>,
         \/ Later(e)
         \/ m.kind = "info" /\ e \in Keys(m.side)
         \/ m.kind = "set" /\ m.elem = e /\ m.value # server[e]
  PROVE  Later(e)'
<1>1. /\ Len(toServer') = Len(toServer) + 1 /\ Len(toServer) \in Nat
      /\ \A i \in 1 .. Len(toServer) : toServer'[i] = toServer[i]
      /\ toServer'[Len(toServer) + 1] = m
  BY AtTheEnd DEF Typed
<1>2. \E i \in 1 .. Len(toServer') : toServer'[i] = m
  BY <1>1
<1>3. \A i \in 1 .. Len(toServer) : i \in 1 .. Len(toServer')
  BY <1>1
<1> QED BY <1>1, <1>2, <1>3 DEF Later

LEMMA WordKept ==
  ASSUME NEW e, UNCHANGED <<toClient, unheard>>, server'[e] = server[e], ctl'.copy[e] = ctl.copy[e]
  PROVE  LastWord(e) => LastWord(e)'
BY DEF LastWord, Carries, Mentions

LEMMA LaterKept ==
  ASSUME NEW e, UNCHANGED <<toClient, toServer, server, posted>>
  PROVE  Later(e) => Later(e)'
BY DEF Later

(* A change the server makes is one it will tell of.                       *)
LEMMA ChangeTold ==
  ASSUME Typed, told, NEW e \in Element, NEW x \in Element, NEW v \in Int, Change(x, v)
  PROVE  /\ posted => posted'
         /\ server'[e] # server[e] => Later(e)'
         /\ e = x => server'[e] = v
BY DEF Typed, Change, Later

(* A write makes the copy the last word only if the server is asked for    *)
(* the very value.                                                         *)
LEMMA SetNoticed ==
  ASSUME Typed, NEW e \in Element, LastWord(e) \/ Later(e), WriteSet
  PROVE  LastWord(e)' \/ Later(e)'
<1> DEFINE m == [kind |-> "set", mine |-> TRUE, elem |-> call.elem, value |-> call.value]
<1>1. m \in Requests /\ call.elem \in Element
  BY RequestKinds, CallFields DEF Typed
<1>2. m.kind = "set" /\ m.elem = call.elem /\ m.value = call.value
  OBVIOUS
<1>3. toServer' = Append(toServer, m) /\ Store /\ UNCHANGED <<toClient, server, posted, unheard>>
  BY DEF WriteSet, Ask, sound, history
<1> HIDE DEF m
<1>4. \A x \in Element : ctl'.copy[x] = IF x = call.elem THEN call.value ELSE ctl.copy[x]
  BY <1>1, <1>3 DEF Store, Typed, Controls
<1>5. CASE Later(e)
  BY <1>1, <1>3, <1>5, LaterAsked
<1>6. CASE LastWord(e) /\ e # call.elem
  BY <1>3, <1>4, <1>6, WordKept
<1>7. CASE LastWord(e) /\ e = call.elem /\ \E i \in 1 .. Len(toClient) : Mentions(toClient[i], e)
  BY <1>3, <1>7 DEF LastWord, Carries, Mentions
<1>8. CASE LastWord(e) /\ e = call.elem /\ \A i \in 1 .. Len(toClient) : ~Mentions(toClient[i], e)
  <2>1. ctl'.copy[e] = call.value
    BY <1>4, <1>8
  <2>2. CASE call.value = server[e]
    BY <1>3, <1>8, <2>1, <2>2 DEF LastWord, Mentions
  <2>3. CASE call.value # server[e]
    BY <1>1, <1>2, <1>3, <1>8, <2>3, LaterAsked
  <2> QED BY <2>2, <2>3
<1> QED BY <1>5, <1>6, <1>7, <1>8

LEMMA NoticingStep == IInv /\ [Next]_vars => Noticing'
<1> SUFFICES ASSUME IInv, [Next]_vars, used'.refusals = 0, ctx' = "ready", NEW e \in Element,
                    Followed(e)'
             PROVE  LastWord(e)' \/ Later(e)'
  BY DEF Noticing
<1>0. Typed /\ Calling /\ Own /\ Telling /\ Noticing /\ call.elem \in Element /\ call \in Calls
  BY CallFields DEF IInv, Typed
<1> DEFINE Known == LastWord(e) \/ Later(e)
           Known1 == LastWord(e)' \/ Later(e)'
<1>1. ASSUME used.refusals = 0, ctx = "ready", Followed(e) PROVE Known /\ told
  <2>1. Known
    BY <1>0, <1>1 DEF Noticing
  <2>2. call.pc \notin Opening
    BY <1>0, <1>1 DEF Telling, Followed, Opening
  <2> QED BY <1>0, <1>1, <2>1, <2>2 DEF Telling
<1>2. ASSUME UNCHANGED <<toClient, toServer, server, posted, unheard>>, ctl'.copy = ctl.copy, Known
      PROVE  Known1
  BY <1>2, WordKept, LaterKept
<1>3. ASSUME NEW m \in Requests, toServer' = Append(toServer, m),
             UNCHANGED <<toClient, server, posted, ctl, unheard>>,
             Known \/ (m.kind = "info" /\ e \in Keys(m.side))
      PROVE  Known1
  BY <1>0, <1>3, WordKept, LaterAsked
<1>4. ASSUME UNCHANGED used PROVE used.refusals = 0
  BY <1>4
<1> HIDE DEF Known, Known1
<1>5. CASE Open \/ OpenNamed
  <2>1. PICK m \in Requests, q \in {"names", "subscribe"} : Ask(m, q)
    BY <1>5, RequestKinds DEF Open, OpenNamed
  <2>2. UNCHANGED <<toClient, server, posted, ctl, view, used, ctx, unheard>>
    BY <1>5 DEF Open, OpenNamed, sound, history
  <2>3. call'.pc = q
    BY <1>0, <2>1, CallFields DEF Ask, Asking
  <2>4. Followed(e)
    BY <2>2, <2>3 DEF Followed
  <2>5. Known /\ toServer' = Append(toServer, m)
    BY <1>1, <2>1, <2>2, <2>4 DEF Ask
  <2>6. Known1
    BY <1>3, <2>2, <2>5
  <2> QED BY <2>6 DEF Known1
<1>6. CASE OpenSubscribed \/ EndAttribute \/ EndRead \/ WriteSame \/ EndWrite
  <2>1. /\ UNCHANGED <<toClient, toServer, server, posted, ctl, used, ctx, unheard>>
        /\ call'.pc = "idle"
        /\ OpenSubscribed => view' = view
        /\ ~OpenSubscribed => call.pc \in {"source", "set"}
    BY <1>6 DEF OpenSubscribed, EndAttribute, EndRead, WriteSame, EndWrite, Writing, Waited, Return,
       Idle, sound, history
  <2>2. Followed(e)
    BY <2>1 DEF Followed
  <2> QED BY <1>1, <1>2, <2>1, <2>2 DEF Known1
<1>7. CASE WriteRefused \/ WaitFails \/ Close \/ ContextFails
  <2>1. CASE WriteRefused
    BY <1>0, <2>1 DEF WriteRefused, Refuse, Typed, Counters
  <2>2. CASE WaitFails \/ Close \/ ContextFails
    BY <2>2 DEF WaitFails, Close, ContextFails
  <2> QED BY <1>7, <2>1, <2>2
<1>8. CASE GetAttribute \/ ReadInteger \/ WriteInteger
  <2>1. PICK op, x, v : Begin(op, x, v)
    BY <1>8 DEF GetAttribute, ReadInteger, WriteInteger
  <2>2. /\ UNCHANGED <<toClient, server, posted, ctl, view, ctx, unheard>> /\ call'.pc = "sink"
        /\ toServer' = Append(toServer, InfoRequest("sink", TRUE))
    BY <2>1 DEF Begin, sound
  <2>3. used.refusals = 0
    BY <1>0, <1>8 DEF GetAttribute, ReadInteger, WriteInteger, Typed, Counters
  <2>4. /\ InfoRequest("sink", TRUE) \in Requests /\ InfoRequest("sink", TRUE).kind = "info"
        /\ InfoRequest("sink", TRUE).side = "sink"
    BY RequestKinds DEF InfoRequest, Side
  <2>5. Followed(e) \/ e \in Keys("sink")
    BY <2>2 DEF Followed
  <2>6. Known \/ e \in Keys("sink")
    BY <1>1, <2>2, <2>3, <2>5
  <2>7. Known1
    BY <1>3, <2>2, <2>4, <2>6
  <2> QED BY <2>7 DEF Known1
<1>9. CASE UpdateSource
  <2>1. /\ UNCHANGED <<toClient, server, posted, ctl, view, ctx, used, unheard>> /\ call.pc = "sink"
        /\ toServer' = Append(toServer, InfoRequest("source", TRUE))
    BY <1>9 DEF UpdateSource, Waited, Ask, sound, history
  <2>2. /\ InfoRequest("source", TRUE) \in Requests /\ InfoRequest("source", TRUE).kind = "info"
        /\ InfoRequest("source", TRUE).side = "source"
    BY RequestKinds DEF InfoRequest, Side
  <2>3. Followed(e) \/ e \in Keys("source")
    BY <2>1, KeysOf DEF Followed
  <2>4. Known \/ e \in Keys("source")
    BY <1>1, <2>1, <2>3
  <2>5. Known1
    BY <1>3, <2>1, <2>2, <2>4
  <2> QED BY <2>5 DEF Known1
<1>10. CASE WriteSet
  <2>1. call.pc = "source" /\ UNCHANGED <<used, ctx>>
    BY <1>10 DEF WriteSet, Writing, Waited, history
  <2>2. Followed(e)
    BY <2>1 DEF Followed
  <2> QED BY <1>0, <1>1, <1>10, <2>1, <2>2, SetNoticed DEF Known
<1>11. CASE SleepAgain \/ SubscribeEvents \/ ReadEvent \/ UNCHANGED vars
  <2>1. /\ UNCHANGED <<toClient, toServer, server, posted, call, used, ctx, unheard>>
        /\ ctl'.copy = ctl.copy
    BY <1>0, <1>11
    DEF SleepAgain, SubscribeEvents, ReadEvent, vars, link, sound, history, Typed, Controls
  <2>2. view'[e] # Unknown => view[e] # Unknown
    <3>1. CASE ReadEvent
      <4>1. PICK x : view' = [view EXCEPT ![x] = Unknown]
        BY <3>1 DEF ReadEvent, Believe
      <4> QED BY <1>0, <4>1 DEF Typed
    <3>2. CASE ~ReadEvent
      BY <1>11, <3>2 DEF SleepAgain, SubscribeEvents, vars, history
    <3> QED BY <3>1, <3>2
  <2>3. Followed(e)
    BY <2>1, <2>2 DEF Followed
  <2> QED BY <1>1, <1>2, <2>1, <2>3 DEF Known1
<1>12. CASE ServeInfo
  <2>1. PICK r \in {InForce, NoItem} : Answer(Info(r))
    BY <1>12 DEF ServeInfo
  <2>2. toServer # <<>> /\ Next1.kind = "info"
    BY <1>12 DEF ServeInfo, Reached
  <2>3. /\ Info(r) \in Messages
        /\ Mentions(Info(r), e) <=> e \in Keys(Next1.side)
        /\ Carries(Info(r), e) => Info(r).values[e] = server[e]
    BY <1>0, <2>2, AnswerTyped DEF Typed
  <2>4. UNCHANGED <<server, posted, ctl, view, call, ctx, unheard>>
    BY <1>12 DEF ServeInfo, sound
  <2>5. used.refusals = 0
    BY <1>0, <1>12, Counted DEF ServeInfo, Typed
  <2>6. Followed(e)
    BY <2>4 DEF Followed
  <2>7. Known
    BY <1>1, <2>4, <2>5, <2>6
  <2>8. toClient' = Append(toClient, Info(r))
    BY <2>1 DEF Answer
  <2>9. CASE e \in Keys(Next1.side)
    BY <1>0, <2>3, <2>4, <2>8, <2>9, WordSent
  <2>10. CASE e \notin Keys(Next1.side)
    <3>1. CASE LastWord(e)
      BY <1>0, <2>3, <2>4, <2>8, <2>10, <3>1, WordSent
    <3>2. CASE Later(e)
      BY <1>0, <2>1, <2>2, <2>3, <2>4, <2>10, <3>2, LaterServed
    <3> QED BY <2>7, <3>1, <3>2 DEF Known
  <2> QED BY <2>9, <2>10
<1>13. CASE ServeSet \/ ServeOther
  <2> DEFINE m == [kind |-> "ack", mine |-> TRUE]
  <2>1. m \in Messages /\ Answer(m) /\ ~Mentions(m, e) /\ toServer # <<>>
    BY <1>13, MessageKinds DEF ServeSet, ServeOther, Mentions, Reached
  <2> HIDE DEF m
  <2>2. Next1.kind # "info" /\ UNCHANGED <<ctl, view, call, ctx, unheard>>
    BY <1>13 DEF ServeSet, ServeOther, history
  <2>3. used.refusals = 0 /\ (ServeSet => Change(Next1.elem, Next1.value))
    BY <1>0, <1>13 DEF ServeSet, ServeOther, Refuse, Typed, Counters, history
  <2>4. Followed(e)
    BY <2>2 DEF Followed
  <2>5. Known /\ told
    BY <1>1, <2>2, <2>3, <2>4
  <2>6. Next1.kind = "set" => Next1.elem \in Element /\ Next1.value \in Int
    BY <1>0, <2>1, AtTheHead, RequestTyped DEF Next1, Typed
  <2>7. CASE server'[e] # server[e]
    <3>1. ServeSet /\ Next1.kind = "set"
      BY <1>13, <2>7 DEF ServeSet, ServeOther
    <3> QED BY <1>0, <2>3, <2>5, <2>6, <2>7, <3>1, ChangeTold
  <2>8. CASE server'[e] = server[e]
    <3>1. posted => posted'
      BY <1>13, <2>3 DEF ServeSet, ServeOther, Change
    <3>2. ~(Next1.kind = "set" /\ Next1.elem = e /\ Next1.value # server[e])
      <4>1. ServeOther => Next1.kind # "set"
        BY DEF ServeOther
      <4> QED BY <1>0, <1>13, <2>3, <2>5, <2>6, <2>8, <4>1, ChangeTold
    <3>3. CASE LastWord(e)
      BY <1>0, <2>1, <2>2, <2>8, <3>3, WordSent DEF Answer
    <3>4. CASE Later(e)
      BY <1>0, <2>1, <2>2, <2>8, <3>1, <3>2, <3>4, LaterServed
    <3> QED BY <2>5, <3>3, <3>4 DEF Known
  <2> QED BY <2>7, <2>8
<1>14. CASE TellOfChange
  <2> DEFINE m == [kind |-> "event", mine |-> FALSE]
  <2>1. m \in Messages /\ m.kind = "event" /\ toClient' = Append(toClient, m)
    BY <1>14, MessageKinds DEF TellOfChange
  <2> HIDE DEF m
  <2>2. \E i \in 1 .. Len(toClient') : toClient'[i] = m
    <3>1. Len(toClient') = Len(toClient) + 1 /\ Len(toClient) \in Nat
          /\ toClient'[Len(toClient) + 1] = m
      BY <1>0, <2>1, AtTheEnd DEF Typed
    <3> QED BY <3>1
  <2> QED BY <2>1, <2>2 DEF Later
<1>15. CASE OtherClient
  <2>1. UNCHANGED <<toClient, toServer, ctl, view, call, ctx, unheard>>
    BY <1>15 DEF OtherClient, link
  <2>2. PICK x \in Element, v \in Int : Change(x, v)
    BY <1>15, BoundsAssumption, ValuesAreNumbers DEF OtherClient
  <2>3. used.refusals = 0 /\ Followed(e)
    BY <1>0, <1>15, <2>1 DEF OtherClient, Typed, Counters, Followed
  <2>4. Known /\ told
    BY <1>1, <2>1, <2>3
  <2>5. CASE server'[e] # server[e]
    BY <1>0, <2>2, <2>4, <2>5, ChangeTold
  <2>6. CASE server'[e] = server[e] /\ LastWord(e)
    BY <2>1, <2>6, WordKept
  <2>7. CASE server'[e] = server[e] /\ Later(e)
    <3>1. posted => posted'
      BY <2>2 DEF Change
    <3> QED BY <2>1, <2>7, <3>1 DEF Later
  <2> QED BY <2>4, <2>5, <2>6, <2>7 DEF Known
<1>16. CASE InfoCb \/ SuccessCb
  <2>1. /\ toClient # <<>> /\ toClient' = Tail(toClient) /\ toClient[1].kind # "event"
        /\ UNCHANGED <<toServer, server, posted, view, call, ctx, used>>
        /\ Message = toClient[1]
    BY <1>0, <1>16, AtTheHead DEF InfoCb, SuccessCb, Arrived, Message, Typed, sound, history
  <2>2. ctl'.copy[e] = IF Carries(toClient[1], e) THEN toClient[1].values[e] ELSE ctl.copy[e]
    <3>1. CASE SuccessCb
      BY <2>1, <3>1 DEF SuccessCb, Arrived, Carries, Mentions
    <3>2. CASE InfoCb
      <4>1. Message.values \in Readings /\ Message.kind = "info" /\ Message \in Messages
        BY <1>0, <3>2, AtTheHead, InfoTyped DEF InfoCb, Arrived, Message, Typed
      <4>2. ctl'.copy = Refreshed(Differing(Message.values), Message.values)
        BY <1>0, <3>2 DEF InfoCb, Typed, Controls
      <4> QED BY <1>0, <2>1, <4>1, <4>2, CopyTakes, CarriedIn
    <3> QED BY <1>16, <3>1, <3>2
  <2>3. Followed(e)
    BY <2>1 DEF Followed
  <2>4. Known
    BY <1>1, <2>1, <2>3
  <2>5. e \in unheard' <=> IF Mentions(toClient[1], e) THEN ~Carries(toClient[1], e)
                                                     ELSE e \in unheard
    BY <1>16, <2>1 DEF InfoCb, SuccessCb, Arrived, Mentions, Carries, history
  <2> QED BY <1>0, <2>1, <2>2, <2>4, <2>5, WordReceived, LaterReceived DEF Known
<1>17. CASE EventCb
  <2> DEFINE x == InfoRequest("sink", FALSE)
             y == InfoRequest("source", FALSE)
  <2>1. /\ x \in Requests /\ y \in Requests /\ toServer' = toServer \o <<x, y>>
        /\ x.kind = "info" /\ x.side = "sink" /\ y.kind = "info" /\ y.side = "source"
    BY <1>17, RequestKinds DEF EventCb, InfoRequest, Side
  <2> HIDE DEF x, y
  <2>2. \A z \in {x, y} : \E i \in 1 .. Len(toServer') : toServer'[i] = z
    <3>1. /\ Len(toServer') = Len(toServer) + 2 /\ Len(toServer) \in Nat
          /\ toServer'[Len(toServer) + 1] = x /\ toServer'[Len(toServer) + 2] = y
      BY <1>0, <2>1, TwoMore DEF Typed
    <3> QED BY <3>1
  <2>3. e \in Keys("sink") \/ e \in Keys("source")
    BY KeysOf
  <2> QED BY <2>1, <2>2, <2>3 DEF Later
<1> QED
  BY <1>5, <1>6, <1>7, <1>8, <1>9, <1>10, <1>11, <1>12, <1>13, <1>14, <1>15, <1>16, <1>17
     DEF Next, Application, Server, Mainloop

-----------------------------------------------------------------------------
(* The invariant of the mixer plugin: what is under way is what is waited  *)
(* for (pulse_wait_operation), what a read waits for is current, and what  *)
(* the application believes is the copy, an event, or on its way.          *)
THEOREM MixerInvariant == Spec => []IInv
<1>1. IInv /\ [Next]_vars => IInv'
  BY TypedStep, CallingStep, MailStep, ReadingStep, TellingStep, BelievedStep, NoticingStep
  DEF IInv, Mail
<1> QED BY <1>1, InitInv, PTL DEF Spec

(* Neither of the plugin's waits in pulse_wait_operation is one nobody     *)
(* ends: there is an answer under way and the connection is there.         *)
THEOREM NobodySleepsInVain == Spec => []Waits
<1>1. IInv => Waits
  <2> SUFFICES ASSUME IInv, ~awake PROVE Waits  BY DEF Waits
  <2>1. Typed /\ Calling /\ Waiting
    BY DEF IInv
  <2>2. ~done /\ ctx = "ready" /\ call.pc \in Asking
    BY <2>1, CallFields DEF Calling, Typed
  <2>3. DOMAIN toServer = 1 .. Len(toServer) /\ DOMAIN toClient = 1 .. Len(toClient)
    BY <2>1 DEF Typed
  <2>4. \/ \E i \in 1 .. Len(toServer) : Asked(i)
        \/ \E i \in 1 .. Len(toClient) : Answered(i)
    BY <2>1, <2>2 DEF Waiting
  <2>5. \E q \in {toServer, toClient} : \E i \in DOMAIN q : q[i].mine
    BY <2>3, <2>4 DEF Asked, Answered
  <2> QED BY <2>2, <2>5 DEF Waits
<1> QED BY <1>1, MixerInvariant, PTL

(* What pulse_read_integer returns was in force during the call, however   *)
(* many answers and events of earlier requests arrive meanwhile, unless    *)
(* the last answer about the element was an error.                         *)
THEOREM ReadsAreFresh == Spec => ReadFresh
<1>1. IInv /\ [Next]_vars =>
        [call.op = "read" /\ view' # view /\ call.elem \notin unheard
           => view'[call.elem] \in during]_vars
  <2> SUFFICES ASSUME IInv, Next, call.op = "read", view' # view, call.elem \notin unheard
               PROVE  view'[call.elem] \in during
    OBVIOUS
  <2>1. Typed /\ Calling /\ Reading
    BY DEF IInv
  <2>2. call.pc # "idle" /\ call.pc # "set"
    BY <2>1 DEF Calling
  <2>3. EndRead
    BY <2>2 DEF Next, Application, Server, Mainloop, Open, OpenNamed, OpenSubscribed, GetAttribute,
       ReadInteger, WriteInteger, Begin, UpdateSource, EndAttribute, WriteSame, Writing, WriteSet,
       WriteRefused, EndWrite, Waited, SleepAgain, WaitFails, SubscribeEvents, ReadEvent, Close,
       ServeInfo, ServeSet, ServeOther, TellOfChange, OtherClient, InfoCb, SuccessCb, EventCb,
       ContextFails, history
  <2>4. call.pc = "source" /\ done /\ view' = [view EXCEPT ![call.elem] = ctl.copy[call.elem]]
    BY <2>3 DEF EndRead, Waited, WaitReturns, Believe
  <2>5. ctl.copy[call.elem] \in during
    BY <2>1, <2>4 DEF Reading, Current
  <2>6. call.elem \in DOMAIN view
    BY <2>1, CallFields DEF Typed
  <2> QED BY <2>4, <2>5, <2>6
<1> QED BY <1>1, MixerInvariant, PTL DEF Spec, ReadFresh

(* No change of an element is lost between the server, the copy and the    *)
(* events: when nothing is under way, what the application believes is the *)
(* value in force or there is an event to read and the poll pipe says so,  *)
(* except where the last answer about the element was an error.            *)
THEOREM ChangesAreNoticed == Spec => []Noticed
<1>1. IInv => Noticed
  <2> SUFFICES ASSUME IInv, Quiet, used.refusals = 0, NEW e \in Element \ unheard
               PROVE  view[e] \in {Unknown, server[e]} \/ (e \in ctl.updated /\ poll)
    BY DEF Noticed
  <2>1. Typed /\ Telling /\ Believed /\ Noticing
    BY DEF IInv
  <2>2. /\ toServer = <<>> /\ toClient = <<>> /\ ~posted /\ call.pc = "idle" /\ ctx = "ready"
        /\ Len(toServer) = 0 /\ Len(toClient) = 0
    BY DEF Quiet
  <2>3. view[e] # Unknown => ctl.copy[e] = server[e]
    BY <2>1, <2>2 DEF Noticing, Followed, LastWord, Later
  <2>4. view[e] \in {Unknown, ctl.copy[e]} \/ e \in ctl.updated
    BY <2>1, <2>2 DEF Believed
  <2>5. e \in ctl.updated => poll
    BY <2>1, <2>2 DEF Telling
  <2> QED BY <2>3, <2>4, <2>5
<1> QED BY <1>1, MixerInvariant, PTL
=============================================================================
