------------------------------ MODULE ArcamProofs ------------------------------
(* Proofs about the Arcam plugin: the parser of the amplifier's answers, the      *)
(* threads that share the amplifier, and the controls.                           *)
EXTENDS ArcamServer, ArcamCtl, ArcamParser, SequenceTheorems, TLAPS

-----------------------------------------------------------------------------
(* The parser: the frame is never overrun, whatever the amplifier sends.         *)

\* The sequences are sequences of bytes, and ParserTypeOK.
ParserTyped == /\ wire \in Seq(Byte)
         /\ buffer \in Seq(Byte)
         /\ ParserTypeOK

\* A byte moves the position forward by at most one, or back to the first two.
LEMMA AfterBound ==
    ASSUME NEW i \in 0..7, NEW b
    PROVE  After(i, b) \in 0..8 /\ After(i, b) <= i + 1
BY DEF After

\* What read() puts into the buffer, and what is left on the line.
LEMMA Cut ==
    ASSUME NEW w \in Seq(Byte), NEW n \in Nat, n <= Len(w)
    PROVE  /\ SubSeq(w, 1, n) \in Seq(Byte) /\ Len(SubSeq(w, 1, n)) = n
           /\ SubSeq(w, n + 1, Len(w)) \in Seq(Byte)
OBVIOUS

LEMMA InitParserTyped == ParserInit => ParserTyped
<1> SUFFICES ASSUME ParserInit PROVE ParserTyped
  OBVIOUS
<1>1. wire \in Seq(Byte)
  BY StreamsAssumption DEF ParserInit
<1>2. buffer \in Seq(Byte) /\ Len(buffer) = 0
  BY DEF ParserInit
<1>3. QED
  BY <1>1, <1>2 DEF ParserInit, ParserTyped, ParserTypeOK, FrameSize

LEMMA NextParserTyped == ParserTyped /\ [ParserNext]_parserVars => ParserTyped'
<1> SUFFICES ASSUME ParserTyped, [ParserNext]_parserVars PROVE ParserTyped'
  OBVIOUS
<1> USE DEF FrameSize
<1>0. /\ index \in 0..8 /\ Len(buffer) + index <= 8 /\ (index = 8 => buffer = <<>>)
      /\ wire \in Seq(Byte) /\ buffer \in Seq(Byte)
  BY DEF ParserTyped, ParserTypeOK
<1>1. CASE Read
  <2>1. PICK n \in 1..(8 - index) : /\ n <= Len(wire)
                                   /\ buffer' = SubSeq(wire, 1, n)
                                   /\ wire' = SubSeq(wire, n + 1, Len(wire))
    BY <1>1 DEF Read, Wanted
  <2>2. n \in Nat /\ n + index <= 8 /\ index' = index /\ index < 8
    BY <1>0, <1>1, <2>1 DEF Read
  <2>3. buffer' \in Seq(Byte) /\ Len(buffer') = n /\ wire' \in Seq(Byte)
    BY <1>0, <2>1, <2>2, Cut
  <2>4. QED
    BY <1>0, <2>2, <2>3 DEF ParserTyped, ParserTypeOK
<1>2. CASE Examine
  <2>1. index < 8 /\ Len(buffer) >= 1
    BY <1>0, <1>2 DEF Examine
  <2>2. index' \in 0..8 /\ index' <= index + 1
    BY <1>0, <1>2, <2>1, AfterBound DEF Examine
  <2>3. buffer' \in Seq(Byte) /\ Len(buffer') = Len(buffer) - 1
    BY <1>0, <1>2 DEF Examine
  <2>4. index' = 8 => buffer' = <<>>
    BY <1>0, <2>1, <2>2, <2>3
  <2>5. QED
    BY <1>0, <1>2, <2>1, <2>2, <2>3, <2>4 DEF Examine, ParserTyped, ParserTypeOK
<1>3. CASE Return
  BY <1>0, <1>3 DEF Return, ParserTyped, ParserTypeOK
<1>4. CASE UNCHANGED parserVars
  BY <1>4 DEF parserVars, ParserTyped, ParserTypeOK
<1>5. QED
  BY <1>1, <1>2, <1>3, <1>4 DEF ParserNext

\* Whatever arrives and however read() cuts it, the buffer and the position stay
\* within a frame, and no byte is left behind when a frame is complete.
THEOREM FrameNotOverrun == ParserSpec => []ParserTypeOK
<1>1. ParserTyped => ParserTypeOK
  BY DEF ParserTyped
<1>2. QED
  BY InitParserTyped, NextParserTyped, <1>1, PTL DEF ParserSpec

-----------------------------------------------------------------------------
(* The server threads.                                                           *)

AppState == {"closed", "starting", "client", "reconnect", "attach", "open", "deaf", "failed",
             "stop", "send", "join", "done", "dead"}
ConnState == {"none", "queued", "accepted", "reset"}
PcState == Alive \cup Ended \cup {"failed"}

\* Types of what the threads and the applications change.
Typed == /\ owner \in Handle \cup {None} /\ listening \in BOOLEAN
         /\ sent \subseteq Handle /\ holds \subseteq Handle
         /\ pc \in [Handle -> PcState]
         /\ app \in [Handle -> AppState]
         /\ posted \in [Handle -> Nat]
         /\ id \in Ids
\* Types of the connections.
NetTyped == /\ backlog \in Seq(Conn)
            /\ conn \in [Conn -> ConnState]
            /\ down \in [Conn -> Seq(Bytes)]

LEMMA ConnOf == \A p \in Handle : Slave(p) \in Conn /\ Client(p) \in Conn /\ Stop(p) \in Conn
BY DEF Conn, Slave, Client, Stop

\* Connections of different handles, or of different kinds, are different.
LEMMA ConnDiffer ==
    \A p, q \in Handle :
        /\ Slave(p) = Slave(q) => p = q
        /\ Client(p) = Client(q) => p = q
        /\ Stop(p) = Stop(q) => p = q
        /\ Slave(p) # Client(q) /\ Slave(p) # Stop(q) /\ Client(p) # Stop(q)
BY DEF Slave, Client, Stop

LEMMA InitTyped == Init => Typed
<1> SUFFICES ASSUME Init PROVE Typed
  OBVIOUS
<1>1. /\ owner = None /\ listening = FALSE /\ sent = {} /\ holds = {}
      /\ pc = [p \in Handle |-> "none"] /\ app = [p \in Handle |-> "closed"]
      /\ posted = [p \in Handle |-> 0] /\ id \in Ids
  BY DEF Init
<1>2. QED
  BY <1>1 DEF Typed, PcState, AppState, Ended

LEMMA NextTyped == Typed /\ [Next]_vars => Typed'
<1> SUFFICES ASSUME Typed, [Next]_vars PROVE Typed'
  OBVIOUS
<1> USE DEF Typed, PcState, AppState, Alive, Ended, Goto, AppGoto, Post, Forget
<1>1. ASSUME NEW p \in Handle, Bind(p) PROVE Typed'
  BY <1>1 DEF Bind, rest, net
<1>2. ASSUME NEW p \in Handle, Listen(p) PROVE Typed'
  BY <1>2 DEF Listen, rest, net
<1>3. ASSUME NEW p \in Handle, CloseServer(p) PROVE Typed'
  BY <1>3 DEF CloseServer, Unbind, Unread, rest
<1>4. ASSUME NEW p \in Handle, ConnectSlave(p) PROVE Typed'
  BY <1>4 DEF ConnectSlave, rest, net
<1>5. ASSUME NEW p \in Handle, ConnectRefused(p) PROVE Typed'
  BY <1>5 DEF ConnectRefused, rest, net
<1>6. ASSUME NEW p \in Handle, SlaveReads(p) PROVE Typed'
  BY <1>6 DEF SlaveReads, rest, net
<1>7. ASSUME NEW p \in Handle, SlaveStopped(p) PROVE Typed'
  BY <1>7 DEF SlaveStopped, rest, net
<1>8. ASSUME NEW p \in Handle, SlaveEof(p) PROVE Typed'
  BY <1>8 DEF SlaveEof, AfterEof, rest
<1>9. ASSUME NEW p \in Handle, Accept(p) PROVE Typed'
  BY <1>9 DEF Accept, rest, net
<1>10. ASSUME NEW p \in Handle, AttachFails(p) PROVE Typed'
  BY <1>10 DEF AttachFails, rest, net
<1>11. ASSUME NEW p \in Handle, Report(p) PROVE Typed'
  BY <1>11 DEF Report, rest, net
<1>12. ASSUME NEW p \in Handle, NEW q \in Handle, PassOn(p, q) PROVE Typed'
  BY <1>12 DEF PassOn, rest, net
<1>13. ASSUME NEW p \in Handle, NEW q \in Handle, MasterStopped(p, q) PROVE Typed'
  BY <1>13 DEF MasterStopped, Unread, rest
<1>14. ASSUME NEW p \in Handle, Start(p) PROVE Typed'
  BY <1>14 DEF Start, rest, net
<1>15. ASSUME NEW p \in Handle, Started(p) PROVE Typed'
  BY <1>15 DEF Started, rest, net
<1>16. ASSUME NEW p \in Handle, ConnectClient(p) PROVE Typed'
  BY <1>16 DEF ConnectClient, rest, net
<1>17. ASSUME NEW p \in Handle, ClientGivesUp(p) PROVE Typed'
  BY <1>17 DEF ClientGivesUp, rest, net
<1>18. ASSUME NEW p \in Handle, Attached(p) PROVE Typed'
  BY <1>18 DEF Attached, rest, net
<1>19. ASSUME NEW p \in Handle, ConnectStop(p) PROVE Typed'
  BY <1>19 DEF ConnectStop, rest, net
<1>20. ASSUME NEW p \in Handle, StopGivesUp(p) PROVE Typed'
  BY <1>20 DEF StopGivesUp, rest, net
<1>21. ASSUME NEW p \in Handle, SendStop(p) PROVE Typed'
  BY <1>21 DEF SendStop, rest, net
<1>22. ASSUME NEW p \in Handle, Join(p) PROVE Typed'
  BY <1>22 DEF Join, rest, net
<1>23. ASSUME NEW p \in Handle, ReadEvent(p) PROVE Typed'
  BY <1>23 DEF ReadEvent, rest, net
<1>24. ASSUME NEW p \in Handle, ReadEventFails(p) PROVE Typed'
  BY <1>24 DEF ReadEventFails, rest, net
<1>25. ASSUME NEW p \in Handle, Close(p) PROVE Typed'
  BY <1>25 DEF Close, rest, net
<1>26. ASSUME NEW p \in Handle, CloseDeaf(p) PROVE Typed'
  BY <1>26 DEF CloseDeaf, rest, net
<1>27. ASSUME NEW p \in Handle, Crash(p) PROVE Typed'
  BY <1>27 DEF Crash, Unread
<1>28. CASE UNCHANGED vars
  BY <1>28 DEF vars
<1>29. QED
  BY <1>1, <1>2, <1>3, <1>4, <1>5, <1>6, <1>7, <1>8, <1>9, <1>10, <1>11, <1>12, <1>13,
     <1>14, <1>15, <1>16, <1>17, <1>18, <1>19, <1>20, <1>21, <1>22, <1>23, <1>24, <1>25,
     <1>26, <1>27, <1>28 DEF Next, ThreadStep, AppStep, ReadStop

-----------------------------------------------------------------------------
(* Connections.                                                                  *)

\* What waits in the backlog, each once, is the connections not accepted yet.
BacklogExact == /\ IsInjective(backlog)
                /\ Range(backlog) = {c \in Conn : conn[c] = "queued"}

\* A connection belongs to a thread or a call that has made it and not closed it yet.
InUse == /\ \A p \in Handle : conn[Slave(p)] # "none" => pc[p] = "slave"
         /\ \A p \in Handle : conn[Client(p)] # "none" => app[p] \in {"attach", "open"}
         /\ \A p \in Handle : conn[Stop(p)] # "none" => app[p] \in {"send", "join", "failed"}

\* Taking an element out of a sequence that has it once at most.
LEMMA LeaveOnce ==
    ASSUME NEW S, NEW s \in Seq(S), IsInjective(s), NEW c
    PROVE  /\ Leave(s, c) \in Seq(S) /\ IsInjective(Leave(s, c))
           /\ Range(Leave(s, c)) = Range(s) \ {c}
<1>1. CASE \E i \in 1..Len(s) : s[i] = c
  <2>1. PICK k \in 1..Len(s) : s[k] = c
    BY <1>1
  <2>2. {i \in 1..Len(s) : s[i] = c} = {k}
    BY <2>1 DEF IsInjective
  <2>3. SelectInSeq(s, LAMBDA v : v = c) = k
    BY <2>2 DEF SelectInSeq, Min
  <2>4. Leave(s, c) = SubSeq(s, 1, k - 1) \o SubSeq(s, k + 1, Len(s))
    BY <1>1, <2>3 DEF Leave, RemoveFirst, RemoveAt
  <2> DEFINE t == SubSeq(s, 1, k - 1) \o SubSeq(s, k + 1, Len(s))
  <2>5. /\ t \in Seq(S) /\ Len(t) = Len(s) - 1
        /\ \A i \in 1..Len(t) : t[i] = IF i < k THEN s[i] ELSE s[i + 1]
    <3> DEFINE u == SubSeq(s, 1, k - 1)
               v == SubSeq(s, k + 1, Len(s))
    <3>1. u \in Seq(S) /\ Len(u) = k - 1 /\ \A i \in 1..(k - 1) : u[i] = s[i]
      OBVIOUS
    <3>2. v \in Seq(S) /\ Len(v) = Len(s) - k /\ \A i \in 1..(Len(s) - k) : v[i] = s[k + i]
      OBVIOUS
    <3>3. t = u \o v
      OBVIOUS
    <3>4. k \in Nat /\ Len(s) \in Nat /\ k <= Len(s) /\ 1 <= k
      OBVIOUS
    <3> HIDE DEF t, u, v
    <3>5. /\ u \o v \in Seq(S) /\ Len(u \o v) = Len(u) + Len(v)
          /\ \A i \in 1..(Len(u) + Len(v)) : (u \o v)[i] = IF i <= Len(u) THEN u[i] ELSE v[i - Len(u)]
      BY <3>1, <3>2, ConcatProperties
    <3>6. Len(t) = Len(s) - 1 /\ t \in Seq(S)
      BY ONLY <3>1, <3>2, <3>3, <3>4, <3>5
    <3>7. ASSUME NEW i \in 1..Len(t) PROVE t[i] = IF i < k THEN s[i] ELSE s[i + 1]
      <4>0. i \in 1..(Len(s) - 1) /\ i \in 1..(Len(u) + Len(v)) /\ i \in Nat
        BY ONLY <3>1, <3>2, <3>4, <3>6, <3>7
      <4>1. CASE i < k
        <5>1. i <= Len(u) /\ i \in 1..(k - 1)
          BY ONLY <4>0, <4>1, <3>1, <3>4
        <5>2. QED
          BY <3>1, <3>3, <3>5, <4>0, <4>1, <5>1
      <4>2. CASE ~(i < k)
        <5>1. ~(i <= Len(u)) /\ i - Len(u) \in 1..(Len(s) - k) /\ k + (i - Len(u)) = i + 1
          BY ONLY <4>0, <4>2, <3>1, <3>4
        <5>2. QED
          BY <3>2, <3>3, <3>5, <4>0, <4>2, <5>1
      <4>3. QED
        BY <4>1, <4>2
    <3>8. QED
      BY <3>6, <3>7
  <2> HIDE DEF t
  <2>6. DOMAIN t = 1..Len(t) /\ DOMAIN s = 1..Len(s) /\ Len(s) \in Nat
    BY <2>5
  <2>7. IsInjective(t)
    <3> SUFFICES ASSUME NEW a \in 1..Len(t), NEW b \in 1..Len(t), t[a] = t[b] PROVE a = b
      BY <2>6 DEF IsInjective
    <3>1. t[a] = s[IF a < k THEN a ELSE a + 1] /\ t[b] = s[IF b < k THEN b ELSE b + 1]
      BY <2>5
    <3>2. (IF a < k THEN a ELSE a + 1) \in 1..Len(s) /\ (IF b < k THEN b ELSE b + 1) \in 1..Len(s)
      BY <2>5, <2>6
    <3>3. (IF a < k THEN a ELSE a + 1) = (IF b < k THEN b ELSE b + 1)
      BY <2>6, <3>1, <3>2 DEF IsInjective
    <3>4. QED
      BY <2>6, <3>3
  <2>8. Range(t) = Range(s) \ {c}
    <3>1. ASSUME NEW i \in 1..Len(t) PROVE t[i] \in Range(s) /\ t[i] # c
      <4>1. (IF i < k THEN i ELSE i + 1) \in 1..Len(s) \ {k}
        BY <2>5, <2>6
      <4>2. t[i] = s[IF i < k THEN i ELSE i + 1]
        BY <2>5
      <4>3. QED
        BY <2>1, <2>6, <4>1, <4>2 DEF IsInjective, Range
    <3>2. ASSUME NEW j \in 1..Len(s), s[j] # c PROVE s[j] \in Range(t)
      <4>1. j # k
        BY <2>1, <3>2
      <4>2. (IF j < k THEN j ELSE j - 1) \in 1..Len(t)
        BY <2>5, <2>6, <4>1
      <4>3. t[IF j < k THEN j ELSE j - 1] = s[j]
        BY <2>5, <2>6, <4>1, <4>2
      <4>4. QED
        BY <2>6, <4>2, <4>3 DEF Range
    <3>3. QED
      BY <2>6, <3>1, <3>2 DEF Range
  <2>9. QED
    BY <2>4, <2>5, <2>7, <2>8 DEF t
<1>2. CASE ~\E i \in 1..Len(s) : s[i] = c
  <2>1. Leave(s, c) = s
    BY <1>2 DEF Leave, RemoveFirst
  <2>2. c \notin Range(s)
    BY <1>2 DEF Range
  <2>3. QED
    BY <2>1, <2>2
<1>3. QED
  BY <1>1, <1>2

\* A new connection of a client that has none.
LEMMA EnqueueNet ==
    ASSUME NetTyped, BacklogExact, NEW c \in Conn, conn[c] = "none", Enqueue(c)
    PROVE  NetTyped' /\ BacklogExact'
<1> USE DEF NetTyped, Enqueue, ConnState
<1>1. NetTyped'
  BY EmptySeq
<1>2. /\ Len(backlog') = Len(backlog) + 1 /\ DOMAIN backlog' = 1..Len(backlog')
      /\ \A i \in 1..Len(backlog) : backlog'[i] = backlog[i]
      /\ backlog'[Len(backlog) + 1] = c
      /\ DOMAIN backlog = 1..Len(backlog) /\ Len(backlog) \in Nat
  OBVIOUS
<1>3. c \notin Range(backlog)
  BY DEF BacklogExact
<1>4. IsInjective(backlog')
  <2> SUFFICES ASSUME NEW a \in 1..Len(backlog'), NEW b \in 1..Len(backlog'),
                      backlog'[a] = backlog'[b]
               PROVE  a = b
    BY <1>2 DEF IsInjective
  <2>1. \A i \in 1..Len(backlog) : backlog[i] # c
    BY <1>2, <1>3 DEF Range
  <2>2. CASE a \in 1..Len(backlog) /\ b \in 1..Len(backlog)
    BY <1>2, <2>2 DEF BacklogExact, IsInjective
  <2>3. QED
    BY <1>2, <2>1, <2>2
<1>5. Range(backlog') = Range(backlog) \cup {c}
  <2>1. ASSUME NEW i \in 1..Len(backlog') PROVE backlog'[i] \in Range(backlog) \cup {c}
    <3>1. i \in 1..Len(backlog) \/ i = Len(backlog) + 1
      BY <1>2
    <3>2. QED
      BY <1>2, <3>1 DEF Range
  <2>2. ASSUME NEW i \in 1..Len(backlog) PROVE backlog[i] \in Range(backlog')
    <3>1. i \in 1..Len(backlog') /\ backlog'[i] = backlog[i]
      BY <1>2
    <3>2. QED
      BY <1>2, <3>1 DEF Range
  <2>3. Len(backlog) + 1 \in 1..Len(backlog')
    BY <1>2
  <2>4. c \in Range(backlog')
    BY <1>2, <2>3 DEF Range
  <2>5. Range(backlog) \subseteq Range(backlog')
    BY <1>2, <2>2 DEF Range
  <2>6. Range(backlog') \subseteq Range(backlog) \cup {c}
    BY <1>2, <2>1 DEF Range
  <2>7. QED
    BY <2>4, <2>5, <2>6
<1>6. {d \in Conn : conn'[d] = "queued"} = {d \in Conn : conn[d] = "queued"} \cup {c}
  OBVIOUS
<1>7. QED
  BY <1>1, <1>4, <1>5, <1>6 DEF BacklogExact

\* A client closes its connection.
LEMMA HangupNet ==
    ASSUME NetTyped, BacklogExact, NEW c \in Conn, Hangup(c)
    PROVE  NetTyped' /\ BacklogExact'
<1>1. /\ backlog' \in Seq(Conn) /\ IsInjective(backlog')
      /\ Range(backlog') = Range(backlog) \ {c}
  BY LeaveOnce DEF NetTyped, BacklogExact, Hangup
<1>2. conn' = [conn EXCEPT ![c] = "none"] /\ down' = [down EXCEPT ![c] = <<>>]
  BY DEF Hangup
<1>3. NetTyped'
  BY <1>1, <1>2, EmptySeq DEF NetTyped, ConnState
<1>4. {d \in Conn : conn'[d] = "queued"} = {d \in Conn : conn[d] = "queued"} \ {c}
  BY <1>2 DEF NetTyped
<1>5. QED
  BY <1>1, <1>3, <1>4 DEF BacklogExact

\* The first of the backlog is accepted.
LEMMA AcceptNet ==
    ASSUME NetTyped, BacklogExact, NEW p \in Handle, Accept(p)
    PROVE  /\ NetTyped' /\ BacklogExact'
           /\ Head(backlog) \in Conn /\ conn[Head(backlog)] = "queued"
<1>1. /\ backlog # <<>> /\ backlog' = Tail(backlog) /\ down' = down
      /\ conn' = [conn EXCEPT ![Head(backlog)] = "accepted"]
  BY DEF Accept
<1> DEFINE h == Head(backlog)
<1>2. /\ backlog' \in Seq(Conn) /\ Len(backlog') = Len(backlog) - 1
      /\ \A i \in 1..Len(backlog') : backlog'[i] = backlog[i + 1]
      /\ h = backlog[1] /\ Len(backlog) \in Nat \ {0}
      /\ DOMAIN backlog = 1..Len(backlog) /\ DOMAIN backlog' = 1..Len(backlog')
  BY <1>1 DEF NetTyped
<1> HIDE DEF h
<1>3. \A a, b \in 1..Len(backlog) : backlog[a] = backlog[b] => a = b
  BY <1>2 DEF BacklogExact, IsInjective
<1>4. h \in Range(backlog) /\ h \in Conn /\ conn[h] = "queued"
  BY <1>2 DEF Range, BacklogExact
<1>5. IsInjective(backlog')
  <2>1. \A a, b \in 1..Len(backlog') : a + 1 \in 1..Len(backlog) /\ b + 1 \in 1..Len(backlog)
    BY <1>2
  <2>2. QED
    BY <1>2, <1>3, <2>1 DEF IsInjective
<1>6. Range(backlog') = Range(backlog) \ {h}
  <2>1. ASSUME NEW i \in 1..Len(backlog') PROVE backlog'[i] \in Range(backlog) /\ backlog'[i] # h
    <3>1. i + 1 \in 1..Len(backlog) /\ i + 1 # 1 /\ 1 \in 1..Len(backlog)
      BY <1>2
    <3>2. QED
      BY <1>2, <1>3, <3>1 DEF Range
  <2>2. ASSUME NEW j \in 1..Len(backlog), backlog[j] # h PROVE backlog[j] \in Range(backlog')
    <3>1. j - 1 \in 1..Len(backlog') /\ backlog'[j - 1] = backlog[(j - 1) + 1] /\ (j - 1) + 1 = j
      BY <1>2, <2>2
    <3>2. QED
      BY <1>2, <3>1 DEF Range
  <2>3. /\ Range(backlog') = {backlog'[i] : i \in 1..Len(backlog')}
        /\ Range(backlog) = {backlog[i] : i \in 1..Len(backlog)}
    BY <1>2, RangeEquality DEF NetTyped
  <2>4. QED
    BY ONLY <2>1, <2>2, <2>3
<1>7. conn' = [conn EXCEPT ![h] = "accepted"]
  BY <1>1 DEF h
<1>8. {c \in Conn : conn'[c] = "queued"} = {c \in Conn : conn[c] = "queued"} \ {h}
  BY <1>4, <1>7 DEF NetTyped
<1>9. conn' \in [Conn -> ConnState] /\ down' \in [Conn -> Seq(Bytes)]
  BY <1>1, <1>7 DEF NetTyped, ConnState
<1>10. QED
  BY <1>2, <1>4, <1>5, <1>6, <1>8, <1>9 DEF BacklogExact, NetTyped, h

\* send() to every connection.
LEMMA BroadcastNet ==
    ASSUME NetTyped, BacklogExact, NEW message \in Seq(Bytes), Broadcast(message), UNCHANGED <<backlog, conn>>
    PROVE  NetTyped' /\ BacklogExact'
<1>1. \A c \in Conn : down[c] \o message \in Seq(Bytes)
  BY ConcatProperties DEF NetTyped
<1>2. down' = [c \in Conn |-> IF conn[c] = "accepted" THEN down[c] \o message ELSE down[c]]
  BY DEF Broadcast
<1>3. \A c \in Conn : (IF conn[c] = "accepted" THEN down[c] \o message ELSE down[c]) \in Seq(Bytes)
  BY <1>1 DEF NetTyped
<1>4. down' \in [Conn -> Seq(Bytes)]
  BY ONLY <1>2, <1>3
<1>5. backlog' = backlog /\ conn' = conn
  OBVIOUS
<1>6. QED
  BY <1>4, <1>5 DEF NetTyped, BacklogExact

\* What is broadcast is bytes.
LEMMA BytesSent ==
    ASSUME Typed
    PROVE  /\ <<Event>> \in Seq(Bytes)
           /\ \A q \in Handle : id[q] \in Seq(Bytes) /\ Len(id[q]) = 2
<1>1. Event \in Bytes
  BY DEF Event, Bytes
<1>2. id \in [Handle -> [1..2 -> Bytes]]
  BY IdsAssumption DEF Typed, IdSize
<1> HIDE DEF Bytes
<1>3. ASSUME NEW q \in Handle PROVE id[q] \in Seq(Bytes) /\ Len(id[q]) = 2
  <2>1. id[q] \in [1..2 -> Bytes] /\ 2 \in Nat
    BY <1>2
  <2>2. id[q] \in Seq(Bytes)
    BY <2>1, SeqDef, Zenon
  <2>3. DOMAIN id[q] = 1..2 /\ DOMAIN id[q] = 1..Len(id[q]) /\ Len(id[q]) \in Nat
    BY <2>1, <2>2, LenProperties
  <2>4. 1 \in 1..Len(id[q]) /\ 2 \in 1..Len(id[q]) /\ 3 \notin 1..Len(id[q])
    BY <2>3, 1 \in 1..2, 2 \in 1..2, 3 \notin 1..2, Zenon
  <2> DEFINE k == Len(id[q])
  <2>5. k \in Nat /\ 1 \in 1..k /\ 2 \in 1..k /\ 3 \notin 1..k
    BY <2>3, <2>4
  <2> HIDE DEF k
  <2>6. k = 2
    BY <2>5
  <2>7. QED
    BY <2>2, <2>6 DEF k
<1>4. QED
  BY <1>1, <1>3

\* close() of the listening socket.
LEMMA UnbindNet ==
    ASSUME NetTyped, backlog' = <<>>, UNCHANGED down,
           conn' = [c \in Conn |-> IF c \in Conn /\ Open(c) THEN "reset" ELSE conn[c]]
    PROVE  NetTyped' /\ BacklogExact'
<1>1. \A c \in Conn : conn'[c] # "queued" /\ conn'[c] \in ConnState
  BY DEF NetTyped, Open, ConnState
<1>2. NetTyped'
  BY <1>1, EmptySeq DEF NetTyped
<1>3. Range(backlog') = {} /\ IsInjective(backlog')
  BY DEF Range, IsInjective
<1>4. QED
  BY <1>1, <1>2, <1>3 DEF BacklogExact

\* The process dies: its connections are closed, and everybody's if it was the server.
LEMMA CrashNet ==
    ASSUME NetTyped, BacklogExact, NEW p \in Handle, Crash(p)
    PROVE  NetTyped' /\ BacklogExact'
<1>1. conn' = [c \in Conn |-> IF c[1] = p THEN "none"
                               ELSE IF owner = p /\ Open(c) THEN "reset" ELSE conn[c]]
  BY DEF Crash
<1>2. down' \in [Conn -> Seq(Bytes)]
  <2>1. down' = [c \in Conn |-> IF c[1] = p THEN <<>> ELSE down[c]]
    BY DEF Crash
  <2>2. \A c \in Conn : (IF c[1] = p THEN <<>> ELSE down[c]) \in Seq(Bytes)
    BY EmptySeq DEF NetTyped
  <2>3. QED
    BY ONLY <2>1, <2>2
<1>3. conn' \in [Conn -> ConnState]
  BY <1>1 DEF NetTyped, ConnState
<1>4. CASE owner = p
  <2>1. backlog' = <<>>
    BY <1>4 DEF Crash
  <2>2. \A c \in Conn : conn'[c] # "queued"
    BY <1>1, <1>4 DEF Open
  <2>3. Range(backlog') = {} /\ IsInjective(backlog')
    BY <2>1 DEF Range, IsInjective
  <2>4. QED
    BY <1>2, <1>3, <2>1, <2>2, <2>3, EmptySeq DEF NetTyped, BacklogExact
<1>5. CASE owner # p
  <2> DEFINE one == Leave(backlog, Slave(p))
             two == Leave(one, Client(p))
             three == Leave(two, Stop(p))
  <2>1. one \in Seq(Conn) /\ IsInjective(one) /\ Range(one) = Range(backlog) \ {Slave(p)}
    BY LeaveOnce DEF NetTyped, BacklogExact
  <2> HIDE DEF one
  <2>2. two \in Seq(Conn) /\ IsInjective(two) /\ Range(two) = Range(one) \ {Client(p)}
    BY <2>1, LeaveOnce
  <2> HIDE DEF two
  <2>3. three \in Seq(Conn) /\ IsInjective(three) /\ Range(three) = Range(two) \ {Stop(p)}
    BY <2>2, LeaveOnce
  <2> HIDE DEF three
  <2>4. backlog' = three
    BY <1>5 DEF Crash, one, two, three
  <2>5. \A c \in Conn : c[1] = p <=> c \in {Slave(p), Client(p), Stop(p)}
    BY DEF Conn, Slave, Client, Stop
  <2>6. {c \in Conn : conn'[c] = "queued"} = {c \in Conn : conn[c] = "queued"} \ {Slave(p), Client(p), Stop(p)}
    BY <1>1, <1>5, <2>5
  <2>7. QED
    BY <1>2, <1>3, <2>1, <2>2, <2>3, <2>4, <2>6 DEF NetTyped, BacklogExact
<1>6. QED
  BY <1>4, <1>5

\* A handle that is closed, done or dead has no thread.
NoThreadLeft == \A p \in Handle : app[p] \in {"closed", "done", "dead"} => pc[p] \in Ended

LEMMA InitNet == Init => NetTyped /\ BacklogExact /\ InUse /\ NoThreadLeft
<1> SUFFICES ASSUME Init PROVE NetTyped /\ BacklogExact /\ InUse /\ NoThreadLeft
  OBVIOUS
<1>1. /\ backlog = <<>> /\ conn = [c \in Conn |-> "none"] /\ down = [c \in Conn |-> <<>>]
      /\ pc = [p \in Handle |-> "none"]
  BY DEF Init
<1>2. NetTyped
  BY <1>1, EmptySeq DEF NetTyped, ConnState
<1>3. Range(backlog) = {} /\ IsInjective(backlog)
  BY <1>1 DEF Range, IsInjective
<1>4. BacklogExact
  BY <1>1, <1>3 DEF BacklogExact
<1>5. InUse
  BY <1>1, ConnOf DEF InUse
<1>6. QED
  BY <1>1, <1>2, <1>4, <1>5 DEF NoThreadLeft, Ended

LEMMA NextNoThreadLeft == Typed /\ NoThreadLeft /\ [Next]_vars => NoThreadLeft'
<1> SUFFICES ASSUME Typed, NoThreadLeft, [Next]_vars PROVE NoThreadLeft'
  OBVIOUS
<1> USE DEF Typed, PcState, AppState, Alive, Ended, Goto, AppGoto, NoThreadLeft
<1>1. ASSUME NEW p \in Handle, Bind(p) PROVE NoThreadLeft'
  BY <1>1 DEF Bind, rest, net
<1>2. ASSUME NEW p \in Handle, Listen(p) PROVE NoThreadLeft'
  BY <1>2 DEF Listen, rest, net
<1>3. ASSUME NEW p \in Handle, CloseServer(p) PROVE NoThreadLeft'
  BY <1>3 DEF CloseServer, rest, net
<1>4. ASSUME NEW p \in Handle, ConnectSlave(p) PROVE NoThreadLeft'
  BY <1>4 DEF ConnectSlave, rest, net
<1>5. ASSUME NEW p \in Handle, ConnectRefused(p) PROVE NoThreadLeft'
  BY <1>5 DEF ConnectRefused, rest, net
<1>6. ASSUME NEW p \in Handle, SlaveReads(p) PROVE NoThreadLeft'
  BY <1>6 DEF SlaveReads, rest, net
<1>7. ASSUME NEW p \in Handle, SlaveStopped(p) PROVE NoThreadLeft'
  BY <1>7 DEF SlaveStopped, rest, net
<1>8. ASSUME NEW p \in Handle, SlaveEof(p) PROVE NoThreadLeft'
  BY <1>8 DEF SlaveEof, AfterEof, rest
<1>9. ASSUME NEW p \in Handle, Accept(p) PROVE NoThreadLeft'
  BY <1>9 DEF Accept, rest, net
<1>10. ASSUME NEW p \in Handle, AttachFails(p) PROVE NoThreadLeft'
  BY <1>10 DEF AttachFails, rest, net
<1>11. ASSUME NEW p \in Handle, Report(p) PROVE NoThreadLeft'
  BY <1>11 DEF Report, rest, net
<1>12. ASSUME NEW p \in Handle, NEW q \in Handle, PassOn(p, q) PROVE NoThreadLeft'
  BY <1>12 DEF PassOn, rest, net
<1>13. ASSUME NEW p \in Handle, NEW q \in Handle, MasterStopped(p, q) PROVE NoThreadLeft'
  BY <1>13 DEF MasterStopped, rest, net
<1>14. ASSUME NEW p \in Handle, Start(p) PROVE NoThreadLeft'
  BY <1>14 DEF Start, rest, net
<1>15. ASSUME NEW p \in Handle, Started(p) PROVE NoThreadLeft'
  BY <1>15 DEF Started, rest, net
<1>16. ASSUME NEW p \in Handle, ConnectClient(p) PROVE NoThreadLeft'
  BY <1>16 DEF ConnectClient, rest, net
<1>17. ASSUME NEW p \in Handle, ClientGivesUp(p) PROVE NoThreadLeft'
  BY <1>17 DEF ClientGivesUp, rest, net
<1>18. ASSUME NEW p \in Handle, Attached(p) PROVE NoThreadLeft'
  BY <1>18 DEF Attached, rest, net
<1>19. ASSUME NEW p \in Handle, ConnectStop(p) PROVE NoThreadLeft'
  BY <1>19 DEF ConnectStop, rest, net
<1>20. ASSUME NEW p \in Handle, StopGivesUp(p) PROVE NoThreadLeft'
  BY <1>20 DEF StopGivesUp, rest, net
<1>21. ASSUME NEW p \in Handle, SendStop(p) PROVE NoThreadLeft'
  BY <1>21 DEF SendStop, rest, net
<1>22. ASSUME NEW p \in Handle, Join(p) PROVE NoThreadLeft'
  BY <1>22 DEF Join, Ended
<1>23. ASSUME NEW p \in Handle, ReadEvent(p) PROVE NoThreadLeft'
  BY <1>23 DEF ReadEvent, rest, net
<1>24. ASSUME NEW p \in Handle, ReadEventFails(p) PROVE NoThreadLeft'
  BY <1>24 DEF ReadEventFails, rest, net
<1>25. ASSUME NEW p \in Handle, Close(p) PROVE NoThreadLeft'
  BY <1>25 DEF Close, rest, net
<1>26. ASSUME NEW p \in Handle, CloseDeaf(p) PROVE NoThreadLeft'
  BY <1>26 DEF CloseDeaf, rest, net
<1>27. ASSUME NEW p \in Handle, Crash(p) PROVE NoThreadLeft'
  BY <1>27 DEF Crash, Mortal
<1>28. CASE UNCHANGED vars
  BY <1>28 DEF vars
<1>29. QED
  BY <1>1, <1>2, <1>3, <1>4, <1>5, <1>6, <1>7, <1>8, <1>9, <1>10, <1>11, <1>12, <1>13,
     <1>14, <1>15, <1>16, <1>17, <1>18, <1>19, <1>20, <1>21, <1>22, <1>23, <1>24, <1>25,
     <1>26, <1>27, <1>28 DEF Next, ThreadStep, AppStep, ReadStop

LEMMA NextNet == Typed /\ NetTyped /\ BacklogExact /\ InUse /\ [Next]_vars => NetTyped' /\ BacklogExact'
<1> SUFFICES ASSUME Typed, NetTyped, BacklogExact, InUse, [Next]_vars PROVE NetTyped' /\ BacklogExact'
  OBVIOUS
<1>0. UNCHANGED <<backlog, conn, down>> => NetTyped' /\ BacklogExact'
  BY DEF NetTyped, BacklogExact
<1>1. ASSUME NEW p \in Handle, Bind(p) PROVE NetTyped' /\ BacklogExact'
  BY <1>0, <1>1 DEF Bind, rest, net
<1>2. ASSUME NEW p \in Handle, Listen(p) PROVE NetTyped' /\ BacklogExact'
  BY <1>0, <1>2 DEF Listen, rest, net
<1>3. ASSUME NEW p \in Handle, CloseServer(p) PROVE NetTyped' /\ BacklogExact'
  BY <1>3, UnbindNet DEF CloseServer, Unbind, ResetAll
<1>4. ASSUME NEW p \in Handle, ConnectSlave(p) PROVE NetTyped' /\ BacklogExact'
  BY <1>4, EnqueueNet, ConnOf DEF ConnectSlave, InUse
<1>5. ASSUME NEW p \in Handle, ConnectRefused(p) PROVE NetTyped' /\ BacklogExact'
  BY <1>0, <1>5 DEF ConnectRefused, rest, net
<1>6. ASSUME NEW p \in Handle, SlaveReads(p) PROVE NetTyped' /\ BacklogExact'
  <2>1. /\ backlog' = backlog /\ conn' = conn
        /\ down' = [down EXCEPT ![Slave(p)] = SubSeq(@, Len(Received(p)) + 1, Len(@))]
    BY <1>6 DEF SlaveReads, Consume
  <2>2. down[Slave(p)] \in Seq(Bytes) /\ Slave(p) \in Conn
    BY ConnOf DEF NetTyped
  <2>3. Len(Received(p)) \in Nat
    BY <2>2 DEF Received, IdSize
  <2>4. SubSeq(down[Slave(p)], Len(Received(p)) + 1, Len(down[Slave(p)])) \in Seq(Bytes)
    BY <2>2, <2>3
  <2>5. QED
    BY <2>1, <2>4 DEF NetTyped, BacklogExact
<1>7. ASSUME NEW p \in Handle, SlaveStopped(p) PROVE NetTyped' /\ BacklogExact'
  BY <1>7, HangupNet, ConnOf DEF SlaveStopped
<1>8. ASSUME NEW p \in Handle, SlaveEof(p) PROVE NetTyped' /\ BacklogExact'
  BY <1>8, HangupNet, ConnOf DEF SlaveEof
<1>9. ASSUME NEW p \in Handle, Accept(p) PROVE NetTyped' /\ BacklogExact'
  BY <1>9, AcceptNet
<1>10. ASSUME NEW p \in Handle, AttachFails(p) PROVE NetTyped' /\ BacklogExact'
  BY <1>0, <1>10 DEF AttachFails, rest, net
<1>11. ASSUME NEW p \in Handle, Report(p) PROVE NetTyped' /\ BacklogExact'
  BY <1>11, BroadcastNet, BytesSent DEF Report
<1>12. ASSUME NEW p \in Handle, NEW q \in Handle, PassOn(p, q) PROVE NetTyped' /\ BacklogExact'
  BY <1>12, BroadcastNet, BytesSent DEF PassOn
<1>13. ASSUME NEW p \in Handle, NEW q \in Handle, MasterStopped(p, q) PROVE NetTyped' /\ BacklogExact'
  <2>1. /\ backlog' = backlog /\ down' = down
        /\ \A c \in Conn : conn'[c] = IF conn[c] = "accepted" THEN "reset" ELSE conn[c]
        /\ conn' \in [Conn -> ConnState]
    BY <1>13 DEF MasterStopped, ResetAll, Open, NetTyped, ConnState
  <2>2. QED
    BY <2>1 DEF NetTyped, BacklogExact
<1>14. ASSUME NEW p \in Handle, Start(p) PROVE NetTyped' /\ BacklogExact'
  BY <1>0, <1>14 DEF Start, rest, net
<1>15. ASSUME NEW p \in Handle, Started(p) PROVE NetTyped' /\ BacklogExact'
  BY <1>0, <1>15 DEF Started, rest, net
<1>16. ASSUME NEW p \in Handle, ConnectClient(p) PROVE NetTyped' /\ BacklogExact'
  BY <1>16, EnqueueNet, ConnOf DEF ConnectClient, InUse
<1>17. ASSUME NEW p \in Handle, ClientGivesUp(p) PROVE NetTyped' /\ BacklogExact'
  BY <1>0, <1>17 DEF ClientGivesUp, rest, net
<1>18. ASSUME NEW p \in Handle, Attached(p) PROVE NetTyped' /\ BacklogExact'
  BY <1>0, <1>18 DEF Attached, rest, net
<1>19. ASSUME NEW p \in Handle, ConnectStop(p) PROVE NetTyped' /\ BacklogExact'
  BY <1>19, EnqueueNet, ConnOf DEF ConnectStop, InUse
<1>20. ASSUME NEW p \in Handle, StopGivesUp(p) PROVE NetTyped' /\ BacklogExact'
  BY <1>0, <1>20 DEF StopGivesUp, rest, net
<1>21. ASSUME NEW p \in Handle, SendStop(p) PROVE NetTyped' /\ BacklogExact'
  BY <1>0, <1>21 DEF SendStop, rest, net
<1>22. ASSUME NEW p \in Handle, Join(p) PROVE NetTyped' /\ BacklogExact'
  BY <1>22, HangupNet, ConnOf DEF Join
<1>23. ASSUME NEW p \in Handle, ReadEvent(p) PROVE NetTyped' /\ BacklogExact'
  BY <1>23, EmptySeq, ConnOf DEF ReadEvent, NetTyped, BacklogExact
<1>24. ASSUME NEW p \in Handle, ReadEventFails(p) PROVE NetTyped' /\ BacklogExact'
  BY <1>24, HangupNet, ConnOf DEF ReadEventFails
<1>25. ASSUME NEW p \in Handle, Close(p) PROVE NetTyped' /\ BacklogExact'
  BY <1>25, HangupNet, ConnOf DEF Close
<1>26. ASSUME NEW p \in Handle, CloseDeaf(p) PROVE NetTyped' /\ BacklogExact'
  BY <1>0, <1>26 DEF CloseDeaf, rest, net
<1>27. ASSUME NEW p \in Handle, Crash(p) PROVE NetTyped' /\ BacklogExact'
  BY <1>27, CrashNet
<1>28. CASE UNCHANGED vars
  BY <1>0, <1>28 DEF vars
<1>29. QED
  BY <1>1, <1>2, <1>3, <1>4, <1>5, <1>6, <1>7, <1>8, <1>9, <1>10, <1>11, <1>12, <1>13,
     <1>14, <1>15, <1>16, <1>17, <1>18, <1>19, <1>20, <1>21, <1>22, <1>23, <1>24, <1>25,
     <1>26, <1>27, <1>28 DEF Next, ThreadStep, AppStep, ReadStop

LEMMA NextInUse ==
    Typed /\ NetTyped /\ BacklogExact /\ InUse /\ NoThreadLeft /\ [Next]_vars => InUse'
<1> SUFFICES ASSUME Typed, NetTyped, BacklogExact, InUse, NoThreadLeft, [Next]_vars PROVE InUse'
  OBVIOUS
<1> USE ConnOf, ConnDiffer
        DEF InUse, Typed, NetTyped, PcState, AppState, Alive, Ended, Goto, AppGoto, Enqueue, Hangup
<1>1. ASSUME NEW p \in Handle, Bind(p) PROVE InUse'
  BY <1>1 DEF Bind, rest, net
<1>2. ASSUME NEW p \in Handle, Listen(p) PROVE InUse'
  BY <1>2 DEF Listen, rest, net
<1>3. ASSUME NEW p \in Handle, CloseServer(p) PROVE InUse'
  BY <1>3 DEF CloseServer, Unbind, ResetAll, Open, rest
<1>4. ASSUME NEW p \in Handle, ConnectSlave(p) PROVE InUse'
  BY <1>4 DEF ConnectSlave, rest, net
<1>5. ASSUME NEW p \in Handle, ConnectRefused(p) PROVE InUse'
  BY <1>5 DEF ConnectRefused, rest, net
<1>6. ASSUME NEW p \in Handle, SlaveReads(p) PROVE InUse'
  BY <1>6 DEF SlaveReads, rest, net
<1>7. ASSUME NEW p \in Handle, SlaveStopped(p) PROVE InUse'
  BY <1>7 DEF SlaveStopped, rest, net
<1>8. ASSUME NEW p \in Handle, SlaveEof(p) PROVE InUse'
  BY <1>8 DEF SlaveEof, AfterEof, rest
<1>9. ASSUME NEW p \in Handle, Accept(p) PROVE InUse'
  BY <1>9, AcceptNet DEF Accept, rest
<1>10. ASSUME NEW p \in Handle, AttachFails(p) PROVE InUse'
  BY <1>10 DEF AttachFails, rest, net
<1>11. ASSUME NEW p \in Handle, Report(p) PROVE InUse'
  BY <1>11 DEF Report, rest, net
<1>12. ASSUME NEW p \in Handle, NEW q \in Handle, PassOn(p, q) PROVE InUse'
  BY <1>12 DEF PassOn, rest, net
<1>13. ASSUME NEW p \in Handle, NEW q \in Handle, MasterStopped(p, q) PROVE InUse'
  BY <1>13 DEF MasterStopped, ResetAll, Open, rest
<1>14. ASSUME NEW p \in Handle, Start(p) PROVE InUse'
  BY <1>14 DEF Start, NoThreadLeft, net, rest
<1>15. ASSUME NEW p \in Handle, Started(p) PROVE InUse'
  BY <1>15 DEF Started, rest, net
<1>16. ASSUME NEW p \in Handle, ConnectClient(p) PROVE InUse'
  BY <1>16 DEF ConnectClient, rest, net
<1>17. ASSUME NEW p \in Handle, ClientGivesUp(p) PROVE InUse'
  BY <1>17 DEF ClientGivesUp, rest, net
<1>18. ASSUME NEW p \in Handle, Attached(p) PROVE InUse'
  BY <1>18 DEF Attached, rest, net
<1>19. ASSUME NEW p \in Handle, ConnectStop(p) PROVE InUse'
  BY <1>19 DEF ConnectStop, rest, net
<1>20. ASSUME NEW p \in Handle, StopGivesUp(p) PROVE InUse'
  BY <1>20 DEF StopGivesUp, rest, net
<1>21. ASSUME NEW p \in Handle, SendStop(p) PROVE InUse'
  <2>1. /\ conn' = conn /\ pc' = pc /\ app[p] = "send"
        /\ app' = [app EXCEPT ![p] = "join"] \/ app' = [app EXCEPT ![p] = "failed"]
    BY <1>21 DEF SendStop
  <2>2. /\ \A r \in Handle \ {p} : app'[r] = app[r]
        /\ app'[p] \in {"join", "failed"}
    BY <2>1
  <2>3. conn[Client(p)] = "none"
    BY <2>1
  <2>4. QED
    BY <2>1, <2>2, <2>3
<1>22. ASSUME NEW p \in Handle, Join(p) PROVE InUse'
  BY <1>22 DEF Join, rest, net
<1>23. ASSUME NEW p \in Handle, ReadEvent(p) PROVE InUse'
  BY <1>23 DEF ReadEvent, rest, net
<1>24. ASSUME NEW p \in Handle, ReadEventFails(p) PROVE InUse'
  BY <1>24 DEF ReadEventFails, rest, net
<1>25. ASSUME NEW p \in Handle, Close(p) PROVE InUse'
  BY <1>25 DEF Close, rest, net
<1>26. ASSUME NEW p \in Handle, CloseDeaf(p) PROVE InUse'
  BY <1>26 DEF CloseDeaf, rest, net
<1>27. ASSUME NEW p \in Handle, Crash(p) PROVE InUse'
  <2>1. \A c \in Conn : conn'[c] # "none" => conn[c] # "none" /\ c[1] # p
    BY <1>27 DEF Crash, Open
  <2>2. /\ \A r \in Handle \ {p} : pc'[r] = pc[r] /\ app'[r] = app[r]
        /\ Slave(p)[1] = p /\ Client(p)[1] = p /\ Stop(p)[1] = p
    BY <1>27 DEF Crash, Slave, Client, Stop
  <2>3. ASSUME NEW r \in Handle
        PROVE  /\ conn'[Slave(r)] # "none" => pc'[r] = "slave"
               /\ conn'[Client(r)] # "none" => app'[r] \in {"attach", "open"}
               /\ conn'[Stop(r)] # "none" => app'[r] \in {"send", "join", "failed"}
    <3>1. CASE r = p
      <4>1. conn'[Slave(p)] = "none" /\ conn'[Client(p)] = "none" /\ conn'[Stop(p)] = "none"
        BY <2>1, <2>2, ConnOf
      <4>2. QED
        BY <3>1, <4>1
    <3>2. CASE r # p
      <4>1. pc'[r] = pc[r] /\ app'[r] = app[r]
        BY <2>2, <3>2
      <4>2. /\ conn'[Slave(r)] # "none" => conn[Slave(r)] # "none"
            /\ conn'[Client(r)] # "none" => conn[Client(r)] # "none"
            /\ conn'[Stop(r)] # "none" => conn[Stop(r)] # "none"
        BY <2>1, ConnOf
      <4>3. QED
        BY <4>1, <4>2
    <3>3. QED
      BY <3>1, <3>2
  <2>4. QED
    BY <2>3
<1>28. CASE UNCHANGED vars
  BY <1>28 DEF vars
<1>29. QED
  BY <1>1, <1>2, <1>3, <1>4, <1>5, <1>6, <1>7, <1>8, <1>9, <1>10, <1>11, <1>12, <1>13,
     <1>14, <1>15, <1>16, <1>17, <1>18, <1>19, <1>20, <1>21, <1>22, <1>23, <1>24, <1>25,
     <1>26, <1>27, <1>28 DEF Next, ThreadStep, AppStep, ReadStop

-----------------------------------------------------------------------------
(* The owner of the name.                                                        *)

\* One thread at most is the server: the owner of the name, and it alone listens.
OwnerExact == /\ \A p \in Handle : pc[p] \in {"bound", "master", "closing", "failed"} <=> owner = p
              /\ listening <=> (owner # None /\ pc[owner] # "bound")
\* No connection outlives the server that has it.
Served == \A c \in Conn : Open(c) => listening

LEMMA NextOwnerExact == Typed /\ NoThreadLeft /\ OwnerExact /\ [Next]_vars => OwnerExact'
<1> SUFFICES ASSUME Typed, NoThreadLeft, OwnerExact, [Next]_vars PROVE OwnerExact'
  OBVIOUS
<1> USE NoneAssumption DEF OwnerExact, Typed, PcState, Alive, Ended, Goto
<1>1. ASSUME NEW p \in Handle, Bind(p) PROVE OwnerExact'
  BY <1>1 DEF Bind, rest, net
<1>2. ASSUME NEW p \in Handle, Listen(p) PROVE OwnerExact'
  BY <1>2 DEF Listen, rest, net
<1>3. ASSUME NEW p \in Handle, CloseServer(p) PROVE OwnerExact'
  BY <1>3 DEF CloseServer, Unbind
<1>4. ASSUME NEW p \in Handle, ConnectSlave(p) PROVE OwnerExact'
  BY <1>4 DEF ConnectSlave, rest, net
<1>5. ASSUME NEW p \in Handle, ConnectRefused(p) PROVE OwnerExact'
  BY <1>5 DEF ConnectRefused, rest, net
<1>6. ASSUME NEW p \in Handle, SlaveReads(p) PROVE OwnerExact'
  BY <1>6 DEF SlaveReads, rest, net
<1>7. ASSUME NEW p \in Handle, SlaveStopped(p) PROVE OwnerExact'
  BY <1>7 DEF SlaveStopped, rest, net
<1>8. ASSUME NEW p \in Handle, SlaveEof(p) PROVE OwnerExact'
  BY <1>8 DEF SlaveEof, AfterEof
<1>9. ASSUME NEW p \in Handle, Accept(p) PROVE OwnerExact'
  BY <1>9 DEF Accept, rest, net
<1>10. ASSUME NEW p \in Handle, AttachFails(p) PROVE OwnerExact'
  BY <1>10 DEF AttachFails, rest, net
<1>11. ASSUME NEW p \in Handle, Report(p) PROVE OwnerExact'
  BY <1>11 DEF Report, rest, net
<1>12. ASSUME NEW p \in Handle, NEW q \in Handle, PassOn(p, q) PROVE OwnerExact'
  BY <1>12 DEF PassOn, rest, net
<1>13. ASSUME NEW p \in Handle, NEW q \in Handle, MasterStopped(p, q) PROVE OwnerExact'
  BY <1>13 DEF MasterStopped, rest, net
<1>14. ASSUME NEW p \in Handle, Start(p) PROVE OwnerExact'
  BY <1>14 DEF Start, NoThreadLeft
<1>15. ASSUME NEW p \in Handle, Started(p) PROVE OwnerExact'
  BY <1>15 DEF Started, rest, net
<1>16. ASSUME NEW p \in Handle, ConnectClient(p) PROVE OwnerExact'
  BY <1>16 DEF ConnectClient, rest, net
<1>17. ASSUME NEW p \in Handle, ClientGivesUp(p) PROVE OwnerExact'
  BY <1>17 DEF ClientGivesUp, rest, net
<1>18. ASSUME NEW p \in Handle, Attached(p) PROVE OwnerExact'
  BY <1>18 DEF Attached, rest, net
<1>19. ASSUME NEW p \in Handle, ConnectStop(p) PROVE OwnerExact'
  BY <1>19 DEF ConnectStop, rest, net
<1>20. ASSUME NEW p \in Handle, StopGivesUp(p) PROVE OwnerExact'
  BY <1>20 DEF StopGivesUp, rest, net
<1>21. ASSUME NEW p \in Handle, SendStop(p) PROVE OwnerExact'
  BY <1>21 DEF SendStop, rest, net
<1>22. ASSUME NEW p \in Handle, Join(p) PROVE OwnerExact'
  BY <1>22 DEF Join, rest, net
<1>23. ASSUME NEW p \in Handle, ReadEvent(p) PROVE OwnerExact'
  BY <1>23 DEF ReadEvent, rest, net
<1>24. ASSUME NEW p \in Handle, ReadEventFails(p) PROVE OwnerExact'
  BY <1>24 DEF ReadEventFails, rest, net
<1>25. ASSUME NEW p \in Handle, Close(p) PROVE OwnerExact'
  BY <1>25 DEF Close, rest, net
<1>26. ASSUME NEW p \in Handle, CloseDeaf(p) PROVE OwnerExact'
  BY <1>26 DEF CloseDeaf, rest, net
<1>27. ASSUME NEW p \in Handle, Crash(p) PROVE OwnerExact'
  BY <1>27 DEF Crash
<1>28. CASE UNCHANGED vars
  BY <1>28 DEF vars
<1>29. QED
  BY <1>1, <1>2, <1>3, <1>4, <1>5, <1>6, <1>7, <1>8, <1>9, <1>10, <1>11, <1>12, <1>13,
     <1>14, <1>15, <1>16, <1>17, <1>18, <1>19, <1>20, <1>21, <1>22, <1>23, <1>24, <1>25,
     <1>26, <1>27, <1>28 DEF Next, ThreadStep, AppStep, ReadStop

LEMMA NextServed ==
    Typed /\ NetTyped /\ BacklogExact /\ InUse /\ OwnerExact /\ Served /\ [Next]_vars => Served'
<1> SUFFICES ASSUME Typed, NetTyped, BacklogExact, InUse, OwnerExact, Served, [Next]_vars PROVE Served'
  OBVIOUS
<1> USE ConnOf DEF Served, Open, NetTyped, ConnState, Connectable, Enqueue, Hangup
<1>1. ASSUME NEW p \in Handle, Bind(p) PROVE Served'
  BY <1>1 DEF Bind, rest, net
<1>2. ASSUME NEW p \in Handle, Listen(p) PROVE Served'
  BY <1>2 DEF Listen, rest, net
<1>3. ASSUME NEW p \in Handle, CloseServer(p) PROVE Served'
  BY <1>3 DEF CloseServer, Unbind, ResetAll
<1>4. ASSUME NEW p \in Handle, ConnectSlave(p) PROVE Served'
  BY <1>4 DEF ConnectSlave, rest, net
<1>5. ASSUME NEW p \in Handle, ConnectRefused(p) PROVE Served'
  BY <1>5 DEF ConnectRefused, rest, net
<1>6. ASSUME NEW p \in Handle, SlaveReads(p) PROVE Served'
  BY <1>6 DEF SlaveReads, rest, net
<1>7. ASSUME NEW p \in Handle, SlaveStopped(p) PROVE Served'
  BY <1>7 DEF SlaveStopped, rest, net
<1>8. ASSUME NEW p \in Handle, SlaveEof(p) PROVE Served'
  BY <1>8 DEF SlaveEof, rest, net
<1>9. ASSUME NEW p \in Handle, Accept(p) PROVE Served'
  BY <1>9, AcceptNet DEF Accept
<1>10. ASSUME NEW p \in Handle, AttachFails(p) PROVE Served'
  BY <1>10 DEF AttachFails, rest, net
<1>11. ASSUME NEW p \in Handle, Report(p) PROVE Served'
  BY <1>11 DEF Report, rest, net
<1>12. ASSUME NEW p \in Handle, NEW q \in Handle, PassOn(p, q) PROVE Served'
  BY <1>12 DEF PassOn, rest, net
<1>13. ASSUME NEW p \in Handle, NEW q \in Handle, MasterStopped(p, q) PROVE Served'
  BY <1>13 DEF MasterStopped, ResetAll
<1>14. ASSUME NEW p \in Handle, Start(p) PROVE Served'
  BY <1>14 DEF Start, rest, net
<1>15. ASSUME NEW p \in Handle, Started(p) PROVE Served'
  BY <1>15 DEF Started, rest, net
<1>16. ASSUME NEW p \in Handle, ConnectClient(p) PROVE Served'
  BY <1>16 DEF ConnectClient, rest, net
<1>17. ASSUME NEW p \in Handle, ClientGivesUp(p) PROVE Served'
  BY <1>17 DEF ClientGivesUp, rest, net
<1>18. ASSUME NEW p \in Handle, Attached(p) PROVE Served'
  BY <1>18 DEF Attached, rest, net
<1>19. ASSUME NEW p \in Handle, ConnectStop(p) PROVE Served'
  BY <1>19 DEF ConnectStop, rest, net
<1>20. ASSUME NEW p \in Handle, StopGivesUp(p) PROVE Served'
  BY <1>20 DEF StopGivesUp, rest, net
<1>21. ASSUME NEW p \in Handle, SendStop(p) PROVE Served'
  BY <1>21 DEF SendStop, rest, net
<1>22. ASSUME NEW p \in Handle, Join(p) PROVE Served'
  BY <1>22 DEF Join, rest, net
<1>23. ASSUME NEW p \in Handle, ReadEvent(p) PROVE Served'
  BY <1>23 DEF ReadEvent, rest, net
<1>24. ASSUME NEW p \in Handle, ReadEventFails(p) PROVE Served'
  BY <1>24 DEF ReadEventFails, rest, net
<1>25. ASSUME NEW p \in Handle, Close(p) PROVE Served'
  BY <1>25 DEF Close, rest, net
<1>26. ASSUME NEW p \in Handle, CloseDeaf(p) PROVE Served'
  BY <1>26 DEF CloseDeaf, rest, net
<1>27. ASSUME NEW p \in Handle, Crash(p) PROVE Served'
  BY <1>27 DEF Crash
<1>28. CASE UNCHANGED vars
  BY <1>28 DEF vars
<1>29. QED
  BY <1>1, <1>2, <1>3, <1>4, <1>5, <1>6, <1>7, <1>8, <1>9, <1>10, <1>11, <1>12, <1>13,
     <1>14, <1>15, <1>16, <1>17, <1>18, <1>19, <1>20, <1>21, <1>22, <1>23, <1>24, <1>25,
     <1>26, <1>27, <1>28 DEF Next, ThreadStep, AppStep, ReadStop

-----------------------------------------------------------------------------
(* The semaphore.                                                                *)

\* A thread that has the address of the semaphore has not posted it, has not got to
\* its loop yet, and snd_ctl_open waits; and it waits for a thread or a post only.
Waited == /\ \A p \in holds : app[p] = "starting" /\ posted[p] = 0 /\ pc[p] \in {"socket", "bound", "connect"}
          /\ \A p \in Handle : /\ posted[p] <= 1
                               /\ app[p] = "starting" => p \in holds \/ posted[p] = 1

LEMMA NextWaited == Typed /\ Waited /\ [Next]_vars => Waited'
<1> SUFFICES ASSUME Typed, Waited, [Next]_vars PROVE Waited'
  OBVIOUS
<1> USE DEF Waited, Typed, PcState, AppState, Alive, Ended, Goto, AppGoto, Post, Forget
<1>1. ASSUME NEW p \in Handle, Bind(p) PROVE Waited'
  BY <1>1 DEF Bind, rest, net
<1>2. ASSUME NEW p \in Handle, Listen(p) PROVE Waited'
  BY <1>2 DEF Listen, rest, net
<1>3. ASSUME NEW p \in Handle, CloseServer(p) PROVE Waited'
  BY <1>3 DEF CloseServer, rest, net
<1>4. ASSUME NEW p \in Handle, ConnectSlave(p) PROVE Waited'
  BY <1>4 DEF ConnectSlave, rest, net
<1>5. ASSUME NEW p \in Handle, ConnectRefused(p) PROVE Waited'
  BY <1>5 DEF ConnectRefused, rest, net
<1>6. ASSUME NEW p \in Handle, SlaveReads(p) PROVE Waited'
  BY <1>6 DEF SlaveReads, rest, net
<1>7. ASSUME NEW p \in Handle, SlaveStopped(p) PROVE Waited'
  BY <1>7 DEF SlaveStopped, rest, net
<1>8. ASSUME NEW p \in Handle, SlaveEof(p) PROVE Waited'
  BY <1>8 DEF SlaveEof, AfterEof, rest
<1>9. ASSUME NEW p \in Handle, Accept(p) PROVE Waited'
  BY <1>9 DEF Accept, rest, net
<1>10. ASSUME NEW p \in Handle, AttachFails(p) PROVE Waited'
  BY <1>10 DEF AttachFails, rest, net
<1>11. ASSUME NEW p \in Handle, Report(p) PROVE Waited'
  BY <1>11 DEF Report, rest, net
<1>12. ASSUME NEW p \in Handle, NEW q \in Handle, PassOn(p, q) PROVE Waited'
  BY <1>12 DEF PassOn, rest, net
<1>13. ASSUME NEW p \in Handle, NEW q \in Handle, MasterStopped(p, q) PROVE Waited'
  BY <1>13 DEF MasterStopped, rest, net
<1>14. ASSUME NEW p \in Handle, Start(p) PROVE Waited'
  BY <1>14 DEF Start, rest, net
<1>15. ASSUME NEW p \in Handle, Started(p) PROVE Waited'
  BY <1>15 DEF Started, rest, net
<1>16. ASSUME NEW p \in Handle, ConnectClient(p) PROVE Waited'
  BY <1>16 DEF ConnectClient, rest, net
<1>17. ASSUME NEW p \in Handle, ClientGivesUp(p) PROVE Waited'
  BY <1>17 DEF ClientGivesUp, rest, net
<1>18. ASSUME NEW p \in Handle, Attached(p) PROVE Waited'
  BY <1>18 DEF Attached, rest, net
<1>19. ASSUME NEW p \in Handle, ConnectStop(p) PROVE Waited'
  BY <1>19 DEF ConnectStop, rest, net
<1>20. ASSUME NEW p \in Handle, StopGivesUp(p) PROVE Waited'
  BY <1>20 DEF StopGivesUp, rest, net
<1>21. ASSUME NEW p \in Handle, SendStop(p) PROVE Waited'
  BY <1>21 DEF SendStop, rest, net
<1>22. ASSUME NEW p \in Handle, Join(p) PROVE Waited'
  BY <1>22 DEF Join, rest, net
<1>23. ASSUME NEW p \in Handle, ReadEvent(p) PROVE Waited'
  BY <1>23 DEF ReadEvent, rest, net
<1>24. ASSUME NEW p \in Handle, ReadEventFails(p) PROVE Waited'
  BY <1>24 DEF ReadEventFails, rest, net
<1>25. ASSUME NEW p \in Handle, Close(p) PROVE Waited'
  BY <1>25 DEF Close, rest, net
<1>26. ASSUME NEW p \in Handle, CloseDeaf(p) PROVE Waited'
  BY <1>26 DEF CloseDeaf, rest, net
<1>27. ASSUME NEW p \in Handle, Crash(p) PROVE Waited'
  BY <1>27 DEF Crash, Mortal
<1>28. CASE UNCHANGED vars
  BY <1>28 DEF vars
<1>29. QED
  BY <1>1, <1>2, <1>3, <1>4, <1>5, <1>6, <1>7, <1>8, <1>9, <1>10, <1>11, <1>12, <1>13,
     <1>14, <1>15, <1>16, <1>17, <1>18, <1>19, <1>20, <1>21, <1>22, <1>23, <1>24, <1>25,
     <1>26, <1>27, <1>28 DEF Next, ThreadStep, AppStep, ReadStop

\* The semaphore is posted only while snd_ctl_open waits for it: the step form.
LEMMA PostStep ==
    Typed /\ Waited /\ [Next]_vars => \A p \in Handle : posted'[p] > posted[p] => app[p] = "starting"
<1> SUFFICES ASSUME Typed, Waited, [Next]_vars, NEW r \in Handle, posted'[r] > posted[r]
             PROVE  app[r] = "starting"
  OBVIOUS
<1> USE DEF Typed, Waited, Post, Forget
<1>1. ASSUME NEW p \in Handle, Bind(p) PROVE app[r] = "starting"
  BY <1>1 DEF Bind, rest, net
<1>2. ASSUME NEW p \in Handle, Listen(p) PROVE app[r] = "starting"
  BY <1>2 DEF Listen, rest, net
<1>3. ASSUME NEW p \in Handle, CloseServer(p) PROVE app[r] = "starting"
  BY <1>3 DEF CloseServer, rest, net
<1>4. ASSUME NEW p \in Handle, ConnectSlave(p) PROVE app[r] = "starting"
  BY <1>4 DEF ConnectSlave, rest, net
<1>5. ASSUME NEW p \in Handle, ConnectRefused(p) PROVE app[r] = "starting"
  BY <1>5 DEF ConnectRefused, rest, net
<1>6. ASSUME NEW p \in Handle, SlaveReads(p) PROVE app[r] = "starting"
  BY <1>6 DEF SlaveReads, rest, net
<1>7. ASSUME NEW p \in Handle, SlaveStopped(p) PROVE app[r] = "starting"
  BY <1>7 DEF SlaveStopped, rest, net
<1>8. ASSUME NEW p \in Handle, SlaveEof(p) PROVE app[r] = "starting"
  BY <1>8 DEF SlaveEof, rest, net
<1>9. ASSUME NEW p \in Handle, Accept(p) PROVE app[r] = "starting"
  BY <1>9 DEF Accept, rest, net
<1>10. ASSUME NEW p \in Handle, AttachFails(p) PROVE app[r] = "starting"
  BY <1>10 DEF AttachFails, rest, net
<1>11. ASSUME NEW p \in Handle, Report(p) PROVE app[r] = "starting"
  BY <1>11 DEF Report, rest, net
<1>12. ASSUME NEW p \in Handle, NEW q \in Handle, PassOn(p, q) PROVE app[r] = "starting"
  BY <1>12 DEF PassOn, rest, net
<1>13. ASSUME NEW p \in Handle, NEW q \in Handle, MasterStopped(p, q) PROVE app[r] = "starting"
  BY <1>13 DEF MasterStopped, rest, net
<1>14. ASSUME NEW p \in Handle, Start(p) PROVE app[r] = "starting"
  BY <1>14 DEF Start, rest, net
<1>15. ASSUME NEW p \in Handle, Started(p) PROVE app[r] = "starting"
  BY <1>15 DEF Started, rest, net
<1>16. ASSUME NEW p \in Handle, ConnectClient(p) PROVE app[r] = "starting"
  BY <1>16 DEF ConnectClient, rest, net
<1>17. ASSUME NEW p \in Handle, ClientGivesUp(p) PROVE app[r] = "starting"
  BY <1>17 DEF ClientGivesUp, rest, net
<1>18. ASSUME NEW p \in Handle, Attached(p) PROVE app[r] = "starting"
  BY <1>18 DEF Attached, rest, net
<1>19. ASSUME NEW p \in Handle, ConnectStop(p) PROVE app[r] = "starting"
  BY <1>19 DEF ConnectStop, rest, net
<1>20. ASSUME NEW p \in Handle, StopGivesUp(p) PROVE app[r] = "starting"
  BY <1>20 DEF StopGivesUp, rest, net
<1>21. ASSUME NEW p \in Handle, SendStop(p) PROVE app[r] = "starting"
  BY <1>21 DEF SendStop, rest, net
<1>22. ASSUME NEW p \in Handle, Join(p) PROVE app[r] = "starting"
  BY <1>22 DEF Join, rest, net
<1>23. ASSUME NEW p \in Handle, ReadEvent(p) PROVE app[r] = "starting"
  BY <1>23 DEF ReadEvent, rest, net
<1>24. ASSUME NEW p \in Handle, ReadEventFails(p) PROVE app[r] = "starting"
  BY <1>24 DEF ReadEventFails, rest, net
<1>25. ASSUME NEW p \in Handle, Close(p) PROVE app[r] = "starting"
  BY <1>25 DEF Close, rest, net
<1>26. ASSUME NEW p \in Handle, CloseDeaf(p) PROVE app[r] = "starting"
  BY <1>26 DEF CloseDeaf, rest, net
<1>27. ASSUME NEW p \in Handle, Crash(p) PROVE app[r] = "starting"
  BY <1>27 DEF Crash, rest, net
<1>28. CASE UNCHANGED vars
  BY <1>28 DEF vars
<1>29. QED
  BY <1>1, <1>2, <1>3, <1>4, <1>5, <1>6, <1>7, <1>8, <1>9, <1>10, <1>11, <1>12, <1>13,
     <1>14, <1>15, <1>16, <1>17, <1>18, <1>19, <1>20, <1>21, <1>22, <1>23, <1>24, <1>25,
     <1>26, <1>27, <1>28 DEF Next, ThreadStep, AppStep, ReadStop

-----------------------------------------------------------------------------
(* Stops.                                                                        *)

\* Two bytes that follow each other on a connection.
Follow(d, m) == \E i \in 1..Len(d) : i < Len(d) /\ d[i] = m[1] /\ d[i + 1] = m[2]
\* A thread's pthread_t is on the way to it, in one message or in two.
Named(p) == Follow(down[Slave(p)], id[p])
\* A connection ends with an event or the end of a pthread_t.
Ends == {Event} \cup {id[q][2] : q \in Handle}
EndsWhole(d) == Len(d) > 0 => d[Len(d)] \in Ends
Clear == Distinct /\ Unambiguous

\* A thread hears its pthread_t, or has heard it, only if arcam_av_server_stop waits
\* for it, which it does until the thread has ended.
StopAsked == /\ \A p \in sent : app[p] = "join"
             /\ \A p \in Handle : EndsWhole(down[Slave(p)])
             /\ Clear => \A p \in Handle : /\ pc[p] = "slave" /\ Named(p) => app[p] = "join"
                                           /\ pc[p] = "closing" => app[p] = "join"
                                           /\ pc[p] = "stopped" => app[p] \in {"join", "done"}

LEMMA IdsStay == [Next]_vars => id' = id
<1> SUFFICES ASSUME [Next]_vars PROVE id' = id
  OBVIOUS
<1>1. CASE UNCHANGED vars
  BY <1>1 DEF vars
<1>2. CASE \E p \in Handle : ThreadStep(p)
  BY <1>2 DEF ThreadStep, Bind, Listen, CloseServer, ConnectSlave, ConnectRefused, SlaveReads,
              SlaveStopped, SlaveEof, rest
<1>3. CASE \E p \in Handle : AppStep(p)
  BY <1>3 DEF AppStep, Started, ConnectClient, ClientGivesUp, Attached, ConnectStop, StopGivesUp,
              SendStop, Join
<1>4. CASE \E p, q \in Handle : ReadStop(p, q)
  BY <1>4 DEF ReadStop, PassOn, MasterStopped, rest
<1>5. CASE \E p \in Handle : Accept(p) \/ AttachFails(p) \/ Report(p) \/ Start(p) \/ ReadEvent(p)
  BY <1>5 DEF Accept, AttachFails, Report, Start, ReadEvent, rest
<1>6. CASE \E p \in Handle : ReadEventFails(p) \/ Close(p) \/ CloseDeaf(p) \/ Crash(p)
  BY <1>6 DEF ReadEventFails, Close, CloseDeaf, Crash
<1>7. QED
  BY <1>1, <1>2, <1>3, <1>4, <1>5, <1>6 DEF Next

\* What follows what when a message of one or two bytes is added.
LEMMA FollowJoined ==
    ASSUME NEW d \in Seq(Bytes), NEW n \in Seq(Bytes), Len(n) \in {1, 2}, NEW m, Follow(d \o n, m)
    PROVE  \/ Follow(d, m)
           \/ Len(d) > 0 /\ d[Len(d)] = m[1] /\ n[1] = m[2]
           \/ Len(n) = 2 /\ n[1] = m[1] /\ n[2] = m[2]
<1> DEFINE s == d \o n
<1> HIDE DEF Bytes
<1>1. /\ Len(s) = Len(d) + Len(n) /\ Len(d) \in Nat
      /\ \A k \in 1..Len(d) : s[k] = d[k]
      /\ \A k \in 1..Len(n) : s[Len(d) + k] = n[k]
  BY ConcatProperties
<1> HIDE DEF s
<1>2. PICK i \in 1..Len(s) : i < Len(s) /\ s[i] = m[1] /\ s[i + 1] = m[2]
  BY DEF Follow, s
<1>3. CASE i < Len(d)
  <2>1. i \in 1..Len(d) /\ i + 1 \in 1..Len(d)
    BY <1>1, <1>2, <1>3
  <2>2. d[i] = m[1] /\ d[i + 1] = m[2]
    BY <1>1, <1>2, <2>1
  <2>3. QED
    BY <1>3, <2>1, <2>2 DEF Follow
<1>4. CASE i = Len(d)
  <2>1. 1 \in 1..Len(n) /\ i \in 1..Len(d)
    BY <1>1, <1>2, <1>4
  <2>2. QED
    BY <1>1, <1>2, <1>4, <2>1
<1>5. CASE i > Len(d)
  <2>1. Len(n) = 2 /\ i = Len(d) + 1 /\ i + 1 = Len(d) + 2
    <3>1. /\ i < Len(d) + Len(n) /\ i > Len(d) /\ i \in Nat /\ Len(d) \in Nat
          /\ Len(n) \in {1, 2}
      BY <1>1, <1>2, <1>5
    <3> DEFINE a == Len(d)
               c == Len(n)
    <3> HIDE DEF a, c
    <3>2. i < a + c /\ i > a /\ i \in Nat /\ a \in Nat /\ c \in {1, 2}
      BY <3>1 DEF a, c
    <3>3. c = 2 /\ i = a + 1 /\ i + 1 = a + 2
      BY <3>2
    <3>4. QED
      BY <3>3 DEF a, c
  <2>2. 1 \in 1..Len(n) /\ 2 \in 1..Len(n)
    BY <2>1
  <2>3. s[Len(d) + 1] = n[1] /\ s[Len(d) + 2] = n[2]
    BY <1>1, <2>2
  <2>4. QED
    BY <1>2, <2>1, <2>3
<1>6. QED
  BY <1>1, <1>2, <1>3, <1>4, <1>5

\* What is left of a connection after a read was there before, with its end.
LEMMA FollowCut ==
    ASSUME NEW d \in Seq(Bytes), NEW k \in 0..Len(d), NEW m
    PROVE  LET t == SubSeq(d, k + 1, Len(d)) IN
           (Follow(t, m) => Follow(d, m)) /\ (EndsWhole(d) => EndsWhole(t))
<1> DEFINE t == SubSeq(d, k + 1, Len(d))
<1> HIDE DEF Bytes
<1>1. Len(t) = Len(d) - k /\ \A i \in 1..Len(t) : t[i] = d[k + i]
  OBVIOUS
<1>2. Len(d) \in Nat /\ k \in 0..Len(d)
  OBVIOUS
<1> HIDE DEF t
<1>3. ASSUME Follow(t, m) PROVE Follow(d, m)
  <2>1. PICK i \in 1..Len(t) : i < Len(t) /\ t[i] = m[1] /\ t[i + 1] = m[2]
    BY <1>3 DEF Follow
  <2>2. k + i \in 1..Len(d) /\ k + i < Len(d) /\ d[k + i] = m[1] /\ d[(k + i) + 1] = m[2]
    BY <1>1, <1>2, <2>1
  <2>3. QED
    BY <2>2 DEF Follow
<1>4. ASSUME EndsWhole(d) PROVE EndsWhole(t)
  <2>1. SUFFICES ASSUME Len(t) > 0 PROVE t[Len(t)] \in Ends
    BY DEF EndsWhole
  <2>2. Len(d) > 0 /\ t[Len(t)] = d[Len(d)]
    BY <1>1, <1>2, <2>1
  <2>3. QED
    BY <1>4, <2>2 DEF EndsWhole
<1>5. QED
  BY <1>3, <1>4 DEF t

\* What a broadcast of an event or a pthread_t names, and how the connection ends.
LEMMA BroadcastNames ==
    ASSUME Typed, NetTyped, StopAsked, NEW message, Broadcast(message), NEW p \in Handle,
           message = <<Event>> \/ \E q \in Handle : message = id[q]
    PROVE  /\ down'[Slave(p)] \in Seq(Bytes) /\ EndsWhole(down'[Slave(p)])
           /\ Clear /\ Follow(down'[Slave(p)], id[p]) => Named(p) \/ message = id[p]
<1> DEFINE d == down[Slave(p)]
<1> HIDE DEF Bytes
<1>1. d \in Seq(Bytes) /\ EndsWhole(d) /\ (down'[Slave(p)] = d \o message \/ down'[Slave(p)] = d)
  BY ConnOf DEF NetTyped, StopAsked, Broadcast
<1>2. message \in Seq(Bytes) /\ Len(message) \in {1, 2}
  BY BytesSent
<1>3. message[Len(message)] \in Ends
  <2>1. CASE message = <<Event>>
    BY <2>1 DEF Ends
  <2>2. CASE \E q \in Handle : message = id[q]
    BY <2>2, BytesSent DEF Ends
  <2>3. QED
    BY <2>1, <2>2
<1> HIDE DEF d
<1>4. d \o message \in Seq(Bytes) /\ EndsWhole(d \o message)
  <2>1. Len(d \o message) = Len(d) + Len(message) /\ Len(d) \in Nat /\ d \o message \in Seq(Bytes)
        /\ \A k \in 1..Len(message) : (d \o message)[Len(d) + k] = message[k]
    BY <1>1, <1>2, ConcatProperties
  <2>2. Len(message) \in 1..Len(message)
    BY <1>2
  <2>4. (d \o message)[Len(d) + Len(message)] = message[Len(message)]
    BY <2>1, <2>2
  <2>3. QED
    BY <1>3, <2>1, <2>4 DEF EndsWhole
<1>5. ASSUME Clear, Follow(d \o message, id[p]) PROVE Follow(d, id[p]) \/ message = id[p]
  <2>1. CASE Len(d) > 0 /\ d[Len(d)] = id[p][1] /\ message[1] = id[p][2]
    <3>1. id[p][1] \in Ends
      BY <1>1, <2>1 DEF EndsWhole
    <3>2. message[1] \in {Event} \cup {id[q][1] : q \in Handle}
      OBVIOUS
    <3>3. QED
      BY <1>5, <2>1, <3>1, <3>2 DEF Clear, Unambiguous, Ends
  <2>2. CASE Len(message) = 2 /\ message[1] = id[p][1] /\ message[2] = id[p][2]
    <3>1. id[p] \in Seq(Bytes) /\ Len(id[p]) = 2
      BY BytesSent
    <3>2. QED
      BY <1>2, <2>2, <3>1, SeqEqual
  <2>3. QED
    BY <1>1, <1>2, <1>5, <2>1, <2>2, FollowJoined
<1>6. QED
  BY <1>1, <1>4, <1>5 DEF Named, d

\* What a read leaves.
LEMMA ConsumeNames ==
    ASSUME Typed, NetTyped, StopAsked, NEW p \in Handle, Consume(p), NEW r \in Handle
    PROVE  /\ EndsWhole(down'[Slave(r)])
           /\ Follow(down'[Slave(r)], id[r]) => Named(r)
<1> DEFINE d == down[Slave(p)]
           k == Len(Received(p))
<1> HIDE DEF Bytes
<1>1. d \in Seq(Bytes) /\ Slave(p) \in Conn /\ Slave(r) \in Conn
  BY ConnOf DEF NetTyped
<1>2. k \in 0..Len(d)
  BY <1>1 DEF Received, IdSize
<1>3. down' = [down EXCEPT ![Slave(p)] = SubSeq(d, k + 1, Len(d))]
  BY DEF Consume
<1> HIDE DEF d, k
<1>4. CASE r = p
  <2>1. down'[Slave(r)] = SubSeq(d, k + 1, Len(d))
    BY <1>1, <1>3, <1>4 DEF NetTyped
  <2>2. EndsWhole(d)
    BY DEF StopAsked, d
  <2>3. QED
    BY <1>1, <1>2, <1>4, <2>1, <2>2, FollowCut DEF Named, d
<1>5. CASE r # p
  <2>1. down'[Slave(r)] = down[Slave(r)]
    BY <1>1, <1>3, <1>5, ConnDiffer DEF NetTyped
  <2>2. QED
    BY <2>1 DEF StopAsked, Named
<1>6. QED
  BY <1>4, <1>5

\* A thread that hears its pthread_t is named.
LEMMA HeardIsNamed ==
    ASSUME Typed, NetTyped, NEW p \in Handle, Received(p) = id[p]
    PROVE  Named(p)
<1> DEFINE d == down[Slave(p)]
<1> HIDE DEF Bytes
<1>1. d \in Seq(Bytes) /\ Len(id[p]) = 2
  BY ConnOf, BytesSent DEF NetTyped
<1>2. Received(p) = SubSeq(d, 1, IF Len(d) < 2 THEN Len(d) ELSE 2)
  BY DEF Received, IdSize
<1> HIDE DEF d
<1>3. ~(Len(d) < 2)
  <2>1. SUFFICES ASSUME Len(d) < 2 PROVE FALSE
    OBVIOUS
  <2>2. Len(SubSeq(d, 1, Len(d))) = Len(d) /\ Len(d) \in Nat
    BY ONLY <1>1
  <2>3. Len(id[p]) = Len(d)
    BY <1>2, <2>1, <2>2, Zenon
  <2>4. QED
    BY <1>1, <2>1, <2>3
<1>4. id[p] = SubSeq(d, 1, 2)
  BY <1>2, <1>3
<1>5. SubSeq(d, 1, 2)[1] = d[1] /\ SubSeq(d, 1, 2)[2] = d[2]
  BY <1>1, <1>3
<1>6. id[p][1] = d[1] /\ id[p][2] = d[1 + 1] /\ 1 \in 1..Len(d)
  BY <1>1, <1>3, <1>4, <1>5
<1>7. 1 < Len(d)
  BY <1>1, <1>3
<1>8. QED
  BY <1>3, <1>6, <1>7 DEF Named, Follow, d

LEMMA NextStopAsked == Typed /\ NetTyped /\ NoThreadLeft /\ StopAsked /\ [Next]_vars => StopAsked'
<1> SUFFICES ASSUME Typed, NetTyped, NoThreadLeft, StopAsked, [Next]_vars PROVE StopAsked'
  OBVIOUS
<1>a. id' = id
  BY IdsStay
<1>b. Clear' = Clear /\ Ends' = Ends
  BY <1>a DEF Clear, Distinct, Unambiguous, Ends
<1> HIDE DEF Clear, Ends
\* What the step must do to the connections of the slaves, and then to the rest.
<1> DEFINE EndsKept == \A r \in Handle : /\ EndsWhole(down'[Slave(r)])
                                         /\ Follow(down'[Slave(r)], id[r]) => Named(r)
           JoinersKept == /\ \A r \in sent' : app'[r] = "join"
                          /\ Clear => \A r \in Handle : /\ pc'[r] = "slave" /\ Follow(down'[Slave(r)], id[r])
                                                             => app'[r] = "join"
                                                        /\ pc'[r] = "closing" => app'[r] = "join"
                                                        /\ pc'[r] = "stopped" => app'[r] \in {"join", "done"}
<1>c. (\A r \in Handle : down'[Slave(r)] \in {down[Slave(r)], <<>>}) => EndsKept
  BY DEF StopAsked, EndsWhole, Follow, Named
<1>d. EndsKept /\ JoinersKept => StopAsked'
  BY <1>a, <1>b DEF StopAsked, Named, EndsWhole
<1> HIDE DEF EndsKept
<1> USE ConnOf, ConnDiffer
        DEF StopAsked, Typed, PcState, AppState, Alive, Ended, Goto, AppGoto
<1>1. ASSUME NEW p \in Handle, Bind(p) PROVE StopAsked'
  <2>1. EndsKept
    BY <1>1, <1>c DEF Bind, rest, net
  <2>2. QED
    BY <1>1, <1>d, <2>1 DEF Bind, rest, net, EndsKept
<1>2. ASSUME NEW p \in Handle, Listen(p) PROVE StopAsked'
  <2>1. EndsKept
    BY <1>2, <1>c DEF Listen, rest, net
  <2>2. QED
    BY <1>2, <1>d, <2>1 DEF Listen, rest, net, EndsKept
<1>3. ASSUME NEW p \in Handle, CloseServer(p) PROVE StopAsked'
  <2>1. EndsKept
    BY <1>3, <1>c DEF CloseServer, Unbind, Unread, rest
  <2>2. QED
    BY <1>3, <1>d, <2>1 DEF CloseServer, Unbind, Unread, rest, EndsKept
<1>4. ASSUME NEW p \in Handle, ConnectSlave(p) PROVE StopAsked'
  <2>1. EndsKept
    BY <1>4, <1>c DEF ConnectSlave, Enqueue, NetTyped
  <2>2. ~Follow(down'[Slave(p)], id[p])
    BY <1>4 DEF ConnectSlave, Enqueue, NetTyped, Follow
  <2>3. QED
    BY <1>4, <1>d, <2>1, <2>2 DEF ConnectSlave, Enqueue, NetTyped, EndsKept
<1>5. ASSUME NEW p \in Handle, ConnectRefused(p) PROVE StopAsked'
  <2>1. EndsKept
    BY <1>5, <1>c DEF ConnectRefused, rest, net
  <2>2. QED
    BY <1>5, <1>d, <2>1 DEF ConnectRefused, rest, net, EndsKept
<1>6. ASSUME NEW p \in Handle, SlaveReads(p) PROVE StopAsked'
  <2>1. EndsKept
    BY <1>6, ConsumeNames DEF SlaveReads, EndsKept
  <2>2. QED
    BY <1>6, <1>d, <2>1 DEF SlaveReads, rest, EndsKept
<1>7. ASSUME NEW p \in Handle, SlaveStopped(p) PROVE StopAsked'
  <2>1. EndsKept
    BY <1>7, <1>c DEF SlaveStopped, Hangup, NetTyped
  <2>2. Named(p)
    BY <1>7, HeardIsNamed DEF SlaveStopped
  <2>3. QED
    BY <1>7, <1>d, <2>1, <2>2 DEF SlaveStopped, rest, EndsKept
<1>8. ASSUME NEW p \in Handle, SlaveEof(p) PROVE StopAsked'
  <2>1. EndsKept
    BY <1>8, <1>c DEF SlaveEof, AfterEof, Hangup, NetTyped, rest
  <2>2. QED
    BY <1>8, <1>d, <2>1 DEF SlaveEof, AfterEof, Hangup, NetTyped, rest, EndsKept
<1>9. ASSUME NEW p \in Handle, Accept(p) PROVE StopAsked'
  <2>1. EndsKept
    BY <1>9, <1>c DEF Accept, rest
  <2>2. QED
    BY <1>9, <1>d, <2>1 DEF Accept, rest, EndsKept
<1>10. ASSUME NEW p \in Handle, AttachFails(p) PROVE StopAsked'
  <2>1. EndsKept
    BY <1>10, <1>c DEF AttachFails, rest, net
  <2>2. QED
    BY <1>10, <1>d, <2>1 DEF AttachFails, rest, net, EndsKept
<1>11. ASSUME NEW p \in Handle, Report(p) PROVE StopAsked'
  <2>1. \A r \in Handle : /\ EndsWhole(down'[Slave(r)])
                          /\ Clear /\ Follow(down'[Slave(r)], id[r]) => Named(r) \/ <<Event>> = id[r]
    BY <1>11, BroadcastNames DEF Report
  <2>2. \A r \in Handle : <<Event>> # id[r]
    <3>1. \A r \in Handle : Len(id[r]) = 2
      BY BytesSent
    <3>2. Len(<<Event>>) = 1
      OBVIOUS
    <3>3. QED
      BY <3>1, <3>2, 1 # 2
  <2>3. app' = app /\ sent' = sent /\ pc' = pc
    BY <1>11 DEF Report
  <2>4. QED
    BY <1>a, <1>b, <2>1, <2>2, <2>3 DEF Named, EndsWhole
<1>12. ASSUME NEW p \in Handle, NEW q \in Handle, PassOn(p, q) PROVE StopAsked'
  <2>1. \A r \in Handle : /\ EndsWhole(down'[Slave(r)])
                          /\ Clear /\ Follow(down'[Slave(r)], id[r]) => Named(r) \/ id[q] = id[r]
    BY <1>12, BroadcastNames DEF PassOn
  <2>2. Clear => \A r \in Handle : id[q] = id[r] => r = q
    BY DEF Clear, Distinct
  <2>3. app' = app /\ sent' \subseteq sent /\ pc' = pc /\ app[q] = "join"
    BY <1>12 DEF PassOn, rest
  <2>4. QED
    BY <1>a, <1>b, <2>1, <2>2, <2>3 DEF Named, EndsWhole
<1>13. ASSUME NEW p \in Handle, NEW q \in Handle, MasterStopped(p, q) PROVE StopAsked'
  <2>1. EndsKept
    BY <1>13, <1>c DEF MasterStopped, Mine, Unread, rest
  <2>2. Clear => app[p] = "join"
    BY <1>13 DEF MasterStopped, Mine, Unread, rest, Clear, Distinct
  <2>3. QED
    BY <1>13, <1>d, <2>1, <2>2 DEF MasterStopped, Mine, Unread, rest, EndsKept
<1>14. ASSUME NEW p \in Handle, Start(p) PROVE StopAsked'
  <2>1. EndsKept
    BY <1>14, <1>c DEF Start, rest, net
  <2>2. QED
    BY <1>14, <1>d, <2>1 DEF Start, rest, net, EndsKept
<1>15. ASSUME NEW p \in Handle, Started(p) PROVE StopAsked'
  <2>1. EndsKept
    BY <1>15, <1>c DEF Started, rest, net
  <2>2. QED
    BY <1>15, <1>d, <2>1 DEF Started, rest, net, EndsKept
<1>16. ASSUME NEW p \in Handle, ConnectClient(p) PROVE StopAsked'
  <2>1. EndsKept
    BY <1>16, <1>c DEF ConnectClient, Enqueue, NetTyped
  <2>2. QED
    BY <1>16, <1>d, <2>1 DEF ConnectClient, Enqueue, NetTyped, EndsKept
<1>17. ASSUME NEW p \in Handle, ClientGivesUp(p) PROVE StopAsked'
  <2>1. EndsKept
    BY <1>17, <1>c DEF ClientGivesUp, rest, net
  <2>2. QED
    BY <1>17, <1>d, <2>1 DEF ClientGivesUp, rest, net, EndsKept
<1>18. ASSUME NEW p \in Handle, Attached(p) PROVE StopAsked'
  <2>1. EndsKept
    BY <1>18, <1>c DEF Attached, rest, net
  <2>2. QED
    BY <1>18, <1>d, <2>1 DEF Attached, rest, net, EndsKept
<1>19. ASSUME NEW p \in Handle, ConnectStop(p) PROVE StopAsked'
  <2>1. EndsKept
    BY <1>19, <1>c DEF ConnectStop, Enqueue, NetTyped
  <2>2. QED
    BY <1>19, <1>d, <2>1 DEF ConnectStop, Enqueue, NetTyped, EndsKept
<1>20. ASSUME NEW p \in Handle, StopGivesUp(p) PROVE StopAsked'
  <2>1. EndsKept
    BY <1>20, <1>c DEF StopGivesUp, rest, net
  <2>2. QED
    BY <1>20, <1>d, <2>1 DEF StopGivesUp, rest, net, EndsKept
<1>21. ASSUME NEW p \in Handle, SendStop(p) PROVE StopAsked'
  <2>1. EndsKept
    BY <1>21, <1>c DEF SendStop, rest, net
  <2>2. QED
    BY <1>21, <1>d, <2>1 DEF SendStop, rest, net, EndsKept
<1>22. ASSUME NEW p \in Handle, Join(p) PROVE StopAsked'
  <2>1. EndsKept
    BY <1>22, <1>c DEF Join, Hangup, NetTyped, rest
  <2>2. QED
    BY <1>22, <1>d, <2>1 DEF Join, Hangup, NetTyped, rest, EndsKept
<1>23. ASSUME NEW p \in Handle, ReadEvent(p) PROVE StopAsked'
  <2>1. EndsKept
    BY <1>23, <1>c DEF ReadEvent, NetTyped, rest
  <2>2. QED
    BY <1>23, <1>d, <2>1 DEF ReadEvent, NetTyped, rest, EndsKept
<1>24. ASSUME NEW p \in Handle, ReadEventFails(p) PROVE StopAsked'
  <2>1. EndsKept
    BY <1>24, <1>c DEF ReadEventFails, Hangup, NetTyped
  <2>2. QED
    BY <1>24, <1>d, <2>1 DEF ReadEventFails, Hangup, NetTyped, EndsKept
<1>25. ASSUME NEW p \in Handle, Close(p) PROVE StopAsked'
  <2>1. EndsKept
    BY <1>25, <1>c DEF Close, Hangup, NetTyped
  <2>2. QED
    BY <1>25, <1>d, <2>1 DEF Close, Hangup, NetTyped, EndsKept
<1>26. ASSUME NEW p \in Handle, CloseDeaf(p) PROVE StopAsked'
  <2>1. EndsKept
    BY <1>26, <1>c DEF CloseDeaf, rest, net
  <2>2. QED
    BY <1>26, <1>d, <2>1 DEF CloseDeaf, rest, net, EndsKept
<1>27. ASSUME NEW p \in Handle, Crash(p) PROVE StopAsked'
  <2>1. EndsKept
    BY <1>27, <1>c DEF Crash, Slave, NetTyped
  <2>2. /\ pc' = [pc EXCEPT ![p] = "none"] /\ app' = [app EXCEPT ![p] = "dead"]
        /\ sent' \subseteq sent /\ app[p] # "join"
    BY <1>27 DEF Crash, Unread, Mortal
  <2>3. QED
    BY <1>d, <2>1, <2>2 DEF EndsKept
<1>28. CASE UNCHANGED vars
  <2>1. EndsKept
    BY <1>28, <1>c DEF vars
  <2>2. QED
    BY <1>28, <1>d, <2>1 DEF vars, EndsKept
<1>29. QED
  BY <1>1, <1>2, <1>3, <1>4, <1>5, <1>6, <1>7, <1>8, <1>9, <1>10, <1>11, <1>12, <1>13,
     <1>14, <1>15, <1>16, <1>17, <1>18, <1>19, <1>20, <1>21, <1>22, <1>23, <1>24, <1>25,
     <1>26, <1>27, <1>28 DEF Next, ThreadStep, AppStep, ReadStop

-----------------------------------------------------------------------------
\* The inductive invariant of the server threads.
ServerInv == /\ Typed /\ NetTyped /\ BacklogExact /\ InUse /\ NoThreadLeft
             /\ OwnerExact /\ Served /\ Waited /\ StopAsked

LEMMA InitServerInv == Init => ServerInv
<1> SUFFICES ASSUME Init PROVE ServerInv
  OBVIOUS
<1>1. /\ owner = None /\ listening = FALSE /\ sent = {} /\ holds = {}
      /\ pc = [p \in Handle |-> "none"] /\ app = [p \in Handle |-> "closed"]
      /\ posted = [p \in Handle |-> 0] /\ conn = [c \in Conn |-> "none"]
      /\ down = [c \in Conn |-> <<>>]
  BY DEF Init
<1>2. OwnerExact /\ Served /\ Waited /\ StopAsked
  BY <1>1, NoneAssumption, ConnOf DEF OwnerExact, Served, Open, Waited, StopAsked, EndsWhole
<1>3. QED
  BY <1>2, InitTyped, InitNet DEF ServerInv

LEMMA NextServerInv == ServerInv /\ [Next]_vars => ServerInv'
BY NextTyped, NextNet, NextInUse, NextNoThreadLeft, NextOwnerExact, NextServed, NextWaited,
   NextStopAsked DEF ServerInv

\* The server's bookkeeping (arcam_av_server_thread): types; the backlog is exactly the
\* connections not accepted yet, each once; one thread at most is the server, the owner
\* of the name, and it alone listens.
THEOREM ServerTyped == Spec => []TypeOK
<1>1. ServerInv => TypeOK
  <2> SUFFICES ASSUME ServerInv PROVE TypeOK
    OBVIOUS
  <2>1. \A c \in Conn : Range(down[c]) \subseteq Bytes
    BY DEF ServerInv, NetTyped, Range
  <2>2. {p \in Handle : pc[p] \in {"bound", "master", "closing", "failed"}} = {owner} \ {None}
    BY NoneAssumption DEF ServerInv, OwnerExact, Typed
  <2>3. listening = (owner # None /\ pc[owner] # "bound")
    BY DEF ServerInv, OwnerExact, Typed
  <2>4. posted \in [Handle -> 0..1]
    BY DEF ServerInv, Waited, Typed
  <2>5. QED
    BY <2>1, <2>2, <2>3, <2>4 DEF ServerInv, Typed, NetTyped, BacklogExact, TypeOK, ConnState, PcState
<1>2. QED
  BY InitServerInv, NextServerInv, <1>1, PTL DEF Spec

\* If the threads' ids are distinct and none is the end of a message or an event with the
\* beginning of the next, a thread ends by a stop message only if its own handle is
\* being closed, however recv cuts and joins, and whoever dies or takes over in between.
THEOREM OnlyTheAskedStop == Spec => []StoppedOnRequest
<1>1. ServerInv => StoppedOnRequest
  BY DEF ServerInv, StopAsked, StoppedOnRequest, Clear
<1>2. QED
  BY InitServerInv, NextServerInv, <1>1, PTL DEF Spec

\* A thread posts the semaphore on the stack of arcam_av_server_start only while
\* that call waits for it.
THEOREM PostsAreAwaited == Spec => PostWhileWaited
<1>1. ServerInv /\ [Next]_vars
      => [\A p \in Handle : posted'[p] > posted[p] => app[p] = "starting"]_vars
  BY PostStep DEF ServerInv
<1>2. QED
  BY InitServerInv, NextServerInv, <1>1, PTL DEF Spec, PostWhileWaited

\* No connection outlives its server: what is queued or accepted has a thread that
\* listens, through stops and the death of the master's process.
THEOREM ConnectionsAreServed == Spec => []Served
<1>1. ServerInv => Served
  BY DEF ServerInv
<1>2. QED
  BY InitServerInv, NextServerInv, <1>1, PTL DEF Spec

\* arcam_av_server_start waits only for a thread that still owes the post and has not
\* got to its loop, or for a post that is there already.
THEOREM PostIsOwed == Spec => []Waited
<1>1. ServerInv => Waited
  BY DEF ServerInv
<1>2. QED
  BY InitServerInv, NextServerInv, <1>1, PTL DEF Spec

-----------------------------------------------------------------------------
(* The controls: a command that unmutes the amplifier finds it at the volume last *)
(* asked for.  What is said here is of behaviours in which writes wait for the    *)
(* answers to earlier ones, no command is refused and nobody turns the knobs.     *)
Settled == disturbances = {}
CtlCommand == Field \X Value

CtlTyped ==
    /\ amp \in [Field -> Value] /\ global \in [Field -> Value]
    /\ last \in [Field -> Value]
    /\ line \in Seq(CtlCommand) /\ answers \in Seq(CtlCommand)
    /\ at \in [Handle -> {"idle", "recv", "unmute"}]

IsVolume(c) == c[1] = "volume"
Unmute == Set("mute", MuteOff)
\* A command that sets the volume is on the line, or its answer.
VolumeSent == \E i \in 1..Len(line) : IsVolume(line[i])
VolumeAnswered == \E i \in 1..Len(answers) : IsVolume(answers[i])
AtVolume == amp["volume"] = last["volume"]

\* Commands and answers for the volume carry the one last asked for; a command that
\* unmutes, or is about to, comes after one of them if the amplifier is not there yet;
\* and the shared state has that volume, or will get it from an answer.
VolumeFollows ==
    /\ \A i \in 1..Len(line) : IsVolume(line[i]) => line[i][2] = last["volume"]
    /\ \A i \in 1..Len(answers) : IsVolume(answers[i]) => answers[i][2] = last["volume"]
    /\ \A i \in 1..Len(line) : line[i] = Unmute => AtVolume \/ \E j \in 1..i - 1 : IsVolume(line[j])
    /\ (\E h \in Handle : at[h] = "unmute") => AtVolume \/ VolumeSent
    /\ global["volume"] = last["volume"] \/ VolumeSent \/ VolumeAnswered

CtlInv == Settled => CtlTyped /\ VolumeFollows

LEMMA FieldNames == "volume" \in Field /\ "mute" \in Field
<1>1. DOMAIN State = 1..4 /\ State[1] = "volume" /\ State[2] = "mute"
  BY DEF State
<1>2. QED
  BY <1>1 DEF Field, Range

LEMMA InitCtl == CtlInit => CtlInv
<1> SUFFICES ASSUME CtlInit PROVE CtlInv
  OBVIOUS
<1>1. amp \in [Field -> Value]
  BY SettingsAssumption DEF CtlInit
<1>2. /\ line = <<>> /\ answers = <<>> /\ global = amp /\ last = amp
      /\ at = [h \in Handle |-> "idle"]
  BY DEF CtlInit
<1>3. QED
  BY <1>1, <1>2, EmptySeq DEF CtlInv, CtlTyped, VolumeFollows

\* The first of a sequence and the rest of it.
LEMMA HeadAndTail ==
    ASSUME NEW S, NEW s \in Seq(S), s # <<>>
    PROVE  /\ Len(s) \in Nat \ {0} /\ Head(s) = s[1] /\ s[1] \in S
           /\ Tail(s) \in Seq(S) /\ Len(Tail(s)) = Len(s) - 1
           /\ \A i \in 1..Len(s) - 1 : Tail(s)[i] = s[i + 1]
OBVIOUS

\* One more at the end.
LEMMA OneMore ==
    ASSUME NEW S, NEW s \in Seq(S), NEW e \in S
    PROVE  /\ Append(s, e) \in Seq(S) /\ Len(Append(s, e)) = Len(s) + 1 /\ Len(s) \in Nat
           /\ \A i \in 1..Len(s) : Append(s, e)[i] = s[i]
           /\ Append(s, e)[Len(s) + 1] = e
OBVIOUS

LEMMA ExecuteCtl ==
    ASSUME CtlTyped, VolumeFollows, Execute
    PROVE  CtlTyped' /\ VolumeFollows'
<1> DEFINE c == Head(line)
<1>1. /\ line # <<>> /\ line' = Tail(line) /\ amp' = [amp EXCEPT ![c[1]] = c[2]]
      /\ answers' = Append(answers, c)
      /\ global' = global /\ last' = last /\ at' = at
  BY DEF Execute, shared
<1>2. /\ Len(line) \in Nat \ {0} /\ c = line[1] /\ c \in CtlCommand
      /\ line' \in Seq(CtlCommand) /\ Len(line') = Len(line) - 1
      /\ \A i \in 1..Len(line) - 1 : line'[i] = line[i + 1]
  BY <1>1, HeadAndTail DEF CtlTyped
<1>3. /\ answers' \in Seq(CtlCommand) /\ Len(answers') = Len(answers) + 1 /\ Len(answers) \in Nat
      /\ \A i \in 1..Len(answers) : answers'[i] = answers[i]
      /\ answers'[Len(answers) + 1] = c
  BY <1>1, <1>2, OneMore DEF CtlTyped
<1> HIDE DEF c
<1>4. c[1] \in Field /\ c[2] \in Value
  BY <1>2 DEF CtlCommand
<1>5. CtlTyped'
  BY <1>1, <1>2, <1>3, <1>4 DEF CtlTyped
<1>6. IsVolume(c) => c[2] = last["volume"] /\ AtVolume'
  BY <1>1, <1>2, <1>4, FieldNames DEF VolumeFollows, IsVolume, CtlTyped, AtVolume
<1>7. ~IsVolume(c) => (AtVolume' <=> AtVolume)
  BY <1>1, <1>4, FieldNames DEF IsVolume, CtlTyped, AtVolume
<1>8. \A i \in 1..Len(line') : i + 1 \in 1..Len(line) /\ line'[i] = line[i + 1]
  BY <1>2
<1>9. \A i \in 1..Len(line') : IsVolume(line'[i]) => line'[i][2] = last'["volume"]
  BY <1>1, <1>8 DEF VolumeFollows
<1>10. ASSUME NEW i \in 1..Len(answers'), IsVolume(answers'[i])
       PROVE  answers'[i][2] = last'["volume"]
  <2>1. i \in 1..Len(answers) \/ i = Len(answers) + 1
    BY <1>3
  <2>2. QED
    BY <1>1, <1>3, <1>6, <1>10, <2>1 DEF VolumeFollows
<1>11. ASSUME NEW i \in 1..Len(line'), line'[i] = Unmute
       PROVE  AtVolume' \/ \E j \in 1..i - 1 : IsVolume(line'[j])
  <2>1. AtVolume \/ \E j \in 1..(i + 1) - 1 : IsVolume(line[j])
    BY <1>8, <1>11 DEF VolumeFollows
  <2>2. CASE ~IsVolume(c) /\ ~AtVolume
    <3>1. PICK j \in 1..(i + 1) - 1 : IsVolume(line[j])
      BY <2>1, <2>2
    <3>2. j # 1
      BY <1>2, <2>2, <3>1
    <3>3. j - 1 \in 1..i - 1 /\ j - 1 \in 1..Len(line') /\ line'[j - 1] = line[(j - 1) + 1] /\ (j - 1) + 1 = j
      BY <1>2, <1>8, <3>1, <3>2
    <3>4. QED
      BY <3>1, <3>3
  <2>3. QED
    BY <1>6, <1>7, <2>2
<1>12. VolumeSent => VolumeSent' \/ IsVolume(c)
  <2>1. SUFFICES ASSUME NEW i \in 1..Len(line), IsVolume(line[i]), ~IsVolume(c) PROVE VolumeSent'
    BY DEF VolumeSent
  <2>2. i # 1
    BY <1>2, <2>1
  <2>3. i - 1 \in 1..Len(line') /\ line'[i - 1] = line[(i - 1) + 1] /\ (i - 1) + 1 = i
    BY <1>2, <1>8, <2>2
  <2>4. QED
    BY <2>1, <2>3 DEF VolumeSent
<1>13. (\E h \in Handle : at'[h] = "unmute") => AtVolume' \/ VolumeSent'
  BY <1>1, <1>6, <1>7, <1>12 DEF VolumeFollows
<1>14. VolumeAnswered => VolumeAnswered'
  BY <1>3 DEF VolumeAnswered
<1>15. IsVolume(c) => VolumeAnswered'
  BY <1>3 DEF VolumeAnswered
<1>16. global'["volume"] = last'["volume"] \/ VolumeSent' \/ VolumeAnswered'
  BY <1>1, <1>12, <1>14, <1>15 DEF VolumeFollows
<1>17. QED
  BY <1>5, <1>9, <1>10, <1>11, <1>13, <1>16 DEF VolumeFollows

LEMMA UpdateCtl ==
    ASSUME CtlTyped, VolumeFollows, Update
    PROVE  CtlTyped' /\ VolumeFollows'
<1> DEFINE c == Head(answers)
<1>1. /\ answers # <<>> /\ answers' = Tail(answers) /\ global' = [global EXCEPT ![c[1]] = c[2]]
      /\ amp' = amp /\ line' = line /\ last' = last /\ at' = at
  BY DEF Update, Store
<1>2. /\ Len(answers) \in Nat \ {0} /\ c = answers[1] /\ c \in CtlCommand
      /\ answers' \in Seq(CtlCommand) /\ Len(answers') = Len(answers) - 1
      /\ \A i \in 1..Len(answers) - 1 : answers'[i] = answers[i + 1]
  BY <1>1, HeadAndTail DEF CtlTyped
<1> HIDE DEF c
<1>3. c[1] \in Field /\ c[2] \in Value
  BY <1>2 DEF CtlCommand
<1>4. CtlTyped'
  BY <1>1, <1>2, <1>3 DEF CtlTyped
<1>5. \A i \in 1..Len(answers') : i + 1 \in 1..Len(answers) /\ answers'[i] = answers[i + 1]
  BY <1>2
<1>6. \A i \in 1..Len(answers') : IsVolume(answers'[i]) => answers'[i][2] = last'["volume"]
  BY <1>1, <1>5 DEF VolumeFollows
<1>7. IsVolume(c) => global'["volume"] = last'["volume"]
  BY <1>1, <1>2, <1>3, FieldNames DEF VolumeFollows, IsVolume, CtlTyped
<1>8. ~IsVolume(c) => global'["volume"] = global["volume"]
  BY <1>1, <1>3, FieldNames DEF IsVolume, CtlTyped
<1>9. VolumeAnswered => VolumeAnswered' \/ IsVolume(c)
  <2>1. SUFFICES ASSUME NEW i \in 1..Len(answers), IsVolume(answers[i]), ~IsVolume(c)
                 PROVE  VolumeAnswered'
    BY DEF VolumeAnswered
  <2>2. i # 1
    BY <1>2, <2>1
  <2>3. i - 1 \in 1..Len(answers') /\ answers'[i - 1] = answers[(i - 1) + 1] /\ (i - 1) + 1 = i
    BY <1>2, <1>5, <2>2
  <2>4. QED
    BY <2>1, <2>3 DEF VolumeAnswered
<1>10. VolumeSent' = VolumeSent /\ AtVolume' = AtVolume
  BY <1>1 DEF VolumeSent, AtVolume
<1>11. global'["volume"] = last'["volume"] \/ VolumeSent' \/ VolumeAnswered'
  BY <1>1, <1>7, <1>8, <1>9, <1>10 DEF VolumeFollows
<1>12. QED
  BY <1>1, <1>4, <1>6, <1>10, <1>11 DEF VolumeFollows

\* A handle that writes while others wait for nothing finds both directions empty.
LEMMA QuietWrites ==
    ASSUME Settled, NEW h \in Handle, MayWrite(h)
    PROVE  line = <<>> /\ answers = <<>> /\ \A k \in Handle : at[k] # "unmute"
BY DEF Settled, MayWrite, Quiet

LEMMA SecondCtl ==
    ASSUME CtlTyped, VolumeFollows, NEW h \in Handle, WriteUnmuteSecond(h)
    PROVE  CtlTyped' /\ VolumeFollows'
<1>1. /\ at[h] = "unmute" /\ line' = Append(line, Unmute) /\ at' = [at EXCEPT ![h] = "idle"]
      /\ amp' = amp /\ answers' = answers /\ global' = global /\ last' = last
  BY DEF WriteUnmuteSecond, Send, Unmute, shared
<1>2. Unmute \in CtlCommand /\ ~IsVolume(Unmute)
  BY FieldNames DEF Unmute, CtlCommand, Set, MuteOff, Value, IsVolume
<1>3. /\ line' \in Seq(CtlCommand) /\ Len(line') = Len(line) + 1 /\ Len(line) \in Nat
      /\ \A i \in 1..Len(line) : line'[i] = line[i]
      /\ line'[Len(line) + 1] = Unmute
  BY <1>1, <1>2, OneMore DEF CtlTyped
<1>4. CtlTyped'
  BY <1>1, <1>3 DEF CtlTyped
<1>5. AtVolume \/ VolumeSent
  BY <1>1 DEF VolumeFollows
<1>6. VolumeSent => VolumeSent'
  BY <1>3 DEF VolumeSent
<1>7. AtVolume' = AtVolume /\ VolumeAnswered' = VolumeAnswered
  BY <1>1 DEF AtVolume, VolumeAnswered
<1>8. \A i \in 1..Len(line') : i \in 1..Len(line) \/ i = Len(line) + 1
  BY <1>3
<1>9. \A i \in 1..Len(line') : IsVolume(line'[i]) => line'[i][2] = last'["volume"]
  BY <1>1, <1>2, <1>3, <1>8 DEF VolumeFollows
<1>10. ASSUME NEW i \in 1..Len(line'), line'[i] = Unmute
       PROVE  AtVolume' \/ \E j \in 1..i - 1 : IsVolume(line'[j])
  <2>1. CASE i \in 1..Len(line)
    <3>1. AtVolume \/ \E j \in 1..i - 1 : IsVolume(line[j])
      BY <1>3, <1>10, <2>1 DEF VolumeFollows
    <3>2. \A j \in 1..i - 1 : j \in 1..Len(line)
      BY <1>3, <2>1
    <3>3. QED
      BY <1>3, <1>7, <3>1, <3>2
  <2>2. CASE i = Len(line) + 1
    <3>1. \A j \in 1..Len(line) : j \in 1..i - 1
      BY <1>3, <2>2
    <3>2. QED
      BY <1>3, <1>5, <1>7, <3>1 DEF VolumeSent
  <2>3. QED
    BY <1>8, <2>1, <2>2
<1>11. QED
  BY <1>1, <1>4, <1>5, <1>6, <1>7, <1>9, <1>10 DEF VolumeFollows

\* A write begins with both directions of the line empty: what it sends is all there is.
LEMMA FirstSent ==
    ASSUME NEW c \in CtlCommand, line = <<>>, line' = Append(line, c)
    PROVE  line' \in Seq(CtlCommand) /\ Len(line') = 1 /\ line'[1] = c
BY EmptySeq, OneMore

\* What the shared state shows then is the volume last asked for.
LEMMA QuietVolume ==
    ASSUME VolumeFollows, line = <<>>, answers = <<>>
    PROVE  global["volume"] = last["volume"]
BY DEF VolumeFollows, VolumeSent, VolumeAnswered

LEMMA WriteControlCtl ==
    ASSUME Settled, CtlTyped, VolumeFollows, NEW h \in Handle, NEW f \in Field, NEW v \in Value,
           WriteControl(h, f, v)
    PROVE  CtlTyped' /\ VolumeFollows'
<1>1. /\ MayWrite(h) /\ line' = Append(line, <<f, v>>) /\ last' = [last EXCEPT ![f] = v]
      /\ amp' = amp /\ answers' = answers /\ global' = global /\ at' = at
      /\ ~(f = "mute" /\ v = MuteOff)
  BY DEF WriteControl, Asked, Send, Set, shared
<1>2. line = <<>> /\ answers = <<>> /\ \A k \in Handle : at[k] # "unmute"
  BY <1>1, QuietWrites
<1>3. line' \in Seq(CtlCommand) /\ Len(line') = 1 /\ line'[1] = <<f, v>>
  BY <1>1, <1>2, FirstSent DEF CtlCommand
<1>4. CtlTyped'
  BY <1>1, <1>3 DEF CtlTyped
<1>5. <<f, v>> # Unmute
  BY <1>1 DEF Unmute, Set
<1>6. IsVolume(<<f, v>>) <=> f = "volume"
  BY DEF IsVolume
<1>7. last'["volume"] = IF f = "volume" THEN v ELSE last["volume"]
  BY <1>1, FieldNames DEF CtlTyped
<1>8. global'["volume"] = last'["volume"] \/ VolumeSent'
  BY <1>1, <1>2, <1>3, <1>6, <1>7, QuietVolume DEF VolumeSent
<1>9. \A i \in 1..Len(line') : IsVolume(line'[i]) => line'[i][2] = last'["volume"]
  BY <1>3, <1>6, <1>7
<1>10. \A i \in 1..Len(line') : line'[i] # Unmute
  <2>1. \A i \in 1..Len(line') : line'[i] = <<f, v>>
    BY <1>3
  <2>2. QED
    BY <1>5, <2>1
<1>11. \A i \in 1..Len(answers') : IsVolume(answers'[i]) => answers'[i][2] = last'["volume"]
  BY <1>1, <1>2
<1>12. QED
  BY <1>1, <1>2, <1>4, <1>8, <1>9, <1>10, <1>11 DEF VolumeFollows

LEMMA WriteUnmuteCtl ==
    ASSUME Settled, CtlTyped, VolumeFollows, NEW h \in Handle, WriteUnmute(h)
    PROVE  CtlTyped' /\ VolumeFollows'
<1> DEFINE c == <<"volume", global["volume"]>>
<1>1. /\ MayWrite(h) /\ line' = Append(line, c) /\ last' = [last EXCEPT !["mute"] = MuteOff]
      /\ amp' = amp /\ answers' = answers /\ global' = global /\ at' = [at EXCEPT ![h] = "unmute"]
  BY DEF WriteUnmute, Asked, Send, Set, shared
<1>2. line = <<>> /\ answers = <<>>
  BY <1>1, QuietWrites
<1>3. c \in CtlCommand /\ IsVolume(c) /\ c # Unmute /\ c[2] = global["volume"]
  BY FieldNames DEF CtlTyped, CtlCommand, IsVolume, Unmute, Set
<1> HIDE DEF c
<1>4. line' \in Seq(CtlCommand) /\ Len(line') = 1 /\ line'[1] = c
  BY <1>1, <1>2, <1>3, FirstSent
<1>5. last' \in [Field -> Value] /\ last'["volume"] = last["volume"]
  BY <1>1, FieldNames DEF CtlTyped, MuteOff, Value
<1>6. CtlTyped'
  BY <1>1, <1>4, <1>5 DEF CtlTyped
<1>7. global'["volume"] = last'["volume"]
  BY <1>1, <1>2, <1>5, QuietVolume
<1>8. VolumeSent'
  BY <1>3, <1>4 DEF VolumeSent
<1>9. \A i \in 1..Len(line') : IsVolume(line'[i]) => line'[i][2] = last'["volume"]
  BY <1>1, <1>3, <1>4, <1>7
<1>10. \A i \in 1..Len(line') : line'[i] # Unmute
  BY <1>3, <1>4
<1>11. \A i \in 1..Len(answers') : IsVolume(answers'[i]) => answers'[i][2] = last'["volume"]
  BY <1>1, <1>2
<1>12. QED
  BY <1>6, <1>7, <1>8, <1>9, <1>10, <1>11 DEF VolumeFollows

LEMMA WriteNothingCtl ==
    ASSUME Settled, CtlTyped, VolumeFollows, NEW h \in Handle, NEW f \in Field, NEW v \in Value,
           \/ WriteNothing(h, f, v)
           \/ f = "volume" /\ WriteMutedVolume(h, v)
    PROVE  CtlTyped' /\ VolumeFollows'
<1>1. /\ MayWrite(h) /\ line' = line /\ answers' = answers /\ amp' = amp /\ at' = at
      /\ last' = [last EXCEPT ![f] = v]
      /\ \/ global' = global /\ global[f] = v
         \/ f = "volume" /\ global' = [global EXCEPT !["volume"] = v]
  BY DEF WriteNothing, WriteMutedVolume, NothingToDo, Asked, KeepVolume,
         serial, shared
<1>2. line = <<>> /\ answers = <<>> /\ \A k \in Handle : at[k] # "unmute"
  BY <1>1, QuietWrites
<1>3. CtlTyped'
  BY <1>1 DEF CtlTyped
<1>4. global'["volume"] = last'["volume"]
  BY <1>1, <1>2, FieldNames, QuietVolume DEF CtlTyped
<1>5. \A i \in 1..Len(line') : FALSE
  BY <1>1, <1>2
<1>6. \A i \in 1..Len(answers') : FALSE
  BY <1>1, <1>2
<1>7. QED
  BY <1>1, <1>2, <1>3, <1>4, <1>5, <1>6 DEF VolumeFollows

\* The other steps change neither the line nor the volumes.
LEMMA UnchangedCtl ==
    ASSUME CtlTyped, VolumeFollows, at' \in [Handle -> {"idle", "recv", "unmute"}],
           \A h \in Handle : at'[h] = "unmute" => at[h] = "unmute",
           UNCHANGED <<amp, line, answers, global, last>>
    PROVE  CtlTyped' /\ VolumeFollows'
<1>1. amp' = amp /\ line' = line /\ answers' = answers /\ global' = global /\ last' = last
  OBVIOUS
<1>2. CtlTyped'
  BY <1>1 DEF CtlTyped
<1>3. AtVolume' = AtVolume /\ VolumeSent' = VolumeSent /\ VolumeAnswered' = VolumeAnswered
  BY <1>1 DEF AtVolume, VolumeSent, VolumeAnswered
<1>4. QED
  BY <1>1, <1>2, <1>3 DEF VolumeFollows

LEMMA NextCtl == CtlInv /\ [CtlNext]_ctlVars => CtlInv'
<1> SUFFICES ASSUME CtlInv, [CtlNext]_ctlVars PROVE CtlInv'
  OBVIOUS
<1>0. disturbances' = disturbances
  <2>1. Execute \/ Refuse \/ Update \/ Announce => disturbances' = disturbances
    BY DEF Execute, Refuse, Update, Announce, counts
  <2>2. Panel => disturbances' = disturbances
    BY Zenon DEF Panel
  <2>3. ASSUME NEW h \in Handle PROVE ReadControl(h) \/ Poll(h) => disturbances' = disturbances
    BY DEF ReadControl, Poll, ReportChange, NothingDiffers, Recv,
           WriteUnmuteSecond, counts
  <2>4. ASSUME NEW h \in Handle PROVE Write(h) => disturbances' = disturbances
    BY DEF Write, WriteNothing, WriteControl, WriteMutedVolume, WriteUnmute
  <2>5. UNCHANGED ctlVars => disturbances' = disturbances
    BY DEF ctlVars
  <2>6. QED
    BY <2>1, <2>2, <2>3, <2>4, <2>5 DEF CtlNext
<1> SUFFICES ASSUME Settled, CtlTyped, VolumeFollows PROVE CtlTyped' /\ VolumeFollows'
  BY <1>0 DEF CtlInv, Settled
<1>1. CASE Execute
  BY <1>1, ExecuteCtl
<1>2. CASE Refuse \/ Panel
  BY <1>2 DEF Refuse, Panel, Settled
<1>3. CASE Update
  BY <1>3, UpdateCtl
<1>4. CASE Announce
  BY <1>4, UnchangedCtl DEF Announce, serial, CtlTyped
<1>5. ASSUME NEW h \in Handle, ReadControl(h) PROVE CtlTyped' /\ VolumeFollows'
  BY <1>5, UnchangedCtl DEF ReadControl, serial, shared, CtlTyped
<1>6. ASSUME NEW h \in Handle, Write(h) PROVE CtlTyped' /\ VolumeFollows'
  <2>1. PICK f \in Writable, v \in Value :
            \/ WriteNothing(h, f, v) \/ WriteControl(h, f, v)
            \/ (f = "volume" /\ WriteMutedVolume(h, v))
            \/ (f = "mute" /\ v = MuteOff /\ WriteUnmute(h))
    BY <1>6 DEF Write
  <2>2. f \in Field
    BY SettingsAssumption
  <2>3. QED
    BY <2>1, <2>2, WriteNothingCtl, WriteControlCtl, WriteUnmuteCtl
<1>7. ASSUME NEW h \in Handle, Poll(h) PROVE CtlTyped' /\ VolumeFollows'
  <2>1. ASSUME NEW n \in Field, ReportChange(h, n) PROVE CtlTyped' /\ VolumeFollows'
    BY <2>1, UnchangedCtl DEF ReportChange, serial, shared, CtlTyped
  <2>2. CASE NothingDiffers(h)
    BY <2>2, UnchangedCtl DEF NothingDiffers, serial, shared, CtlTyped
  <2>3. CASE Recv(h)
    BY <2>3, UnchangedCtl DEF Recv, serial, shared, CtlTyped
  <2>4. CASE WriteUnmuteSecond(h)
    BY <2>4, SecondCtl
  <2>5. QED
    BY <1>7, <2>1, <2>2, <2>3, <2>4 DEF Poll
<1>8. CASE UNCHANGED ctlVars
  BY <1>8, UnchangedCtl DEF ctlVars, CtlTyped
<1>9. QED
  BY <1>1, <1>2, <1>3, <1>4, <1>5, <1>6, <1>7, <1>8 DEF CtlNext

\* A command that unmutes the amplifier finds it at the volume last asked for by any
\* handle, while it was muted too, for any number of handles, writes and settings.
THEOREM UnmutedAtTheVolumeAsked == CtlSpec => UnmuteAtLastVolume
<1>1. CtlInv /\ [CtlNext]_ctlVars
      => [disturbances = {} /\ line # <<>> /\ Head(line) = Set("mute", MuteOff) /\ line' = Tail(line)
          => amp["volume"] = last["volume"]]_ctlVars
  <2> SUFFICES ASSUME CtlInv, disturbances = {}, line # <<>>, Head(line) = Unmute PROVE AtVolume
    BY DEF Unmute, AtVolume
  <2>1. CtlTyped /\ VolumeFollows
    BY DEF CtlInv, Settled
  <2>2. line[1] = Unmute /\ 1 \in 1..Len(line)
    BY <2>1, HeadAndTail DEF CtlTyped
  <2>3. AtVolume \/ \E j \in 1..1 - 1 : IsVolume(line[j])
    BY <2>1, <2>2 DEF VolumeFollows
  <2>4. QED
    BY <2>3
<1>2. QED
  BY InitCtl, NextCtl, <1>1, PTL DEF CtlSpec, UnmuteAtLastVolume

\* The types hold whatever disturbs the calls.
ControlsTyped == /\ CtlTyped
                 /\ local \in [Handle -> [Field -> Value]]
                 /\ bytes \subseteq Handle /\ excused \subseteq Handle

\* A handle's copy after one of its fields is set; a field it has not is not set.
LEMMA CopyTyped ==
    ASSUME local \in [Handle -> [Field -> Value]], NEW h \in Handle, NEW f, NEW v, f \in Field => v \in Value
    PROVE  [local EXCEPT ![h][f] = v] \in [Handle -> [Field -> Value]]
<1>1. [local[h] EXCEPT ![f] = v] \in [Field -> Value]
  <2>1. local[h] \in [Field -> Value]
    OBVIOUS
  <2>2. CASE f \in Field
    BY <2>1, <2>2
  <2>3. CASE f \notin Field
    BY <2>1, <2>3
  <2>4. QED
    BY <2>2, <2>3
<1>2. QED
  BY <1>1

LEMMA ControlsInit == CtlInit => ControlsTyped
<1> SUFFICES ASSUME CtlInit PROVE ControlsTyped
  OBVIOUS
<1>1. amp \in [Field -> Value]
  BY SettingsAssumption DEF CtlInit
<1>2. /\ line = <<>> /\ answers = <<>> /\ global = amp /\ last = amp /\ bytes = {} /\ excused = {}
      /\ at = [h \in Handle |-> "idle"] /\ local = [h \in Handle |-> global]
  BY DEF CtlInit
<1>3. QED
  BY <1>1, <1>2, EmptySeq DEF ControlsTyped, CtlTyped

LEMMA ControlsWrite ==
    ASSUME ControlsTyped, NEW h \in Handle, Write(h)
    PROVE  ControlsTyped'
<1>1. PICK f \in Writable, v \in Value :
          \/ WriteNothing(h, f, v) \/ WriteControl(h, f, v)
          \/ (f = "volume" /\ WriteMutedVolume(h, v))
          \/ (f = "mute" /\ v = MuteOff /\ WriteUnmute(h))
  BY DEF Write
<1>2. f \in Field
  BY SettingsAssumption
<1>3. /\ local' = [local EXCEPT ![h][f] = v] /\ last' = [last EXCEPT ![f] = v]
      /\ \/ line' = line \/ line' = Append(line, <<f, v>>)
         \/ line' = Append(line, <<"volume", global["volume"]>>)
      /\ at' = at \/ at' = [at EXCEPT ![h] = "unmute"]
      /\ global' = global \/ global' = [global EXCEPT !["volume"] = v]
      /\ amp' = amp /\ answers' = answers /\ bytes' = bytes
      /\ excused' = excused \/ excused' = excused \cup (Handle \ {h})
  BY <1>1 DEF WriteNothing, WriteControl, WriteMutedVolume, WriteUnmute, Asked, Send, Set, KeepVolume,
              serial, shared
<1>4. local' \in [Handle -> [Field -> Value]]
  BY <1>2, <1>3, CopyTyped DEF ControlsTyped
<1>5. <<f, v>> \in CtlCommand /\ <<"volume", global["volume"]>> \in CtlCommand
  BY <1>2, FieldNames DEF CtlCommand, ControlsTyped, CtlTyped
<1>6. line' \in Seq(CtlCommand)
  <2>1. \A c \in CtlCommand : Append(line, c) \in Seq(CtlCommand)
    BY OneMore DEF ControlsTyped, CtlTyped
  <2>2. line \in Seq(CtlCommand)
    BY DEF ControlsTyped, CtlTyped
  <2> DEFINE a == <<f, v>>
             b == <<"volume", global["volume"]>>
  <2>3. /\ a \in CtlCommand /\ b \in CtlCommand
        /\ line' = line \/ line' = Append(line, a) \/ line' = Append(line, b)
    BY <1>3, <1>5
  <2> HIDE DEF a, b
  <2>4. QED
    BY ONLY <2>1, <2>2, <2>3
<1>7. last' \in [Field -> Value] /\ global' \in [Field -> Value] /\ at' \in [Handle -> {"idle", "recv", "unmute"}]
  <2>1. last' \in [Field -> Value]
    <3>1. last \in [Field -> Value] /\ last' = [last EXCEPT ![f] = v]
      BY <1>3 DEF ControlsTyped, CtlTyped
    <3>2. QED
      BY <3>1
  <2>2. global' \in [Field -> Value]
    <3>1. global \in [Field -> Value] /\ (global' = global \/ global' = [global EXCEPT !["volume"] = v])
      BY <1>3 DEF ControlsTyped, CtlTyped
    <3>2. QED
      BY <3>1
  <2>3. at' \in [Handle -> {"idle", "recv", "unmute"}]
    <3>1. at \in [Handle -> {"idle", "recv", "unmute"}] /\ (at' = at \/ at' = [at EXCEPT ![h] = "unmute"])
      BY <1>3 DEF ControlsTyped, CtlTyped
    <3>2. QED
      BY <3>1
  <2>4. QED
    BY <2>1, <2>2, <2>3
<1>8. excused' \subseteq Handle
  BY <1>3 DEF ControlsTyped
<1>9. QED
  BY <1>3, <1>4, <1>6, <1>7, <1>8 DEF ControlsTyped, CtlTyped

LEMMA ControlsPoll ==
    ASSUME ControlsTyped, NEW h \in Handle, Poll(h)
    PROVE  ControlsTyped'
<1>1. ASSUME NEW n \in Field, ReportChange(h, n) PROVE ControlsTyped'
  <2> DEFINE f == State[First(Differs(h))]
  <2>1. /\ local' = [local EXCEPT ![h][f] = global[f]] /\ bytes' = bytes
        /\ UNCHANGED <<amp, line, answers, global, at, last, excused>>
    BY <1>1 DEF ReportChange, Kept, serial, shared
  <2> HIDE DEF f
  <2>2. f \in Field => global[f] \in Value
    BY DEF ControlsTyped, CtlTyped
  <2>3. local' \in [Handle -> [Field -> Value]]
    BY <2>1, <2>2, CopyTyped DEF ControlsTyped
  <2>4. QED
    BY <2>1, <2>3 DEF ControlsTyped, CtlTyped
<1>2. CASE NothingDiffers(h)
  BY <1>2 DEF NothingDiffers, serial, shared, ControlsTyped, CtlTyped
<1>3. CASE Recv(h)
  BY <1>3 DEF Recv, serial, shared, ControlsTyped, CtlTyped
<1>4. CASE WriteUnmuteSecond(h)
  <2>1. /\ line' = Append(line, Unmute) /\ at' = [at EXCEPT ![h] = "idle"]
        /\ UNCHANGED <<amp, answers, global, local, bytes, last, excused>>
    BY <1>4 DEF WriteUnmuteSecond, Send, Unmute, shared
  <2>2. Unmute \in CtlCommand
    BY FieldNames DEF Unmute, CtlCommand, Set, MuteOff, Value
  <2>3. line' \in Seq(CtlCommand)
    BY <2>1, <2>2, OneMore DEF ControlsTyped, CtlTyped
  <2>4. QED
    BY <2>1, <2>3 DEF ControlsTyped, CtlTyped
<1>5. QED
  BY <1>1, <1>2, <1>3, <1>4 DEF Poll

LEMMA ControlsNext == ControlsTyped /\ [CtlNext]_ctlVars => ControlsTyped'
<1> SUFFICES ASSUME ControlsTyped, [CtlNext]_ctlVars PROVE ControlsTyped'
  OBVIOUS
<1>1. CASE Execute
  <2> DEFINE c == Head(line)
  <2>1. /\ line # <<>> /\ line' = Tail(line) /\ amp' = [amp EXCEPT ![c[1]] = c[2]]
        /\ answers' = Append(answers, c) /\ UNCHANGED <<global, local, bytes, at, last, excused>>
    BY <1>1 DEF Execute, shared
  <2>2. c \in CtlCommand /\ line' \in Seq(CtlCommand)
    BY <2>1, HeadAndTail DEF ControlsTyped, CtlTyped
  <2> HIDE DEF c
  <2>3. answers' \in Seq(CtlCommand)
    BY <2>1, <2>2, OneMore DEF ControlsTyped, CtlTyped
  <2>4. amp' \in [Field -> Value]
    BY <2>1, <2>2 DEF CtlCommand, ControlsTyped, CtlTyped
  <2>5. QED
    BY <2>1, <2>2, <2>3, <2>4 DEF ControlsTyped, CtlTyped
<1>2. CASE Refuse
  <2> DEFINE c == Head(line)
  <2>1. /\ line # <<>> /\ line' = Tail(line) /\ last' = [last EXCEPT ![c[1]] = amp[c[1]]]
        /\ excused' = Handle /\ UNCHANGED <<amp, answers, global, local, bytes, at>>
    BY <1>2 DEF Refuse, shared
  <2>2. c \in CtlCommand /\ line' \in Seq(CtlCommand)
    BY <2>1, HeadAndTail DEF ControlsTyped, CtlTyped
  <2> HIDE DEF c
  <2>3. last' \in [Field -> Value]
    BY <2>1, <2>2 DEF CtlCommand, ControlsTyped, CtlTyped
  <2>4. QED
    BY <2>1, <2>2, <2>3 DEF ControlsTyped, CtlTyped
<1>3. CASE Panel
  <2>1. UNCHANGED <<line, global, local, bytes, at, excused>>
    BY <1>3, Zenon DEF Panel, shared
  <2>2. PICK f \in Adjustable : \E v \in Value \ {amp[f]} :
          /\ amp' = [amp EXCEPT ![f] = v] /\ last' = [last EXCEPT ![f] = v]
          /\ answers' = Append(answers, <<f, v>>)
    BY <1>3, Zenon DEF Panel
  <2>3. PICK v \in Value \ {amp[f]} :
          /\ amp' = [amp EXCEPT ![f] = v] /\ last' = [last EXCEPT ![f] = v]
          /\ answers' = Append(answers, <<f, v>>)
    BY <2>2, Zenon
  <2>4. <<f, v>> \in CtlCommand
    BY SettingsAssumption DEF CtlCommand
  <2>5. answers' \in Seq(CtlCommand)
    BY <2>3, <2>4, OneMore DEF ControlsTyped, CtlTyped
  <2>6. amp' \in [Field -> Value] /\ last' \in [Field -> Value]
    BY <2>3 DEF ControlsTyped, CtlTyped
  <2>7. QED
    BY <2>1, <2>5, <2>6 DEF ControlsTyped, CtlTyped
<1>4. CASE Update
  <2> DEFINE c == Head(answers)
  <2>1. /\ answers # <<>> /\ answers' = Tail(answers) /\ global' = [global EXCEPT ![c[1]] = c[2]]
        /\ UNCHANGED <<amp, line, local, bytes, at, last, excused>>
    BY <1>4 DEF Update, Store
  <2>2. c \in CtlCommand /\ answers' \in Seq(CtlCommand)
    BY <2>1, HeadAndTail DEF ControlsTyped, CtlTyped
  <2> HIDE DEF c
  <2>3. global' \in [Field -> Value]
    BY <2>1, <2>2 DEF CtlCommand, ControlsTyped, CtlTyped
  <2>4. QED
    BY <2>1, <2>2, <2>3 DEF ControlsTyped, CtlTyped
<1>5. CASE Announce
  BY <1>5 DEF Announce, serial, ControlsTyped, CtlTyped
<1>6. ASSUME NEW h \in Handle, ReadControl(h) PROVE ControlsTyped'
  <2>1. UNCHANGED <<amp, line, answers, global, bytes, at, last, excused>>
    BY <1>6 DEF ReadControl, serial, shared
  <2>2. PICK f \in Readable : local' = [local EXCEPT ![h][f] = global[f]]
    BY <1>6 DEF ReadControl
  <2>3. f \in Field => global[f] \in Value
    BY DEF ControlsTyped, CtlTyped
  <2>4. local' \in [Handle -> [Field -> Value]]
    BY <2>2, <2>3, CopyTyped DEF ControlsTyped
  <2>5. QED
    BY <2>1, <2>4 DEF ControlsTyped, CtlTyped
<1>7. CASE UNCHANGED ctlVars
  BY <1>7 DEF ctlVars, ControlsTyped, CtlTyped
<1>8. QED
  BY <1>1, <1>2, <1>3, <1>4, <1>5, <1>6, <1>7, ControlsWrite, ControlsPoll DEF CtlNext

\* Every command and every answer carries a value its control can have, and so do the
\* shared state and every handle's copy, in any interleaving and with any disturbance.
THEOREM ControlsTypeCorrect == CtlSpec => []CtlTypeOK
<1>1. ControlsTyped => CtlTypeOK
  <2> SUFFICES ASSUME ControlsTyped PROVE CtlTypeOK
    OBVIOUS
  <2>1. Range(line \o answers) \subseteq CtlCommand
    <3>1. line \in Seq(CtlCommand) /\ answers \in Seq(CtlCommand)
      BY DEF ControlsTyped, CtlTyped
    <3>2. Range(line \o answers) = Range(line) \cup Range(answers)
      BY <3>1, RangeConcatenation
    <3>3. Range(line) \subseteq CtlCommand /\ Range(answers) \subseteq CtlCommand
      BY <3>1, RangeOfSeq
    <3>4. QED
      BY <3>2, <3>3
  <2>2. QED
    BY <2>1 DEF ControlsTyped, CtlTyped, CtlTypeOK, CtlCommand
<1>2. QED
  BY ControlsInit, ControlsNext, <1>1, PTL DEF CtlSpec
=============================================================================
