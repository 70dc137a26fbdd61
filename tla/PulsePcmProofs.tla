--------------------------- MODULE PulsePcmProofs ---------------------------
(***************************************************************************)
(* What the PulseAudio PCM plugin promises its application, for every size *)
(* of the buffer and of the period and every environment: the poll pipe,   *)
(* the order of what is captured, the stream a pulse_prepare leaves, and   *)
(* the room that alsa-lib derives from update_ptr's pointer.               *)
(***************************************************************************)
EXTENDS PulsePcm, SequenceTheorems, WellFoundedInduction, TLAPS

Io == [state : {"opening", "open", "setup", "prepared", "running", "xrun", "paused", "closed"},
       appl : Int, hw : Int, lastHw : 0 .. TLength - 1]
Pcm == [ptr : 0 .. TLength - 1, lastSize : Int, underrun : BOOLEAN, offset : Nat]
Calls == [pc : Pcs, size : Int, err : BOOLEAN]
Settings == [playback : BOOLEAN, fails : BOOLEAN, refuses : BOOLEAN, pauses : BOOLEAN,
            streams : Nat]

Typed ==
  /\ io \in Io /\ pcm \in Pcm /\ call \in Calls /\ env \in Settings
  /\ room \in Int /\ queue \in Seq(Seq(Int)) /\ sent \in Nat /\ got \in Seq(Int)
  /\ streams \in Nat

(* Where the application's thread is with what stream.                     *)
Opening == call.pc \in {"prepare_close", "prepare_new", "prepare_ready"}

Placed ==
  /\ Opening => io.state = "prepared"
  /\ stream = "creating" => call.pc = "prepare_ready"
  /\ stream = "closing" => call.pc = "prepare_close"
  /\ call.pc = "write" => env.playback /\ call.size > 0
  /\ call.pc \in {"read", "read_loop"} => ~env.playback /\ call.size >= 0
  /\ call.pc = "read_loop" => Usable

(* The poll pipe.                                                          *)
Polled == PollReady /\ (stream = "creating" => queue = <<>>)

(* The value that the last pulse_prepare returned.                         *)
Returned ==
  stream = "none" /\ io.state = "prepared" /\ ~Opening /\ ~env.refuses => ~prepared

(* A fragment holds consecutive units, and the next one goes on from it.   *)
Consecutive(q) ==
  /\ \A j \in 1 .. Len(q) : Len(q[j]) > 0 /\ \A i \in 1 .. Len(q[j]) : q[j][i] = q[j][1] + i - 1
  /\ \A j \in 1 .. Len(q) - 1 : q[j + 1][1] = q[j][1] + Len(q[j])

(* What is used up of the first one: a new stream starts afresh.           *)
Cursor == IF call.pc = "prepare_ready" THEN 0 ELSE pcm.offset

Captured ==
  /\ got = [i \in 1 .. Len(got) |-> i]
  /\ Consecutive(queue)
  /\ queue # <<>> => queue[Len(queue)][1] + Len(queue[Len(queue)]) = sent + 1
  /\ stream # "none" =>
       IF queue = <<>> THEN Cursor = 0 /\ Len(got) = sent
       ELSE Cursor < Len(queue[1]) /\ queue[1][1] + Cursor = Len(got) + 1

(* A stream with nothing transferred yet, of the first prepare.            *)
NoPointer == pcm.ptr = 0 /\ pcm.lastSize = 0
Untouched == NoPointer /\ io.appl = 0 /\ io.hw = 0 /\ io.lastHw = 0

Fresh ==
  /\ streams = 0 => stream = "none" /\ NoPointer
  /\ Opening => io.appl = 0
  /\ call.pc = "prepare_new" => stream = "none"
  /\ io.state = "prepared" => io.hw = 0 /\ io.lastHw = 0
  /\ ~env.pauses => io.state # "paused"
  /\ env.playback => room <= TLength
  /\ call.pc = "prepare_ready" /\ streams = 1 =>
       Untouched /\ got = <<>> /\ (stream = "ready" /\ env.playback => room = TLength)

(* How far the plugin's pointer is from the one alsa-lib saw last, and how *)
(* many units alsa-lib would see when it asked.                            *)
Gap(ptr, last) == IF ptr >= last THEN ptr - last ELSE TLength + ptr - last
Ahead == Gap(pcm.ptr, io.lastHw)
Seen == io.hw + Ahead - io.appl

(* update_ptr counts, on the first stream, no more than the server did.    *)
Counted ==
  streams = 1 /\ ~env.pauses /\ Usable /\ ~Opening =>
    IF env.playback
      THEN /\ \/ TLength + Seen <= pcm.lastSize
              \/ Untouched /\ room = TLength
           /\ 0 <= pcm.lastSize /\ pcm.lastSize <= room
           /\ call.pc = "write" => call.size <= Avail(io)
      ELSE /\ Seen <= pcm.lastSize
           /\ IF call.pc = "read_loop"
                THEN pcm.lastSize = sent - io.appl /\ io.appl <= Len(got)
                ELSE io.appl = Len(got) /\ pcm.lastSize <= sent - Len(got)

IInv == Typed /\ Placed /\ Polled /\ Returned /\ Captured /\ Fresh /\ Counted

-----------------------------------------------------------------------------
(* Numbers from 0 on are reached one step at a time.                       *)
LEMMA LeastOf ==
  ASSUME NEW T, T \subseteq Nat, T # {}
  PROVE  \E x \in T : \A y \in T : ~(y < x)
<1>1. \E x \in T : \A y \in T : ~(<<y, x>> \in OpToRel(<, Nat))
  BY NatLessThanWellFounded, WFMin, Zenon
<1> QED
  BY <1>1 DEF OpToRel

LEMMA Climb ==
  ASSUME NEW T, NEW n \in Nat, 0 \in T, \A i \in 0 .. n - 1 : i \in T => i + 1 \in T
  PROVE  n \in T
<1> SUFFICES ASSUME n \notin T PROVE FALSE
  OBVIOUS
<1> DEFINE missed == {i \in 0 .. n : i \notin T}
<1>1. missed \subseteq Nat /\ missed # {}
  OBVIOUS
<1>2. PICK x \in missed : \A y \in missed : ~(y < x)
  <2> HIDE DEF missed
  <2> QED
    BY <1>1, LeastOf
<1>3. x \in 0 .. n /\ x # 0 /\ x \notin T
  BY <1>2
<1>4. x - 1 \in 0 .. n - 1 /\ x - 1 < x /\ (x - 1) + 1 = x
  BY <1>3
<1>5. x - 1 \notin missed
  BY <1>2, <1>4
<1> QED
  BY <1>3, <1>4, <1>5

(* FlattenSeq joins one sequence after the other to what it has.           *)
Joins(q, g, n) == g = [i \in 1 .. n |-> IF i = 1 THEN q[i] ELSE g[i - 1] \o q[i]]

LEMMA JoinsExists ==
  ASSUME NEW q \in Seq(Seq(Int))
  PROVE  \E g : Joins(q, g, Len(q))
<1> DEFINE T == {n \in 0 .. Len(q) : \E g : Joins(q, g, n)}
<1>1. 0 \in T
  <2>1. Joins(q, [i \in 1 .. 0 |-> 0], 0)
    BY DEF Joins
  <2> QED
    BY <2>1
<1>2. ASSUME NEW n \in 0 .. Len(q) - 1, n \in T PROVE n + 1 \in T
  <2>1. PICK g : Joins(q, g, n)
    BY <1>2
  <2> DEFINE h == [i \in 1 .. n + 1 |-> IF i <= n THEN g[i]
                                        ELSE IF i = 1 THEN q[i] ELSE g[i - 1] \o q[i]]
  <2>2. Joins(q, h, n + 1)
    <3> SUFFICES ASSUME NEW i \in 1 .. n + 1
                 PROVE  h[i] = IF i = 1 THEN q[i] ELSE h[i - 1] \o q[i]
      BY DEF Joins
    <3>1. CASE i = n + 1
      BY <3>1
    <3>2. CASE i # n + 1
      <4>1. i \in 1 .. n /\ h[i] = g[i] /\ (i # 1 => h[i - 1] = g[i - 1])
        BY <3>2
      <4>2. g[i] = IF i = 1 THEN q[i] ELSE g[i - 1] \o q[i]
        BY <2>1, <4>1 DEF Joins
      <4> HIDE DEF h
      <4> QED
        BY <4>1, <4>2
    <3> QED
      BY <3>1, <3>2
  <2> QED
    BY <2>2
<1> HIDE DEF T
<1>3. Len(q) \in T
  <2>1. Len(q) \in Nat
    OBVIOUS
  <2> QED
    BY <1>1, <1>2, <2>1, Climb
<1> QED
  BY <1>3 DEF T

LEMMA FlattenJoins ==
  ASSUME NEW q \in Seq(Seq(Int)), Len(q) > 0
  PROVE  \E g : Joins(q, g, Len(q)) /\ FlattenSeq(q) = g[Len(q)]
<1> DEFINE f == CHOOSE g : g = [i \in 1 .. Len(q) |-> IF i = 1 THEN q[i] ELSE g[i - 1] \o q[i]]
<1>1. \E g : g = [i \in 1 .. Len(q) |-> IF i = 1 THEN q[i] ELSE g[i - 1] \o q[i]]
  BY JoinsExists DEF Joins
<1>2. f = [i \in 1 .. Len(q) |-> IF i = 1 THEN q[i] ELSE f[i - 1] \o q[i]]
  BY <1>1
<1>3. FlattenSeq(q) = f[Len(q)]
  BY DEF FlattenSeq
<1> QED
  BY <1>2, <1>3 DEF Joins

(* Fragments that go on from one another hold as many units as lie between *)
(* the first one's first and the last one's last.                          *)
LEMMA FlattenLength ==
  ASSUME NEW q \in Seq(Seq(Int)), Consecutive(q), Len(q) > 0
  PROVE  Len(FlattenSeq(q)) = q[Len(q)][1] + Len(q[Len(q)]) - q[1][1]
<1>1. PICK g : Joins(q, g, Len(q)) /\ FlattenSeq(q) = g[Len(q)]
  BY FlattenJoins
<1> DEFINE Right(i) == g[i] \in Seq(Int) /\ Len(g[i]) = q[i][1] + Len(q[i]) - q[1][1]
           T == {n \in 0 .. Len(q) - 1 : Right(n + 1)}
<1>2. \A j \in 1 .. Len(q) : q[j] \in Seq(Int) /\ Len(q[j]) > 0 /\ q[j][1] \in Int
  <2> SUFFICES ASSUME NEW j \in 1 .. Len(q)
               PROVE  q[j] \in Seq(Int) /\ Len(q[j]) > 0 /\ q[j][1] \in Int
    OBVIOUS
  <2>1. q[j] \in Seq(Int) /\ Len(q[j]) > 0
    BY DEF Consecutive
  <2> QED
    BY <2>1
<1>3. 0 \in T
  <2>1. g[1] = q[1]
    BY <1>1 DEF Joins
  <2>2. q[1] \in Seq(Int) /\ q[1][1] \in Int /\ Len(q[1]) \in Nat
    BY <1>2
  <2>3. Right(1)
    BY <2>1, <2>2
  <2> HIDE DEF Right
  <2> QED
    BY <2>3
<1>4. ASSUME NEW n \in 0 .. Len(q) - 2, n \in T PROVE n + 1 \in T
  <2>0. n + 1 \in 1 .. Len(q) - 1 /\ (n + 1) + 1 \in 1 .. Len(q) /\ n + 1 \in 1 .. Len(q)
    OBVIOUS
  <2> DEFINE m == n + 1
  <2>1. g[m + 1] = g[m] \o q[m + 1]
    <3>1. m + 1 \in 1 .. Len(q) /\ m + 1 # 1 /\ (m + 1) - 1 = m
      BY <2>0
    <3> QED
      BY <1>1, <3>1 DEF Joins
  <2>2. g[m] \in Seq(Int) /\ Len(g[m]) = q[m][1] + Len(q[m]) - q[1][1]
    BY <1>4
  <2>3. q[m + 1][1] = q[m][1] + Len(q[m])
    BY <2>0 DEF Consecutive
  <2>4. /\ q[m] \in Seq(Int) /\ q[m + 1] \in Seq(Int) /\ q[1] \in Seq(Int)
        /\ q[m][1] \in Int /\ q[1][1] \in Int /\ q[m + 1][1] \in Int
    BY <1>2, <2>0
  <2> HIDE DEF m
  <2>5. g[m + 1] \in Seq(Int) /\ Len(g[m + 1]) = Len(g[m]) + Len(q[m + 1])
    <3> DEFINE a == g[m]
               b == q[m + 1]
    <3>1. a \in Seq(Int) /\ b \in Seq(Int) /\ g[m + 1] = a \o b
      BY <2>1, <2>2, <2>4
    <3> HIDE DEF a, b
    <3>2. a \o b \in Seq(Int) /\ Len(a \o b) = Len(a) + Len(b)
      BY <3>1
    <3> QED
      BY <3>1, <3>2 DEF a, b
  <2>6. Right(m + 1)
    <3> DEFINE a == q[m][1]
               b == q[1][1]
               c == q[m + 1][1]
               x == Len(q[m])
               y == Len(q[m + 1])
               z == Len(g[m])
               w == Len(g[m + 1])
    <3>1. /\ a \in Int /\ b \in Int /\ c \in Int /\ x \in Int /\ y \in Int
          /\ z = a + x - b /\ c = a + x /\ w = z + y
      BY <2>2, <2>3, <2>4, <2>5
    <3> HIDE DEF a, b, c, x, y, z, w
    <3>2. w = c + y - b
      BY <3>1
    <3> QED
      BY <2>5, <3>2 DEF b, c, y, w
  <2> HIDE DEF Right
  <2> QED
    BY <2>0, <2>6 DEF m
<1>5. Len(q) - 1 \in T
  <2>1. Len(q) - 1 \in Nat
    OBVIOUS
  <2>2. \A i \in 0 .. (Len(q) - 1) - 1 : i \in T => i + 1 \in T
    BY <1>4
  <2> HIDE DEF T
  <2> QED
    BY <1>3, <2>1, <2>2, Climb
<1>6. Right(Len(q))
  <2>1. (Len(q) - 1) + 1 = Len(q)
    OBVIOUS
  <2> HIDE DEF Right
  <2> QED
    BY <1>5, <2>1
<1> QED
  BY <1>1, <1>6

-----------------------------------------------------------------------------
(* What is readable is what was sent and not received.                     *)
LEMMA SizeReal ==
  ASSUME Typed, Captured
  PROVE  /\ queue = <<>> => Readable = 0
         /\ stream # "none" => Readable \in Int /\ Readable - Cursor = sent - Len(got)
<1>1. queue \in Seq(Seq(Int)) /\ sent \in Nat /\ Len(got) \in Nat /\ Cursor \in Int
  BY DEF Typed, Pcm, Cursor
<1>2. CASE queue = <<>>
  <2>1. Readable = 0
    BY <1>2 DEF Readable, FlattenSeq
  <2>2. stream # "none" => Cursor = 0 /\ Len(got) = sent
    BY <1>2 DEF Captured
  <2> QED
    BY <1>1, <2>1, <2>2
<1>3. CASE queue # <<>>
  <2>1. Len(queue) > 0 /\ Len(queue) \in 1 .. Len(queue) /\ 1 \in 1 .. Len(queue)
    BY <1>1, <1>3
  <2> DEFINE first == queue[1]
             last == queue[Len(queue)]
  <2>2. first \in Seq(Int) /\ last \in Seq(Int) /\ Len(first) > 0 /\ Len(last) > 0
    <3>1. \A j \in 1 .. Len(queue) : Len(queue[j]) > 0
      BY DEF Captured, Consecutive
    <3>2. \A j \in 1 .. Len(queue) : queue[j] \in Seq(Int)
      BY <1>1
    <3> QED
      BY <2>1, <3>1, <3>2
  <2>3. first[1] \in Int /\ last[1] \in Int /\ Len(last) \in Nat
    <3> HIDE DEF first, last
    <3> QED
      BY <2>2
  <2>4. Readable = last[1] + Len(last) - first[1]
    BY <1>1, <2>1, FlattenLength DEF Readable, Captured
  <2>5. last[1] + Len(last) = sent + 1
    BY <1>3 DEF Captured
  <2>6. stream # "none" => first[1] + Cursor = Len(got) + 1
    BY <1>3 DEF Captured
  <2> HIDE DEF first, last
  <2>7. Readable \in Int /\ (stream # "none" => Readable - Cursor = sent - Len(got))
    <3> DEFINE a == first[1]
               b == last[1] + Len(last)
               c == Len(got)
    <3>1. a \in Int /\ b \in Int /\ c \in Int
      BY <1>1, <2>3
    <3>2. Readable = b - a /\ b = sent + 1
      BY <1>1, <2>3, <2>4, <2>5
    <3>3. stream # "none" => a + Cursor = c + 1
      BY <2>6
    <3>4. sent \in Int /\ Cursor \in Int
      BY <1>1
    <3> HIDE DEF a, b, c
    <3>5. Readable \in Int /\ (stream # "none" => Readable - Cursor = sent - c)
      BY ONLY <3>1, <3>2, <3>3, <3>4
    <3> QED
      BY <3>5 DEF c
  <2> QED
    BY <1>3, <2>7
<1> QED
  BY <1>2, <1>3

(* What update_ptr is told, by a stream that is open.                      *)
LEMMA SizeTyped ==
  ASSUME Typed, Captured, stream # "none", call.pc # "prepare_ready"
  PROVE  Size \in Int /\ (~env.playback => Size = sent - Len(got))
<1>1. Readable \in Int /\ Readable - Cursor = sent - Len(got)
  BY SizeReal
<1>2. Cursor = pcm.offset /\ pcm.offset \in Nat /\ room \in Int
  BY DEF Cursor, Typed, Pcm
<1>3. Writable \in Int
  BY <1>2 DEF Writable
<1> QED
  BY <1>1, <1>2, <1>3 DEF Size

-----------------------------------------------------------------------------
(* A remainder is the number itself, or a whole divisor less at least.     *)
LEMMA ModDown ==
  ASSUME NEW M \in Nat \ {0}, NEW a \in Nat
  PROVE  a % M \in 0 .. M - 1 /\ (a % M = a \/ a % M <= a - M)
<1>1. a = (M * (a \div M)) + (a % M) /\ a \div M \in Int /\ a % M \in 0 .. M - 1
  OBVIOUS
<1> DEFINE q == a \div M
           r == a % M
<1>2. q \in Int /\ r \in 0 .. M - 1 /\ a = (M * q) + r
  BY <1>1
<1> HIDE DEF q, r
<1>3. q >= 0
  <2> SUFFICES ASSUME q <= -1 PROVE FALSE
    BY <1>2
  <2>1. M * q <= M * (-1)
    BY <1>2
  <2> QED
    BY <1>2, <2>1
<1>4. q = 0 => M * q = 0
  BY <1>2
<1>5. q >= 1 => M * q >= M
  BY <1>2
<1>6. r = a \/ r <= a - M
  BY <1>2, <1>3, <1>4, <1>5
<1> QED
  BY <1>2, <1>6 DEF r

(* update_ptr moves the pointer on by no more than the size has grown by.  *)
LEMMA UpdateCounts ==
  ASSUME NEW p \in Pcm, NEW size \in Int, NEW last \in 0 .. TLength - 1
  PROVE  /\ UpdatedPtr(p, size) \in Pcm /\ UpdatedPtr(p, size).lastSize = size
         /\ UpdatedPtr(p, size).offset = p.offset
         /\ size <= p.lastSize => UpdatedPtr(p, size).ptr = p.ptr
         /\ size > p.lastSize => Gap(UpdatedPtr(p, size).ptr, last)
                                   <= Gap(p.ptr, last) + size - p.lastSize
<1>1. /\ TLength \in Nat \ {0} /\ p.ptr \in 0 .. TLength - 1 /\ p.lastSize \in Int
      /\ p.offset \in Nat
  BY SizesAssumption DEF Pcm
<1>2. size > p.lastSize => Grown(p, size) \in 0 .. TLength - 1 /\
        (\/ Grown(p, size) = p.ptr + size - p.lastSize
         \/ Grown(p, size) <= p.ptr + size - p.lastSize - TLength)
  <2> SUFFICES ASSUME size > p.lastSize
               PROVE  /\ Grown(p, size) \in 0 .. TLength - 1
                      /\ \/ Grown(p, size) = p.ptr + size - p.lastSize
                         \/ Grown(p, size) <= p.ptr + size - p.lastSize - TLength
    OBVIOUS
  <2> DEFINE a == p.ptr + size - p.lastSize
  <2>1. a \in Nat /\ a = p.ptr + size - p.lastSize
    BY <1>1
  <2>2. Grown(p, size) = a % TLength
    BY DEF Grown
  <2> HIDE DEF a
  <2>3. a % TLength \in 0 .. TLength - 1 /\ (a % TLength = a \/ a % TLength <= a - TLength)
    BY <1>1, <2>1, ModDown
  <2> QED
    BY <1>1, <2>1, <2>2, <2>3
<1>3. size <= p.lastSize => Grown(p, size) = p.ptr
  BY <1>1 DEF Grown
<1> DEFINE to == Grown(p, size)
<1>4. to \in 0 .. TLength - 1
  BY <1>1, <1>2, <1>3
<1>5. UpdatedPtr(p, size) = [p EXCEPT !.ptr = to, !.lastSize = size]
  BY DEF UpdatedPtr
<1> HIDE DEF to
<1>6. /\ UpdatedPtr(p, size) \in Pcm /\ UpdatedPtr(p, size).ptr = to
      /\ UpdatedPtr(p, size).lastSize = size /\ UpdatedPtr(p, size).offset = p.offset
  BY <1>4, <1>5 DEF Pcm
<1>7. ASSUME size > p.lastSize
      PROVE  Gap(to, last) <= Gap(p.ptr, last) + size - p.lastSize
  <2>1. to = p.ptr + size - p.lastSize \/ to <= p.ptr + size - p.lastSize - TLength
    BY <1>2, <1>7 DEF to
  <2> QED
    BY <1>1, <1>4, <1>7, <2>1 DEF Gap
<1> QED
  BY <1>3, <1>6, <1>7 DEF to

LEMMA UpdateTyped ==
  ASSUME NEW p \in Pcm, NEW size \in Int
  PROVE  /\ UpdatedPtr(p, size) \in Pcm /\ UpdatedPtr(p, size).lastSize = size
         /\ UpdatedPtr(p, size).offset = p.offset
         /\ size <= p.lastSize => UpdatedPtr(p, size).ptr = p.ptr
<1>1. 0 \in 0 .. TLength - 1
  BY SizesAssumption
<1> QED
  BY <1>1, UpdateCounts

LEMMA UpdateKeeps ==
  ASSUME NEW p, NEW size
  PROVE  p \in Pcm /\ size \in Int => UpdatedPtr(p, size).underrun = p.underrun
BY DEF UpdatedPtr, Pcm, Grown

-----------------------------------------------------------------------------
(* Steps that transfer nothing and leave the stream and the pipe alone.    *)
Plain(pc) == pc \in {"connect", "idle", "start", "stop", "drain", "drained", "delay"}

QuietIo ==
  /\ io' \in Io /\ io'.appl = io.appl /\ io'.hw = io.hw /\ io'.lastHw = io.lastHw
  /\ io'.state = "prepared" => io.state = "prepared"
  /\ io'.state = "paused" => io.state = "paused" \/ env.pauses

QuietPcm ==
  /\ pcm' \in Pcm /\ pcm'.ptr = pcm.ptr /\ pcm'.lastSize = pcm.lastSize
  /\ pcm'.offset = pcm.offset

QuietCall ==
  call' \in Calls /\ ((call' = call /\ io' = io) \/ (Plain(call.pc) /\ Plain(call'.pc)))

QuietRest ==
  /\ ctx' = ctx \/ (ctx = "connecting" /\ ctx' = "ready")
  /\ UNCHANGED <<stream, poll, server, prepared, streams, env>>

LEMMA QuietStep ==
  ASSUME IInv, QuietIo, QuietPcm, QuietCall, QuietRest
  PROVE  IInv'
<1> USE DEF QuietIo, QuietPcm, QuietCall, QuietRest
<1>0. /\ Typed /\ Placed /\ Polled /\ Returned /\ Captured /\ Fresh /\ Counted
      /\ UNCHANGED <<room, queue, sent, got>>
  BY DEF IInv, server
<1>1. CtxGood' = CtxGood /\ Usable' = Usable /\ (ctx' = "failed" => ctx = "failed")
  BY DEF CtxGood, Usable, StreamGood
<1>2. Opening' = Opening /\ Cursor' = Cursor
  BY DEF Opening, Cursor, Plain
<1>3. Typed'
  BY <1>0 DEF Typed
<1>4. Placed'
  <2>1. CASE call' = call /\ io' = io
    BY <1>0, <1>1, <1>2, <2>1 DEF Placed
  <2>2. CASE Plain(call.pc) /\ Plain(call'.pc)
    <3>1. ~Opening /\ stream \notin {"creating", "closing"}
      BY <1>0, <2>2 DEF Placed, Plain, Opening
    <3>2. call'.pc \notin {"write", "read", "read_loop"}
      BY <2>2 DEF Plain
    <3> QED
      BY <1>0, <1>2, <3>1, <3>2 DEF Placed
  <2> QED
    BY <2>1, <2>2
<1>5. Polled'
  <2>1. (call'.pc = "read_loop") = (call.pc = "read_loop")
    BY DEF Plain
  <2> QED
    BY <1>0, <1>1, <2>1 DEF Polled, PollReady, Readable
<1>6. Returned'
  BY <1>0, <1>2 DEF Returned
<1>7. Captured'
  BY <1>0, <1>2 DEF Captured
<1>8. Fresh'
  BY <1>0, <1>2 DEF Fresh, Plain, NoPointer, Untouched
<1>9. Counted'
  <2>1. Seen' = Seen /\ Avail(io)' = Avail(io) /\ (Untouched <=> Untouched')
    BY <1>0 DEF Seen, Ahead, Gap, Avail, Untouched, NoPointer
  <2>2. (call'.pc = "read_loop") = (call.pc = "read_loop") /\ (call'.pc = "write" => call' = call)
    BY DEF Plain
  <2> QED
    BY <1>0, <1>1, <1>2, <2>1, <2>2 DEF Counted
<1> QED
  BY <1>3, <1>4, <1>5, <1>6, <1>7, <1>8, <1>9 DEF IInv

(* The stream or the context dies: the pipe is made readable.              *)
LEMMA DeadStep ==
  ASSUME IInv, ~Usable', poll' = TRUE, call.pc # "read_loop",
         stream' = stream \/ (stream # "none" /\ stream' \in {"failed", "terminated"}),
         stream' \notin {"creating", "closing"} \/ stream' = stream,
         UNCHANGED <<io, pcm, call, server, history>>
  PROVE  IInv'
<1>0. /\ Typed /\ Placed /\ Polled /\ Returned /\ Captured /\ Fresh
      /\ UNCHANGED <<room, queue, sent, got, prepared, streams, env>>
  BY DEF IInv, server, history
<1>1. Opening' = Opening /\ Cursor' = Cursor
  BY DEF Opening, Cursor
<1>2. Typed'
  BY <1>0 DEF Typed
<1>3. Placed'
  BY <1>0, <1>1 DEF Placed
<1>4. Polled'
  BY <1>0 DEF Polled, PollReady
<1>5. Returned'
  BY <1>0, <1>1 DEF Returned
<1>6. Captured'
  BY <1>0, <1>1 DEF Captured
<1>7. Fresh'
  BY <1>0, <1>1 DEF Fresh, NoPointer, Untouched
<1>8. Counted'
  BY DEF Counted
<1> QED
  BY <1>2, <1>3, <1>4, <1>5, <1>6, <1>7, <1>8 DEF IInv

LEMMA AskInv ==
  ASSUME IInv, Start \/ Drop \/ DropDrained \/ Drain
  PROVE  IInv'
<1>0. io \in Io /\ pcm \in Pcm /\ call \in Calls
  BY DEF IInv, Typed
<1>1. /\ Plain(call.pc) /\ UNCHANGED <<io, ctx, stream, poll, server, history>>
      /\ \E err \in BOOLEAN, pc \in {"start", "stop", "drain"} :
           call' = [call EXCEPT !.pc = pc, !.err = err]
      /\ pcm' = pcm \/ \E u \in BOOLEAN : pcm' = [pcm EXCEPT !.underrun = u]
  <2>0. (~Usable) \in BOOLEAN /\ env.refuses \in BOOLEAN
    <3>1. env.refuses \in BOOLEAN
      BY DEF IInv, Typed, Settings
    <3> QED
      BY <3>1, Zenon
  <2>1. CASE Start
    <3>1. \E err \in {~Usable, env.refuses} : call' = [call EXCEPT !.pc = "start", !.err = err]
      BY <2>1 DEF Start, Ask
    <3>2. pcm' = [pcm EXCEPT !.underrun = pcm.underrun /\ call'.err]
      BY <2>1 DEF Start
    <3>3. (pcm.underrun /\ call'.err) \in BOOLEAN
      OBVIOUS
    <3> QED
      BY <2>0, <2>1, <3>1, <3>2, <3>3 DEF Start, Ask, Idle, Plain
  <2>2. CASE Drop
    BY <2>0, <2>2 DEF Drop, Ask, Idle, Plain
  <2>3. CASE DropDrained
    BY <2>0, <2>3 DEF DropDrained, Ask, Plain
  <2>4. CASE Drain
    BY <2>0, <2>4 DEF Drain, Ask, Idle, Plain
  <2> QED
    BY <2>1, <2>2, <2>3, <2>4
<1>2. call' \in Calls /\ Plain(call'.pc)
  BY <1>0, <1>1 DEF Calls, Pcs, Plain
<1>3. QuietPcm
  BY <1>0, <1>1 DEF QuietPcm, Pcm
<1>4. QuietIo /\ QuietCall
  BY <1>0, <1>1, <1>2 DEF QuietIo, QuietCall
<1>5. QuietRest
  BY <1>1 DEF QuietRest, history, server
<1> QED
  BY <1>3, <1>4, <1>5, QuietStep

(* The steps of a call that change no more than alsa-lib's state.          *)
LEMMA QuietInv ==
  ASSUME IInv,
         \/ Connect \/ HwParams \/ WaitOperation \/ OpsDone \/ Pause \/ Delay \/ DelayLoop
         \/ ContextReady \/ LatencyUpdate \/ Underflow \/ UNCHANGED vars
  PROVE  IInv'
<1>0. io \in Io /\ pcm \in Pcm /\ call \in Calls /\ (Plain(call.pc) => call.pc \in Pcs)
  BY DEF IInv, Typed, Plain, Pcs
<1>1. CASE ContextReady \/ LatencyUpdate \/ WaitOperation \/ UNCHANGED vars
  <2>1. /\ UNCHANGED <<io, pcm, call, stream, poll, server, prepared, streams, env>>
        /\ ctx' = ctx \/ (ctx = "connecting" /\ ctx' = "ready")
    <3>1. CASE ContextReady
      BY <3>1 DEF ContextReady, history, server
    <3>2. CASE LatencyUpdate
      BY <3>2 DEF LatencyUpdate, history, server
    <3>3. CASE WaitOperation
      BY <3>3 DEF WaitOperation, history, server
    <3>4. CASE UNCHANGED vars
      BY <3>4 DEF vars, history, server
    <3> QED
      BY <1>1, <3>1, <3>2, <3>3, <3>4
  <2>2. QuietIo /\ QuietPcm /\ QuietCall
    BY <1>0, <2>1 DEF QuietIo, QuietPcm, QuietCall
  <2>3. QuietRest
    BY <2>1 DEF QuietRest, server
  <2> QED
    BY <2>2, <2>3, QuietStep
<1>2. CASE Underflow
  <2>1. QuietPcm
    BY <1>0, <1>2 DEF Underflow, QuietPcm, Pcm
  <2>2. QuietIo /\ QuietCall
    BY <1>0, <1>2 DEF Underflow, QuietIo, QuietCall
  <2>3. QuietRest
    BY <1>2 DEF Underflow, QuietRest, history, server
  <2> QED
    BY <2>1, <2>2, <2>3, QuietStep
<1>3. CASE Connect \/ HwParams \/ OpsDone \/ Pause \/ Delay \/ DelayLoop
  <2>1. /\ Plain(call.pc) /\ UNCHANGED <<pcm, ctx, stream, poll, server, history>>
        /\ \/ call' = call
           \/ \E q \in {"idle", "drained", "delay"}, err \in BOOLEAN :
                call' = [call EXCEPT !.pc = q] \/ call' = [call EXCEPT !.pc = q, !.err = err]
        /\ \/ io' = io
           \/ \E s \in {"open", "closed", "setup", "running", "xrun"} :
                io' = [io EXCEPT !.state = s]
           \/ (env.pauses /\ io' = [io EXCEPT !.state = "paused"])
    <3>1. CASE Connect
      BY <3>1 DEF Connect, Goto, Plain
    <3>2. CASE HwParams
      BY <3>2 DEF HwParams, Idle, Plain
    <3>3. CASE OpsDone
      <4>1. call.pc \in {"start", "stop", "drain"}
        BY <3>3 DEF OpsDone, Asked
      <4>2. \E q \in {"idle", "drained"} : call' = [call EXCEPT !.pc = q, !.err = FALSE]
        BY <3>3 DEF OpsDone
      <4>3. \/ io' = io
            \/ \E s \in {"setup", "running"} : io' = [io EXCEPT !.state = s]
        BY <3>3 DEF OpsDone
      <4> QED
        BY <3>3, <4>1, <4>2, <4>3 DEF OpsDone, Plain
    <3>4. CASE Pause
      BY <3>4 DEF Pause, Idle, Plain
    <3>5. CASE Delay
      BY <3>5 DEF Delay, Idle, Plain, Goto
    <3>6. CASE DelayLoop
      BY <3>6 DEF DelayLoop, Plain, Goto
    <3> QED
      BY <1>3, <3>1, <3>2, <3>3, <3>4, <3>5, <3>6
  <2>2. call' \in Calls /\ Plain(call'.pc)
    BY <1>0, <2>1 DEF Calls, Pcs, Plain
  <2>3. QuietIo
    BY <1>0, <2>1 DEF QuietIo, Io
  <2>4. QuietPcm /\ QuietCall
    BY <1>0, <2>1, <2>2 DEF QuietPcm, QuietCall
  <2>5. QuietRest
    BY <2>1 DEF QuietRest, history, server
  <2> QED
    BY <2>3, <2>4, <2>5, QuietStep
<1> QED
  BY <1>1, <1>2, <1>3

LEMMA DeadInv ==
  ASSUME IInv, ContextFails \/ StreamFails \/ StreamTerminates
  PROVE  IInv'
<1>1. CASE ContextFails
  <2>1. /\ UNCHANGED <<io, pcm, call, server, history>> /\ ctx' = "failed" /\ poll' = TRUE
        /\ call.pc # "read_loop" /\ stream' = IF StreamGood THEN "failed" ELSE stream
    BY <1>1 DEF ContextFails, Mainloop
  <2>2. ~Usable'
    BY <2>1 DEF Usable, CtxGood
  <2>3. /\ stream' = stream \/ (stream # "none" /\ stream' \in {"failed", "terminated"})
        /\ stream' \notin {"creating", "closing"} \/ stream' = stream
    BY <2>1 DEF StreamGood
  <2> QED
    BY <2>1, <2>2, <2>3, DeadStep
<1>2. CASE StreamFails
  <2>1. /\ UNCHANGED <<io, pcm, call, server, history>> /\ stream' = "failed" /\ stream # "none"
    BY <1>2 DEF StreamFails, StreamState, server, history, Usable, StreamGood
  <2> QED
    BY <1>2, <2>1, DeadStep DEF StreamFails, Mainloop, Usable, StreamGood
<1>3. CASE StreamTerminates
  <2>1. /\ UNCHANGED <<io, pcm, call, server, history>> /\ stream' = "terminated"
    BY <1>3 DEF StreamTerminates, StreamState, server, history
  <2> QED
    BY <1>3, <2>1, DeadStep DEF StreamTerminates, Mainloop, Usable, StreamGood
<1> QED
  BY <1>1, <1>2, <1>3

-----------------------------------------------------------------------------
(* pulse_prepare.                                                          *)
LEMMA PrepareInv ==
  ASSUME IInv, Prepare
  PROVE  IInv'
<1>0. Typed /\ Placed /\ Polled /\ Returned /\ Captured /\ Fresh
  BY DEF IInv
<1>1. /\ call.pc = "idle" /\ io' = [state |-> "prepared", appl |-> 0, hw |-> 0, lastHw |-> 0]
      /\ stream' = (IF CtxGood /\ StreamGood THEN "closing" ELSE stream)
      /\ call' = [call EXCEPT !.pc = IF stream = "none" THEN "prepare_new" ELSE "prepare_close"]
      /\ UNCHANGED <<pcm, ctx, poll, room, queue, sent, got, prepared, streams, env>>
  BY DEF Prepare, Idle, Goto, server, history
<1>2. /\ call' \in Calls /\ Opening'
      /\ call'.pc = IF stream = "none" THEN "prepare_new" ELSE "prepare_close"
  BY <1>0, <1>1 DEF Typed, Calls, Pcs, Opening
<1>3. io' \in Io /\ io'.state = "prepared" /\ io'.appl = 0 /\ io'.hw = 0 /\ io'.lastHw = 0
  BY <1>1, SizesAssumption DEF Io
<1>4. /\ stream \notin {"creating", "closing"} /\ (stream = "none" => stream' = "none")
      /\ stream' = "closing" \/ (stream' = stream /\ ~(CtxGood /\ StreamGood))
      /\ stream' = "none" => stream = "none"
  BY <1>0, <1>1 DEF Placed, StreamGood
<1>5. Typed' /\ Returned' /\ Counted'
  BY <1>0, <1>1, <1>2, <1>3 DEF Typed, Returned, Counted
<1>6. Placed'
  BY <1>2, <1>3, <1>4 DEF Placed, StreamGood
<1>7. Polled'
  BY <1>0, <1>1, <1>4 DEF Polled, PollReady, CtxGood, StreamGood
<1>8. Captured'
  <2>1. Cursor' = Cursor
    BY <1>1, <1>2 DEF Cursor
  <2> QED
    BY <1>0, <1>1, <1>4, <2>1 DEF Captured
<1>9. Fresh'
  BY <1>0, <1>1, <1>2, <1>3, <1>4 DEF Fresh, NoPointer
<1> QED
  BY <1>5, <1>6, <1>7, <1>8, <1>9 DEF IInv

(* A step that only waits.                                                 *)
LEMMA WaitStep ==
  ASSUME IInv, UNCHANGED <<io, pcm, ctx, stream, call, poll, server, history>>
  PROVE  IInv'
<1>1. io \in Io /\ pcm \in Pcm /\ call \in Calls
  BY DEF IInv, Typed
<1>2. QuietIo /\ QuietPcm /\ QuietCall
  BY <1>1 DEF QuietIo, QuietPcm, QuietCall
<1>3. QuietRest
  BY DEF QuietRest, server, history
<1> QED
  BY <1>2, <1>3, QuietStep

(* pulse_prepare lets go of the stream: of the one there was, or of the    *)
(* one that did not become ready, when what it returns is not a success.   *)
LEMMA LetGoStep ==
  ASSUME IInv, stream' = "none", Opening,
         \E q \in {"prepare_new", "idle"} :
           /\ call' = [call EXCEPT !.pc = q]
           /\ q = "idle" => (prepared' = FALSE \/ env.refuses),
         UNCHANGED <<io, pcm, ctx, poll, room, queue, sent, got, streams, env>>
  PROVE  IInv'
<1>0. Typed /\ Placed /\ Polled /\ Captured /\ Fresh
  BY DEF IInv
<1>1. /\ call' \in Calls /\ call'.pc \in {"prepare_new", "idle"}
      /\ call'.pc = "idle" => (prepared' = FALSE \/ env.refuses)
  BY <1>0 DEF Typed, Calls, Pcs
<1>2. io.state = "prepared" /\ io.appl = 0
  BY <1>0 DEF Placed, Fresh
<1>3. Typed'
  BY <1>0, <1>1 DEF Typed
<1>4. Placed'
  BY <1>1, <1>2 DEF Placed
<1>5. Polled' /\ Counted'
  BY <1>0 DEF Polled, PollReady, Counted, Usable, StreamGood
<1>6. Returned'
  BY <1>1 DEF Returned, Opening
<1>7. Captured'
  BY <1>0 DEF Captured
<1>8. Fresh'
  BY <1>0, <1>1, <1>2 DEF Fresh, NoPointer
<1> QED
  BY <1>3, <1>4, <1>5, <1>6, <1>7, <1>8 DEF IInv

LEMMA PrepareCloseInv ==
  ASSUME IInv, PrepareClose
  PROVE  IInv'
<1>1. CASE Usable
  <2>1. UNCHANGED <<io, pcm, ctx, stream, call, poll, server, history>>
    BY <1>1 DEF PrepareClose
  <2> QED
    BY <2>1, WaitStep
<1>2. CASE ~Usable
  <2>1. /\ stream' = "none" /\ call' = [call EXCEPT !.pc = "prepare_new"] /\ Opening
        /\ UNCHANGED <<io, pcm, ctx, poll, room, queue, sent, got, streams, env>>
    BY <1>2 DEF PrepareClose, Goto, Opening, server, history
  <2> QED
    BY <2>1, LetGoStep
<1> QED
  BY <1>1, <1>2

LEMMA PrepareNewInv ==
  ASSUME IInv, PrepareNew
  PROVE  IInv'
<1>0. Typed /\ Placed /\ Polled /\ Captured /\ Fresh
  BY DEF IInv
<1>1. Opening /\ call.pc = "prepare_new" /\ UNCHANGED <<io, pcm, ctx, poll, env>>
  BY DEF PrepareNew, Opening
<1>2. CASE /\ \E ok \in BOOLEAN : PrepareFails(ok) /\ (ok = FALSE \/ env.refuses)
           /\ UNCHANGED <<server, latency, streams>>
  <2>1. /\ stream' = "none" /\ call' = [call EXCEPT !.pc = "idle"]
        /\ prepared' = FALSE \/ env.refuses
        /\ UNCHANGED <<room, queue, sent, got, streams>>
    BY <1>2 DEF PrepareFails, Goto, server
  <2> QED
    BY <1>1, <2>1, LetGoStep
<1>3. CASE /\ stream' = "creating" /\ Goto("prepare_ready") /\ streams' = streams + 1
           /\ room' = 0 /\ queue' = <<>> /\ sent' = 0 /\ got' = <<>> /\ UNCHANGED prepared
  <2>1. call' \in Calls /\ call'.pc = "prepare_ready"
    BY <1>0, <1>3 DEF Goto, Typed, Calls, Pcs
  <2>2. Opening' /\ Cursor' = 0
    BY <2>1 DEF Opening, Cursor
  <2>3. io.state = "prepared" /\ io.appl = 0 /\ io.hw = 0 /\ io.lastHw = 0 /\ streams \in Nat
    BY <1>0, <1>1 DEF Placed, Fresh, Typed
  <2>4. Typed'
    BY <1>0, <1>1, <1>3, <2>1, <2>3 DEF Typed
  <2>5. Placed' /\ Returned' /\ Counted'
    BY <1>1, <1>3, <2>1, <2>2, <2>3 DEF Placed, Returned, Counted
  <2>6. Polled'
    BY <1>0, <1>1, <1>3 DEF Polled, PollReady
  <2>7. Captured'
    <3>1. Len(got') = 0 /\ got' = [i \in 1 .. 0 |-> i] /\ Len(queue') = 0
      BY <1>3
    <3> QED
      BY <1>3, <2>2, <3>1 DEF Captured, Consecutive
  <2>8. Fresh'
    <3>1. streams' # 0 /\ (streams' = 1 => NoPointer)
      BY <1>0, <1>3, <2>3 DEF Fresh
    <3>2. 0 <= TLength
      BY SizesAssumption
    <3> QED
      BY <1>0, <1>1, <1>3, <2>1, <2>3, <3>1, <3>2 DEF Fresh, Untouched, NoPointer
  <2> QED
    BY <2>4, <2>5, <2>6, <2>7, <2>8 DEF IInv
<1> QED
  BY <1>2, <1>3 DEF PrepareNew, ErrorReturned

LEMMA PrepareReadyInv ==
  ASSUME IInv, PrepareReady
  PROVE  IInv'
<1>0. Typed /\ Placed /\ Polled /\ Captured /\ Fresh
  BY DEF IInv
<1>1. /\ Opening /\ call.pc = "prepare_ready"
      /\ UNCHANGED <<io, ctx, poll, room, queue, sent, got, streams, env>>
  BY DEF PrepareReady, Opening, server
<1>2. CASE Wait /\ UNCHANGED <<pcm, stream, call, prepared>>
  <2>1. UNCHANGED <<io, pcm, ctx, stream, call, poll, server, history>>
    BY <1>1, <1>2 DEF server, history
  <2> QED
    BY <2>1, WaitStep
<1>3. CASE PrepareFails(ErrorReturned) /\ UNCHANGED <<pcm, awake>>
  <2>1. stream' = "none" /\ call' = [call EXCEPT !.pc = "idle"] /\ prepared' = FALSE
    BY <1>3 DEF PrepareFails, Goto, ErrorReturned
  <2> QED
    BY <1>1, <1>3, <2>1, LetGoStep
<1>4. CASE /\ CtxGood /\ stream = "ready" /\ Goto("idle")
           /\ pcm' = [pcm EXCEPT !.offset = 0, !.underrun = FALSE] /\ UNCHANGED stream
  <2>1. call' \in Calls /\ call'.pc = "idle"
    BY <1>0, <1>4 DEF Goto, Typed, Calls, Pcs
  <2>2. pcm' \in Pcm /\ pcm'.offset = 0 /\ pcm'.ptr = pcm.ptr /\ pcm'.lastSize = pcm.lastSize
    BY <1>0, <1>4 DEF Typed, Pcm
  <2>3. Typed'
    BY <1>0, <1>1, <2>1, <2>2 DEF Typed
  <2>4. Placed' /\ Returned'
    BY <1>4, <2>1 DEF Placed, Returned, Opening
  <2>5. Polled'
    BY <1>0, <1>1, <1>4 DEF Polled, PollReady, CtxGood, Readable
  <2>6. Captured'
    <3>1. Cursor = 0 /\ Cursor' = 0
      BY <1>1, <2>1, <2>2 DEF Cursor
    <3> QED
      BY <1>0, <1>1, <1>4, <3>1 DEF Captured
  <2>7. Fresh'
    BY <1>0, <1>1, <1>4, <2>1, <2>2 DEF Fresh, NoPointer, Opening
  <2>8. Counted'
    <3> SUFFICES ASSUME streams = 1
                 PROVE  Counted'
      BY <1>1 DEF Counted
    <3>1. Untouched /\ got = <<>> /\ (env.playback => room = TLength)
      BY <1>0, <1>1, <1>4 DEF Fresh
    <3>2. Untouched' /\ Seen' = 0 /\ pcm'.lastSize = 0 /\ io'.appl = 0
      BY <1>1, <2>2, <3>1 DEF Untouched, NoPointer, Seen, Ahead, Gap
    <3>3. TLength \in Nat /\ sent \in Nat /\ Len(got) = 0
      BY <1>0, <3>1, SizesAssumption DEF Typed
    <3> QED
      BY <1>1, <2>1, <3>1, <3>2, <3>3 DEF Counted
  <2> QED
    BY <2>3, <2>4, <2>5, <2>6, <2>7, <2>8 DEF IInv
<1> QED
  BY <1>2, <1>3, <1>4 DEF PrepareReady

(* pulse_close.                                                            *)
LEMMA CloseInv ==
  ASSUME IInv, Close
  PROVE  IInv'
<1>0. Typed /\ Placed /\ Captured /\ Fresh
  BY DEF IInv
<1>1. /\ call.pc = "idle" /\ io' = [io EXCEPT !.state = "closed"] /\ stream' = "none"
      /\ ctx' = "terminated"
      /\ UNCHANGED <<pcm, call, poll, room, queue, sent, got, prepared, streams, env>>
  BY DEF Close, Idle, server, history
<1>2. io' \in Io /\ io'.state = "closed" /\ ~Opening'
  BY <1>0, <1>1 DEF Typed, Io, Opening
<1>3. Typed'
  BY <1>0, <1>1, <1>2 DEF Typed
<1>4. Placed' /\ Returned'
  BY <1>1, <1>2 DEF Placed, Returned
<1>5. Polled' /\ Counted'
  BY <1>1 DEF Polled, PollReady, Counted, Usable, StreamGood
<1>6. Captured'
  BY <1>0, <1>1 DEF Captured
<1>7. Fresh'
  BY <1>0, <1>1, <1>2 DEF Fresh, NoPointer
<1> QED
  BY <1>3, <1>4, <1>5, <1>6, <1>7 DEF IInv

-----------------------------------------------------------------------------
(* stream_state_cb and stream_request_cb of a stream that becomes ready.   *)
LEMMA StreamReadyInv ==
  ASSUME IInv, StreamReady
  PROVE  IInv'
<1>0. Typed /\ Placed /\ Polled /\ Returned /\ Captured /\ Fresh
  BY DEF IInv
<1>1. /\ stream = "creating" /\ stream' = "ready" /\ CtxGood
      /\ room' = (IF env.playback THEN TLength ELSE 0)
      /\ UNCHANGED <<io, pcm, ctx, call, queue, sent, got, prepared, streams, env>>
      /\ IF env.playback THEN UpdateActive ELSE UNCHANGED poll
  BY DEF StreamReady, StreamState, history
<1>2. call.pc = "prepare_ready" /\ queue = <<>> /\ Opening'
  BY <1>0, <1>1 DEF Placed, Polled, Opening
<1>3. Readable = 0 /\ MinReq \in Nat \ {0} /\ TLength \in Nat /\ env.playback \in BOOLEAN
  BY <1>0, <1>2, SizeReal, SizesAssumption DEF Typed, Settings
<1>4. Typed'
  BY <1>0, <1>1, <1>3 DEF Typed
<1>5. Placed' /\ Returned' /\ Counted'
  BY <1>0, <1>1, <1>2 DEF Placed, Returned, Counted, Opening, Usable, CtxGood, StreamGood
<1>6. Polled'
  <2>1. stream' # "creating" /\ stream' # "failed" /\ ctx' # "failed"
    BY <1>1 DEF CtxGood
  <2>2. CASE env.playback
    BY <1>1, <2>1, <2>2 DEF Polled, PollReady, UpdateActive, Active
  <2>3. CASE ~env.playback
    <3>1. ~(Readable' >= MinReq)
      BY <1>1, <1>3 DEF Readable
    <3> QED
      BY <1>1, <2>1, <2>3, <3>1 DEF Polled, PollReady
  <2> QED
    BY <2>2, <2>3
<1>7. Captured'
  BY <1>0, <1>1 DEF Captured, Cursor
<1>8. Fresh'
  BY <1>0, <1>1, <1>2, <1>3 DEF Fresh, NoPointer, Untouched, Opening
<1> QED
  BY <1>4, <1>5, <1>6, <1>7, <1>8 DEF IInv

(* stream_success_cb; stream_request_cb after a flush.                     *)
LEMMA OperationDoneInv ==
  ASSUME IInv, OperationDone
  PROVE  IInv'
<1>0. Typed /\ Placed /\ Polled /\ Returned /\ Captured /\ Fresh /\ Counted
  BY DEF IInv
<1>1. /\ Usable
      /\ UNCHANGED <<io, pcm, ctx, stream, call, queue, sent, got, prepared, streams, env>>
      /\ \/ room' = TLength /\ env.playback /\ UpdateActive
         \/ UNCHANGED <<room, poll>>
  BY DEF OperationDone, history, Mainloop
<1>2. CASE UNCHANGED <<room, poll>>
  <2>1. UNCHANGED <<io, pcm, ctx, stream, call, poll, server, history>>
    BY <1>1, <1>2 DEF server, history
  <2> QED
    BY <2>1, WaitStep
<1>3. CASE room' = TLength /\ env.playback /\ UpdateActive
  <2>1. Opening' = Opening /\ Cursor' = Cursor /\ Usable' /\ TLength \in Nat
    BY <1>1, SizesAssumption DEF Opening, Cursor, Usable, CtxGood, StreamGood
  <2>2. Typed'
    BY <1>0, <1>1, <1>3, <2>1 DEF Typed
  <2>3. Placed' /\ Returned' /\ Captured'
    BY <1>0, <1>1, <2>1 DEF Placed, Returned, Captured
  <2>4. Polled'
    <3>1. ctx' # "failed" /\ stream' # "failed"
      BY <1>1 DEF Usable, CtxGood, StreamGood
    <3>2. room' >= MinReq => poll'
      BY <1>1, <1>3 DEF UpdateActive, Active
    <3> QED
      BY <1>0, <1>1, <1>3, <3>1, <3>2 DEF Polled, PollReady
  <2>5. Fresh'
    BY <1>0, <1>1, <1>3, <2>1 DEF Fresh, NoPointer, Untouched
  <2>6. Counted'
    <3> SUFFICES ASSUME streams = 1, ~env.pauses, ~Opening PROVE Counted'
      BY <1>1, <2>1 DEF Counted
    <3>1. /\ TLength + Seen <= pcm.lastSize \/ (Untouched /\ room = TLength)
          /\ 0 <= pcm.lastSize /\ pcm.lastSize <= room
          /\ call.pc = "write" => call.size <= Avail(io)
      BY <1>0, <1>1, <1>3 DEF Counted
    <3>2. pcm.lastSize \in Int /\ room \in Int /\ room <= TLength
      BY <1>0, <1>3 DEF Typed, Pcm, Fresh
    <3>3. Seen' = Seen /\ Avail(io)' = Avail(io) /\ (Untouched' <=> Untouched)
      BY <1>1 DEF Seen, Ahead, Gap, Avail, Untouched, NoPointer
    <3>4. pcm'.lastSize = pcm.lastSize /\ pcm.lastSize <= room' /\ call' = call /\ env' = env
      BY <1>1, <1>3, <2>1, <3>1, <3>2
    <3> QED
      BY <1>3, <3>1, <3>3, <3>4 DEF Counted
  <2> QED
    BY <2>2, <2>3, <2>4, <2>5, <2>6 DEF IInv
<1> QED
  BY <1>1, <1>2, <1>3

-----------------------------------------------------------------------------
(* stream_request_cb: what the pipe shows after update_active.             *)
LEMMA PipeUpdated ==
  ASSUME UpdateActive, CtxGood', stream' \in {"ready", "closing"}, env' = env
  PROVE  Polled'
<1>1. (IF env.playback THEN room' >= MinReq ELSE Readable' >= MinReq) => poll'
  BY DEF UpdateActive, Active, Readable
<1>2. ctx' # "failed" /\ stream' # "failed" /\ stream' # "creating"
  BY DEF CtxGood
<1> QED
  BY <1>1, <1>2 DEF Polled, PollReady

(* A fragment with the next units goes on from those that are queued.      *)
LEMMA NextFragment ==
  ASSUME Typed, Captured, NEW n \in Nat \ {0}, NEW f, NEW q,
         f = [i \in 1 .. n |-> sent + i], q = Append(queue, f)
  PROVE  /\ q \in Seq(Seq(Int)) /\ Consecutive(q) /\ Len(q) > 0
         /\ q[Len(q)][1] + Len(q[Len(q)]) = sent + n + 1
         /\ IF queue = <<>> THEN q[1] = f ELSE q[1] = queue[1]
         /\ f \in Seq(Int) /\ Len(f) = n /\ f[1] = sent + 1
<1>1. queue \in Seq(Seq(Int)) /\ sent \in Nat /\ Consecutive(queue)
  <2>1. queue \in Seq(Seq(Int)) /\ sent \in Nat
    BY DEF Typed
  <2>2. Consecutive(queue)
    BY Zenon DEF Captured
  <2> QED
    BY <2>1, <2>2
<1>2. f \in Seq(Int) /\ Len(f) = n /\ \A i \in 1 .. n : f[i] = sent + i
  BY <1>1
<1>3. f[1] = sent + 1
  BY <1>2
<1> DEFINE L == Len(queue)
<1>4. L \in Nat /\ (L = 0 <=> queue = <<>>)
  BY <1>1
<1>5. /\ q \in Seq(Seq(Int)) /\ Len(q) = L + 1 /\ q[L + 1] = f
      /\ \A j \in 1 .. L : q[j] = queue[j]
  BY <1>1, <1>2
<1>6. L > 0 => queue[L][1] + Len(queue[L]) = sent + 1
  BY <1>4 DEF Captured
<1>7. /\ \A j \in 1 .. L : Len(queue[j]) > 0
      /\ \A j \in 1 .. L : \A i \in 1 .. Len(queue[j]) : queue[j][i] = queue[j][1] + i - 1
      /\ \A j \in 1 .. L - 1 : queue[j + 1][1] = queue[j][1] + Len(queue[j])
  BY <1>1 DEF Consecutive
<1> HIDE DEF L
<1>8. Consecutive(q)
  <2>1. ASSUME NEW j \in 1 .. L + 1
        PROVE  Len(q[j]) > 0 /\ \A i \in 1 .. Len(q[j]) : q[j][i] = q[j][1] + i - 1
    <3>1. CASE j = L + 1
      BY <1>1, <1>2, <1>3, <1>5, <3>1
    <3>2. CASE j # L + 1
      <4>1. j \in 1 .. L /\ q[j] = queue[j]
        BY <1>4, <1>5, <3>2
      <4> QED
        BY <1>7, <4>1
    <3> QED
      BY <3>1, <3>2
  <2>2. ASSUME NEW j \in 1 .. L
        PROVE  q[j + 1][1] = q[j][1] + Len(q[j])
    <3>1. CASE j = L
      BY <1>3, <1>4, <1>5, <1>6, <3>1
    <3>2. CASE j # L
      <4>1. j \in 1 .. L - 1 /\ q[j] = queue[j] /\ q[j + 1] = queue[j + 1]
        BY <1>4, <1>5, <3>2
      <4> QED
        BY <1>7, <4>1
    <3> QED
      BY <3>1, <3>2
  <2>3. Len(q) = L + 1 /\ Len(q) - 1 = L
    BY <1>4, <1>5
  <2>4. /\ \A j \in 1 .. Len(q) :
             Len(q[j]) > 0 /\ \A i \in 1 .. Len(q[j]) : q[j][i] = q[j][1] + i - 1
        /\ \A j \in 1 .. Len(q) - 1 : q[j + 1][1] = q[j][1] + Len(q[j])
    BY ONLY <2>1, <2>2, <2>3
  <2> QED
    BY ONLY <2>4 DEF Consecutive
<1>9. q[Len(q)][1] + Len(q[Len(q)]) = sent + n + 1
  BY <1>1, <1>2, <1>3, <1>5
<1>10. IF queue = <<>> THEN q[1] = f ELSE q[1] = queue[1]
  BY <1>4, <1>5
<1>11. Len(q) > 0
  BY <1>4, <1>5
<1> QED
  BY <1>2, <1>3, <1>5, <1>8, <1>9, <1>10, <1>11

LEMMA RequestInv ==
  ASSUME IInv, Request
  PROVE  IInv'
<1>0. Typed /\ Placed /\ Polled /\ Returned /\ Captured /\ Fresh /\ Counted
  BY DEF IInv
<1>1. /\ CtxGood /\ stream = "ready" /\ call.pc # "read_loop" /\ UpdateActive
      /\ UNCHANGED <<io, pcm, ctx, stream, call, got, prepared, streams, env>>
  BY DEF Request, Running, Mainloop, history
<1>2. /\ Opening' = Opening /\ Usable /\ Usable' /\ CtxGood' /\ Cursor' = Cursor
      /\ Seen' = Seen /\ Avail(io)' = Avail(io) /\ (Untouched' <=> Untouched)
  BY <1>1 DEF Opening, Usable, CtxGood, StreamGood, Seen, Ahead, Gap, Avail, Untouched,
              NoPointer, Cursor
<1>3. Polled'
  BY <1>1, <1>2, PipeUpdated
<1>4. Placed' /\ Returned'
  BY <1>0, <1>1, <1>2 DEF Placed, Returned
<1>5. CASE env.playback
  <2>1. PICK n \in 1 .. TLength - room : room' = room + n
    BY <1>5 DEF Request
  <2>2. UNCHANGED <<queue, sent>> /\ room \in Int /\ TLength \in Nat
    BY <1>0, <1>5, SizesAssumption DEF Request, Typed
  <2>3. room' \in Int /\ room < room' /\ room' <= TLength
    BY <2>1, <2>2
  <2>4. Typed'
    BY <1>0, <1>1, <2>2, <2>3 DEF Typed
  <2>5. Captured'
    BY <1>0, <1>1, <1>2, <2>2 DEF Captured
  <2>6. Fresh'
    BY <1>0, <1>1, <1>2, <1>5, <2>2, <2>3 DEF Fresh, NoPointer
  <2>7. Counted'
    <3> SUFFICES ASSUME streams = 1, ~env.pauses, ~Opening PROVE Counted'
      BY <1>1, <1>2 DEF Counted
    <3>1. /\ TLength + Seen <= pcm.lastSize /\ 0 <= pcm.lastSize /\ pcm.lastSize <= room
          /\ call.pc = "write" => call.size <= Avail(io)
      BY <1>0, <1>2, <1>5, <2>2, <2>3 DEF Counted
    <3>2. pcm.lastSize \in Int
      BY <1>0 DEF Typed, Pcm
    <3>3. pcm'.lastSize = pcm.lastSize /\ pcm.lastSize <= room'
      BY <1>1, <2>2, <2>3, <3>1, <3>2
    <3>4. call' = call /\ env' = env
      BY <1>1
    <3> QED
      BY <1>2, <1>5, <3>1, <3>3, <3>4 DEF Counted
  <2> QED
    BY <1>3, <1>4, <2>4, <2>5, <2>6, <2>7 DEF IInv
<1>6. CASE ~env.playback
  <2>1. PICK n \in 1 .. MaxUnits - sent :
          queue' = Append(queue, [i \in 1 .. n |-> sent + i]) /\ sent' = sent + n
    BY <1>6 DEF Request
  <2>2. room' = room /\ n \in Nat \ {0} /\ sent \in Nat /\ Len(got) \in Nat
    BY <1>0, <1>6, SizesAssumption DEF Request, Typed
  <2> DEFINE f == [i \in 1 .. n |-> sent + i]
  <2>3. /\ queue' \in Seq(Seq(Int)) /\ Consecutive(queue') /\ Len(queue') > 0
        /\ queue'[Len(queue')][1] + Len(queue'[Len(queue')]) = sent + n + 1
        /\ IF queue = <<>> THEN queue'[1] = f ELSE queue'[1] = queue[1]
        /\ f \in Seq(Int) /\ Len(f) = n /\ f[1] = sent + 1
    <3>1. queue' = Append(queue, f) /\ n \in Nat \ {0}
      BY <2>1, <2>2
    <3> QED
      BY ONLY <1>0, <3>1, NextFragment
  <2> HIDE DEF f
  <2>4. Typed'
    BY <1>0, <1>1, <2>1, <2>2, <2>3 DEF Typed
  <2>5. Captured'
    <3>1. sent' + 1 = sent + n + 1 /\ queue' # <<>>
      <4>1. sent' = sent + n
        BY <2>1
      <4> QED
        BY ONLY <2>2, <2>3, <4>1
    <3>2. Cursor < Len(queue'[1]) /\ queue'[1][1] + Cursor = Len(got) + 1
      <4>1. CASE queue = <<>>
        <5>1. Cursor = 0 /\ Len(got) = sent /\ queue'[1] = f
          BY <1>0, <1>1, <2>3, <4>1 DEF Captured
        <5>2. 0 < n /\ sent + 1 + 0 = Len(got) + 1
          BY ONLY <2>2, <5>1
        <5> QED
          BY ONLY <2>3, <5>1, <5>2, <4>1
      <4>2. CASE queue # <<>>
        BY <1>0, <1>1, <2>3, <4>2 DEF Captured
      <4> QED
        BY <4>1, <4>2
    <3>3. Consecutive(queue)'
      BY <2>3 DEF Consecutive
    <3> QED
      BY <1>0, <1>1, <1>2, <2>3, <3>1, <3>2, <3>3 DEF Captured
  <2>6. Fresh'
    BY <1>0, <1>1, <1>2, <1>6, <2>2 DEF Fresh, NoPointer
  <2>7. Counted'
    <3> SUFFICES ASSUME streams = 1, ~env.pauses, ~Opening PROVE Counted'
      BY <1>1, <1>2 DEF Counted
    <3>1. Seen <= pcm.lastSize /\ io.appl = Len(got) /\ pcm.lastSize <= sent - Len(got)
      BY <1>0, <1>1, <1>2, <1>6 DEF Counted
    <3>2. pcm.lastSize \in Int
      BY <1>0 DEF Typed, Pcm
    <3>3. pcm.lastSize <= sent' - Len(got)
      BY <2>1, <2>2, <3>1, <3>2
    <3>4. pcm' = pcm /\ io' = io /\ got' = got /\ call' = call /\ env' = env
      BY <1>1
    <3> QED
      BY <1>1, <1>2, <1>6, <3>1, <3>3, <3>4 DEF Counted
  <2> QED
    BY <1>3, <1>4, <2>4, <2>5, <2>6, <2>7 DEF IInv
<1> QED
  BY <1>5, <1>6

-----------------------------------------------------------------------------
(* How many units alsa-lib would see, were its pointer p's.                *)
After(p) == io.hw + Gap(p.ptr, io.lastHw) - io.appl

LEMMA GapTyped ==
  ASSUME NEW a \in 0 .. TLength - 1, NEW b \in 0 .. TLength - 1
  PROVE  Gap(a, b) \in Int /\ Gap(a, b) >= 0 /\ Gap(a, a) = 0
BY SizesAssumption DEF Gap

(* update_ptr leaves alsa-lib with no more than update_ptr was told of.    *)
LEMMA UpdateReal ==
  ASSUME IInv, streams = 1, ~env.pauses, Usable, ~Opening, call.pc # "read_loop"
  PROVE  /\ Size \in Int /\ UpdatedPtr(pcm, Size) \in Pcm
         /\ UpdatedPtr(pcm, Size).lastSize = Size
         /\ env.playback => Size = room /\ 0 <= room
                            /\ TLength + After(UpdatedPtr(pcm, Size)) <= room
         /\ ~env.playback => Size = sent - Len(got) /\ After(UpdatedPtr(pcm, Size)) <= Size
<1>0. Typed /\ Captured /\ Counted
  BY DEF IInv
<1>1. Size \in Int /\ (~env.playback => Size = sent - Len(got))
  <2>1. stream # "none" /\ call.pc # "prepare_ready"
    BY DEF Usable, StreamGood, Opening
  <2> QED
    BY <1>0, <2>1, SizeTyped
<1>2. /\ pcm \in Pcm /\ io.hw \in Int /\ io.appl \in Int /\ io.lastHw \in 0 .. TLength - 1
      /\ room \in Int /\ TLength \in Nat \ {0} /\ pcm.lastSize \in Int
      /\ pcm.ptr \in 0 .. TLength - 1 /\ sent \in Nat /\ Len(got) \in Nat
  BY <1>0, SizesAssumption DEF Typed, Io, Pcm
<1> DEFINE size == Size
           p == UpdatedPtr(pcm, size)
<1>3. /\ p \in Pcm /\ p.lastSize = size
      /\ size <= pcm.lastSize => p.ptr = pcm.ptr
      /\ size > pcm.lastSize => Gap(p.ptr, io.lastHw)
                                  <= Gap(pcm.ptr, io.lastHw) + size - pcm.lastSize
  BY <1>1, <1>2, UpdateCounts
<1>4. p.ptr \in 0 .. TLength - 1
  BY <1>3 DEF Pcm
<1>5. pcm.ptr = 0 /\ pcm.lastSize = 0 /\ size = TLength => p.ptr = 0
  <2> SUFFICES ASSUME pcm.ptr = 0, pcm.lastSize = 0, size = TLength PROVE p.ptr = 0
    OBVIOUS
  <2>1. TLength % TLength \in 0 .. TLength - 1 /\
          (TLength % TLength = TLength \/ TLength % TLength <= TLength - TLength)
    BY <1>2, ModDown
  <2>2. Grown(pcm, TLength) = TLength % TLength
    BY <1>2 DEF Grown
  <2>3. p.ptr = Grown(pcm, TLength)
    BY <1>2 DEF UpdatedPtr, Pcm
  <2> QED
    BY <1>2, <2>1, <2>2, <2>3
<1>6. size \in Int /\ size = Size
  BY <1>1
<1> HIDE DEF size, p
<1>7. Gap(p.ptr, io.lastHw) \in Int /\ Gap(pcm.ptr, io.lastHw) \in Int
  BY <1>2, <1>4, GapTyped
<1> DEFINE g == Gap(p.ptr, io.lastHw)
           h == Gap(pcm.ptr, io.lastHw)
           hw == io.hw
           appl == io.appl
           old == pcm.lastSize
           seen == Seen
           after == After(p)
<1>8. /\ after = hw + g - appl /\ seen = hw + h - appl
      /\ hw \in Int /\ appl \in Int /\ old \in Int /\ g \in Int /\ h \in Int
      /\ size \in Int /\ (size <= old => g = h) /\ (size > old => g <= h + size - old)
  BY <1>2, <1>3, <1>6, <1>7 DEF After, Seen, Ahead
<1> HIDE DEF g, h, hw, appl, old, seen, after
<1>9. /\ seen \in Int /\ after \in Int /\ old \in Int
      /\ size >= old => after <= seen + size - old
  BY ONLY <1>8
<1>10. CASE env.playback
  <2>1. /\ TLength + seen <= old \/ (Untouched /\ room = TLength)
        /\ 0 <= old /\ old <= room
    BY <1>0, <1>10 DEF Counted, seen, old
  <2>2. size = room /\ 0 <= room
    <3>1. room >= 0 /\ room \in Int
      BY <1>2, <1>9, <2>1
    <3> QED
      BY <1>6, <1>10, <3>1 DEF Size, Writable
  <2>3. TLength + after <= room
    <3>1. CASE TLength + seen <= old
      <4>1. TLength \in Int /\ room \in Int
        BY <1>2
      <4> QED
        BY ONLY <1>6, <1>9, <2>1, <2>2, <3>1, <4>1
    <3>2. CASE Untouched /\ room = TLength
      <4>1. p.ptr = 0 /\ io.lastHw = 0 /\ io.hw = 0 /\ io.appl = 0
        BY <1>5, <2>2, <3>2 DEF Untouched, NoPointer
      <4>2. after = 0
        BY <4>1 DEF after, After, Gap
      <4> QED
        BY <1>2, <3>2, <4>2
    <3> QED
      BY <2>1, <3>1, <3>2
  <2> QED
    BY <1>1, <1>3, <1>6, <1>10, <2>2, <2>3 DEF p, after
<1>11. CASE ~env.playback
  <2>1. seen <= old /\ old <= sent - Len(got)
    BY <1>0, <1>11 DEF Counted, seen, old
  <2>2. size = sent - Len(got)
    BY <1>1, <1>6, <1>11
  <2>3. after <= size
    BY ONLY <1>6, <1>9, <2>1, <2>2
  <2> QED
    BY <1>1, <1>3, <1>6, <1>11, <2>2, <2>3 DEF p, after
<1> QED
  BY <1>10, <1>11

(* pulse_pointer, and the transfer that may follow: alsa-lib's and the     *)
(* plugin's pointers move, the stream and the pipe stay as they are.       *)
LEMMA PointerStep ==
  ASSUME IInv, call.pc = "idle", io' \in Io, io'.appl = io.appl, io'.state = io.state,
         io.state = "prepared" => io'.hw = 0 /\ io'.lastHw = 0,
         pcm' \in Pcm, pcm'.offset = pcm.offset, pcm' = pcm \/ stream # "none",
         call' \in Calls,
         \/ call' = call
         \/ /\ call'.pc = IF env.playback THEN "write" ELSE "read"
            /\ call'.size > 0,
         UNCHANGED <<ctx, stream, poll, server, history>>, Counted'
  PROVE  IInv'
<1>0. /\ Typed /\ Placed /\ Polled /\ Returned /\ Captured /\ Fresh
      /\ UNCHANGED <<room, queue, sent, got, prepared, streams, env>>
  BY DEF IInv, server, history
<1>1. ~Opening /\ ~Opening' /\ Cursor' = Cursor /\ call'.pc \in {"idle", "write", "read"}
  BY DEF Opening, Cursor
<1>2. Typed'
  BY <1>0 DEF Typed
<1>3. Placed'
  <2>1. stream \notin {"creating", "closing"} /\ call'.size \in Int
    BY <1>0 DEF Placed, Calls
  <2> QED
    BY <1>0, <1>1, <2>1 DEF Placed
<1>4. Polled'
  BY <1>0, <1>1 DEF Polled, PollReady, CtxGood, Readable
<1>5. Returned'
  BY <1>0, <1>1 DEF Returned
<1>6. Captured'
  BY <1>0, <1>1 DEF Captured
<1>7. Fresh'
  BY <1>0, <1>1 DEF Fresh, NoPointer
<1> QED
  BY <1>2, <1>3, <1>4, <1>5, <1>6, <1>7 DEF IInv

LEMMA MovedTyped ==
  ASSUME Typed, NEW hw \in 0 .. TLength - 1
  PROVE  /\ Moved(hw) \in Io /\ Moved(hw).appl = io.appl /\ Moved(hw).state = io.state
         /\ Moved(hw).hw = io.hw + Gap(hw, io.lastHw) /\ Moved(hw).lastHw = hw
<1>1. io \in Io /\ io.hw \in Int /\ io.lastHw \in 0 .. TLength - 1
  BY DEF Typed, Io
<1>2. Gap(hw, io.lastHw) \in Int
  BY <1>1, GapTyped
<1> DEFINE to == io.hw + Gap(hw, io.lastHw)
<1>3. to \in Int
  BY <1>1, <1>2
<1>4. Moved(hw) = [io EXCEPT !.lastHw = hw, !.hw = to]
  BY <1>1 DEF Moved, Gap
<1> HIDE DEF to
<1> QED
  BY <1>1, <1>3, <1>4 DEF Io, to

LEMMA TransferTyped ==
  ASSUME Typed, NEW i \in Io, NEW n \in Nat, Transfer(i, n)
  PROVE  /\ call' \in Calls
         /\ \/ call' = call
            \/ /\ call'.pc = (IF env.playback THEN "write" ELSE "read")
               /\ call'.size > 0 /\ call'.size <= Avail(i)
<1>1. call \in Calls /\ i.hw \in Int /\ i.appl \in Int /\ TLength \in Int
  BY SizesAssumption DEF Typed, Io
<1> DEFINE avail == Avail(i)
<1>2. avail \in Int
  BY <1>1 DEF Avail
<1> HIDE DEF avail
<1>3. CASE n = 0 \/ avail <= 0
  BY <1>1, <1>3 DEF Transfer, avail
<1>4. CASE ~(n = 0 \/ avail <= 0)
  <2> DEFINE pc == IF env.playback THEN "write" ELSE "read"
             size == IF n <= avail THEN n ELSE avail
  <2>1. call' = [call EXCEPT !.pc = pc, !.size = size]
    BY <1>4 DEF Transfer, avail
  <2>2. pc \in Pcs /\ size \in Int /\ size > 0 /\ size <= avail
    BY <1>2, <1>4 DEF Pcs
  <2> HIDE DEF pc, size
  <2>3. call' \in Calls /\ call'.pc = pc /\ call'.size = size
    BY <1>1, <2>1, <2>2 DEF Calls
  <2> QED
    BY <2>2, <2>3 DEF pc, avail
<1> QED
  BY <1>3, <1>4

LEMMA PointerInv ==
  ASSUME IInv, Pointer
  PROVE  IInv'
<1>0. Typed /\ Placed /\ Fresh /\ Counted
  BY DEF IInv
<1>1. /\ call.pc = "idle" /\ ~Opening /\ ~Opening'
      /\ UNCHANGED <<ctx, stream, poll, server, history>>
      /\ UNCHANGED <<room, queue, sent, got, streams, env>>
  <2>1. call' = call \/ call'.pc \in {"write", "read"}
    <3>1. call \in Calls
      BY <1>0 DEF Typed
    <3> QED
      BY <3>1 DEF Pointer, Transfer, Calls
  <2> QED
    BY <2>1 DEF Pointer, Idle, Opening, server, history
<1>2. Usable' = Usable
  BY <1>1 DEF Usable, CtxGood, StreamGood
<1>3. TLength \in Nat \ {0} /\ 0 \in 0 .. TLength - 1 /\ io \in Io /\ pcm \in Pcm /\ call \in Calls
  BY <1>0, SizesAssumption DEF Typed
<1>4. CASE io.state = "running" /\ io' = [io EXCEPT !.state = "xrun"] /\ UNCHANGED <<pcm, call>>
  <2>1. QuietIo /\ QuietPcm
    BY <1>3, <1>4 DEF QuietIo, QuietPcm, Io
  <2>2. QuietCall
    BY <1>1, <1>3, <1>4 DEF QuietCall, Plain
  <2>3. QuietRest
    BY <1>1 DEF QuietRest, history
  <2> QED
    BY <2>1, <2>2, <2>3, QuietStep
<1>5. CASE \E n \in 0 .. TLength :
             io.state \in {"prepared", "paused"} /\ io' = Moved(0) /\ Transfer(io', n) /\ pcm' = pcm
  <2>1. PICK n \in Nat : io' = Moved(0) /\ Transfer(io', n)
    BY <1>3, <1>5
  <2>2. /\ io' \in Io /\ io'.appl = io.appl /\ io'.state = io.state
        /\ io'.hw = io.hw + Gap(0, io.lastHw) /\ io'.lastHw = 0
    BY <1>0, <1>3, <2>1, MovedTyped
  <2>3. /\ call' \in Calls
        /\ \/ call' = call
           \/ /\ call'.pc = (IF env.playback THEN "write" ELSE "read")
              /\ call'.size > 0 /\ call'.size <= Avail(io')
    BY <1>0, <2>1, <2>2, TransferTyped
  <2>4. io.state = "prepared" => io'.hw = 0 /\ io.hw = 0 /\ io.lastHw = 0
    <3>1. Gap(0, 0) = 0
      BY <1>3, GapTyped
    <3> QED
      BY <1>0, <2>2, <3>1 DEF Fresh
  <2>5. Counted'
    <3> SUFFICES ASSUME streams = 1, ~env.pauses, Usable PROVE Counted'
      BY <1>1, <1>2 DEF Counted
    <3>1. io.state = "prepared"
      BY <1>0, <1>5 DEF Fresh
    <3>2. Seen' = Seen /\ (Untouched' <=> Untouched) /\ pcm' = pcm
      BY <1>5, <2>2, <2>4, <3>1 DEF Seen, Ahead, Untouched, NoPointer
    <3>3. /\ call'.pc = "write" => call'.size <= Avail(io')
          /\ call'.pc # "read_loop" /\ Avail(io)' = Avail(io')
      BY <1>1, <2>3 DEF Avail
    <3> QED
      BY <1>0, <1>1, <2>2, <3>2, <3>3 DEF Counted
  <2> QED
    BY <1>1, <1>3, <1>5, <2>2, <2>3, <2>4, <2>5, PointerStep
<1>6. CASE \E n \in 0 .. TLength :
             /\ io.state = "running" /\ Usable /\ pcm' = UpdatedPtr(pcm, Size)
             /\ io' = Moved(pcm'.ptr) /\ Transfer(io', n)
  <2>1. PICK n \in Nat : io' = Moved(pcm'.ptr) /\ Transfer(io', n)
    BY <1>3, <1>6
  <2>2. Size \in Int /\ stream # "none"
    <3>1. stream # "none" /\ call.pc # "prepare_ready"
      BY <1>1, <1>6 DEF Usable, StreamGood
    <3> QED
      BY <3>1, SizeTyped DEF IInv
  <2>3. pcm' \in Pcm /\ pcm'.lastSize = Size /\ pcm'.offset = pcm.offset
    BY <1>3, <1>6, <2>2, UpdateTyped
  <2>4. pcm'.ptr \in 0 .. TLength - 1
    BY <2>3 DEF Pcm
  <2>5. /\ io' \in Io /\ io'.appl = io.appl /\ io'.state = io.state
        /\ io'.hw = io.hw + Gap(pcm'.ptr, io.lastHw) /\ io'.lastHw = pcm'.ptr
    BY <1>0, <2>1, <2>4, MovedTyped
  <2>6. /\ call' \in Calls
        /\ \/ call' = call
           \/ /\ call'.pc = (IF env.playback THEN "write" ELSE "read")
              /\ call'.size > 0 /\ call'.size <= Avail(io')
    BY <1>0, <2>1, <2>5, TransferTyped
  <2>7. Counted'
    <3> SUFFICES ASSUME streams = 1, ~env.pauses PROVE Counted'
      BY <1>1 DEF Counted
    <3>1. /\ env.playback => Size = room /\ 0 <= room /\ TLength + After(pcm') <= room
          /\ ~env.playback => Size = sent - Len(got) /\ After(pcm') <= Size
      <4>1. call.pc # "read_loop"
        BY <1>1
      <4> QED
        BY <1>1, <1>6, <4>1, UpdateReal
    <3>2. Seen' = After(pcm')
      <4>1. Gap(pcm'.ptr, pcm'.ptr) = 0
        BY <2>4, GapTyped
      <4>2. Seen' = io'.hw + Gap(pcm'.ptr, io'.lastHw) - io'.appl
        BY DEF Seen, Ahead, Gap
      <4>3. After(pcm') = io.hw + Gap(pcm'.ptr, io.lastHw) - io.appl
        BY DEF After
      <4>4. io.hw \in Int /\ Gap(pcm'.ptr, io.lastHw) \in Int
        <5>1. io.hw \in Int /\ io.lastHw \in 0 .. TLength - 1
          BY <1>3 DEF Io
        <5> QED
          BY <2>4, <5>1, GapTyped
      <4> DEFINE g == Gap(pcm'.ptr, io.lastHw)
                 h == io'.hw
      <4>5. /\ Seen' = h + 0 - io.appl /\ After(pcm') = io.hw + g - io.appl
            /\ h = io.hw + g /\ g \in Int
        BY <2>5, <4>1, <4>2, <4>3, <4>4
      <4> HIDE DEF g, h
      <4>6. io.hw \in Int /\ io.appl \in Int
        BY <1>3 DEF Io
      <4> QED
        BY ONLY <4>5, <4>6
    <3>3. /\ call'.pc = "write" => call'.size <= Avail(io')
          /\ call'.pc # "read_loop" /\ Avail(io)' = Avail(io')
      BY <1>1, <2>6 DEF Avail
    <3>4. room \in Int
      BY <1>0 DEF Typed
    <3>5. CASE env.playback
      BY <1>1, <2>3, <3>1, <3>2, <3>3, <3>4, <3>5 DEF Counted
    <3>6. CASE ~env.playback
      <4>1. io.appl = Len(got) /\ sent - Len(got) \in Int
        BY <1>0, <1>1, <1>6, <3>6 DEF Counted, Typed
      <4> QED
        BY <1>1, <2>3, <2>5, <3>1, <3>2, <3>3, <3>6, <4>1 DEF Counted
    <3> QED
      BY <3>5, <3>6
  <2>8. io.state # "prepared"
    BY <1>6
  <2> QED
    BY <1>1, <2>2, <2>3, <2>5, <2>6, <2>7, <2>8, PointerStep
<1> QED
  BY <1>4, <1>5, <1>6 DEF Pointer

-----------------------------------------------------------------------------
(* A transfer ends.                                                        *)
LEMMA TransferredStep ==
  ASSUME IInv, call.pc \in {"write", "read", "read_loop"}, call' \in Calls, call'.pc = "idle",
         io' \in Io, io'.state = io.state, io'.hw = io.hw, io'.lastHw = io.lastHw,
         pcm' \in Pcm, pcm' = pcm \/ stream # "none",
         room' \in Int, room' <= room, queue' \in Seq(Seq(Int)),
         UNCHANGED <<ctx, stream, sent, got, prepared, streams, env>>,
         Polled', Captured', Counted'
  PROVE  IInv'
<1>0. Typed /\ Placed /\ Returned /\ Fresh
  BY DEF IInv
<1>1. ~Opening /\ ~Opening'
  BY DEF Opening
<1>2. Typed'
  BY <1>0 DEF Typed
<1>3. Placed' /\ Returned'
  BY <1>0, <1>1 DEF Placed, Returned
<1>4. Fresh'
  <2>1. env.playback => room' <= TLength
    <3>1. room \in Int /\ TLength \in Int /\ (env.playback => room <= TLength)
      BY <1>0, SizesAssumption DEF Typed, Fresh
    <3> QED
      BY <3>1
  <2> QED
    BY <1>0, <1>1, <2>1 DEF Fresh, NoPointer
<1> QED
  BY <1>2, <1>3, <1>4 DEF IInv

(* pulse_write.                                                            *)
LEMMA WriteInv ==
  ASSUME IInv, Write
  PROVE  IInv'
<1>0. Typed /\ Placed /\ Polled /\ Captured /\ Fresh /\ Counted
  BY DEF IInv
<1>1. /\ call.pc = "write" /\ env.playback /\ ~Opening
      /\ call' = [call EXCEPT !.pc = "idle", !.size = 0]
      /\ UNCHANGED <<ctx, stream, queue, sent, got, prepared, streams, env>>
  BY <1>0 DEF Write, Transferred, history, Placed, Opening
<1>2. call' \in Calls /\ call'.pc = "idle" /\ ~Opening'
  <2>1. call \in Calls /\ "idle" \in Pcs /\ 0 \in Int
    BY <1>0 DEF Typed, Pcs
  <2> QED
    BY <1>1, <2>1 DEF Calls, Opening
<1>3. /\ io \in Io /\ pcm \in Pcm /\ room \in Int /\ call.size \in Int /\ call.size > 0
      /\ TLength \in Nat \ {0} /\ queue \in Seq(Seq(Int))
  BY <1>0, <1>1, SizesAssumption DEF Typed, Calls, Placed
<1>4. /\ io.hw \in Int /\ io.appl \in Int /\ io.lastHw \in 0 .. TLength - 1
      /\ pcm.ptr \in 0 .. TLength - 1
  BY <1>3 DEF Io, Pcm
<1>5. Usable' = Usable
  BY <1>1 DEF Usable, CtxGood, StreamGood
<1>6. ASSUME Usable
      PROVE  /\ Size \in Int /\ stream # "none" /\ UpdatedPtr(pcm, Size) \in Pcm
             /\ UpdatedPtr(pcm, Size).lastSize = Size
             /\ UpdatedPtr(pcm, Size).offset = pcm.offset
  <2>1. stream # "none" /\ call.pc # "prepare_ready"
    BY <1>1, <1>6 DEF Usable, StreamGood
  <2>2. Size \in Int
    BY <1>0, <2>1, SizeTyped
  <2> QED
    BY <1>3, <2>1, <2>2, UpdateTyped
<1>7. ASSUME Usable, streams = 1, ~env.pauses
      PROVE  /\ Size = room /\ TLength + After(UpdatedPtr(pcm, Size)) <= room /\ 0 <= room
             /\ call.size <= Avail(io) /\ UpdatedPtr(pcm, Size).ptr \in 0 .. TLength - 1
  <2>1. call.pc # "read_loop"
    BY <1>1
  <2>2. Size = room /\ TLength + After(UpdatedPtr(pcm, Size)) <= room /\ 0 <= room
    BY <1>1, <1>7, <2>1, UpdateReal
  <2>3. call.size <= Avail(io)
    BY <1>0, <1>1, <1>7 DEF Counted
  <2> QED
    BY <1>6, <1>7, <2>2, <2>3 DEF Pcm
<1>8. CASE /\ pcm' = IF Usable THEN UpdatedPtr(pcm, Size) ELSE pcm
           /\ io' = [io EXCEPT !.appl = @ + 0] /\ UNCHANGED <<room, poll>>
  <2>1. /\ io' \in Io /\ io'.state = io.state /\ io'.hw = io.hw /\ io'.lastHw = io.lastHw
        /\ io'.appl = io.appl
    <3>1. io.appl + 0 = io.appl
      BY <1>4
    <3>2. io' = [io EXCEPT !.appl = io.appl]
      BY <1>8, <3>1
    <3> QED
      BY <1>3, <1>4, <3>2 DEF Io
  <2>2. pcm' \in Pcm /\ pcm'.offset = pcm.offset /\ (pcm' = pcm \/ stream # "none")
    BY <1>3, <1>6, <1>8
  <2>3. Polled'
    BY <1>0, <1>1, <1>2, <1>8 DEF Polled, PollReady, CtxGood, Readable
  <2>4. Captured'
    <3>1. Cursor' = Cursor
      BY <1>1, <1>2, <2>2 DEF Cursor
    <3> QED
      BY <1>0, <1>1, <3>1 DEF Captured
  <2>5. Counted'
    <3> SUFFICES ASSUME Usable, streams = 1, ~env.pauses PROVE Counted'
      BY <1>1, <1>5 DEF Counted
    <3>1. Seen' = After(pcm')
      BY <2>1 DEF Seen, Ahead, Gap, After
    <3>2. pcm'.lastSize = room /\ TLength + Seen' <= room /\ 0 <= room /\ room' = room
      BY <1>6, <1>7, <1>8, <3>1
    <3> QED
      BY <1>1, <1>2, <1>3, <3>2 DEF Counted
  <2>6. room' \in Int /\ room' <= room /\ queue' \in Seq(Seq(Int))
    BY <1>1, <1>3, <1>8
  <2> QED
    BY <1>1, <1>2, <2>1, <2>2, <2>3, <2>4, <2>5, <2>6, TransferredStep
<1>9. CASE /\ Usable /\ room' = room - call.size /\ UpdateActive
           /\ pcm' = [UpdatedPtr(UpdatedPtr(pcm, Size), Writable') EXCEPT !.underrun = FALSE]
           /\ io' = [io EXCEPT !.appl = @ + call.size]
  <2> DEFINE p == UpdatedPtr(pcm, Size)
             q == UpdatedPtr(p, Writable')
  <2>1. /\ io' \in Io /\ io'.state = io.state /\ io'.hw = io.hw /\ io'.lastHw = io.lastHw
        /\ io'.appl = io.appl + call.size
    <3> DEFINE appl == io.appl + call.size
    <3>1. io' = [io EXCEPT !.appl = appl] /\ appl \in Int
      BY <1>3, <1>4, <1>9
    <3> HIDE DEF appl
    <3>2. io' \in Io /\ io'.state = io.state /\ io'.hw = io.hw /\ io'.lastHw = io.lastHw
          /\ io'.appl = appl
      BY <1>3, <3>1 DEF Io
    <3> QED
      BY <3>2 DEF appl
  <2>2. room' \in Int /\ room' <= room /\ Writable' \in Int /\ room' = room - call.size
    BY <1>3, <1>9 DEF Writable
  <2>3. /\ p \in Pcm /\ p.lastSize = Size /\ p.offset = pcm.offset
        /\ p.ptr \in 0 .. TLength - 1
    BY <1>6, <1>9 DEF Pcm
  <2>4. /\ q \in Pcm /\ q.lastSize = Writable' /\ q.offset = pcm.offset
        /\ Writable' <= p.lastSize => q.ptr = p.ptr
    <3> DEFINE w == Writable'
    <3>1. w \in Int
      BY <2>2
    <3> HIDE DEF w, p
    <3>2. /\ UpdatedPtr(p, w) \in Pcm /\ UpdatedPtr(p, w).lastSize = w
          /\ UpdatedPtr(p, w).offset = p.offset
          /\ w <= p.lastSize => UpdatedPtr(p, w).ptr = p.ptr
      BY <2>3, <3>1, UpdateTyped
    <3> QED
      BY <2>3, <3>2 DEF w
  <2>5. /\ pcm' \in Pcm /\ pcm'.offset = pcm.offset /\ pcm'.ptr = q.ptr
        /\ pcm'.lastSize = Writable'
    <3>1. pcm' = [q EXCEPT !.underrun = FALSE]
      BY <1>9
    <3> HIDE DEF q
    <3> QED
      BY <2>4, <3>1 DEF Pcm
  <2>6. Polled'
    <3>1. CtxGood' /\ stream' \in {"ready", "closing"} /\ env' = env
      BY <1>0, <1>1, <1>9 DEF Usable, CtxGood, StreamGood, Placed
    <3> QED
      BY <1>9, <3>1, PipeUpdated
  <2>7. Captured'
    <3>1. Cursor' = Cursor
      BY <1>1, <1>2, <2>5 DEF Cursor
    <3> QED
      BY <1>0, <1>1, <3>1 DEF Captured
  <2>8. Counted'
    <3> SUFFICES ASSUME streams = 1, ~env.pauses PROVE Counted'
      BY <1>1, <1>5 DEF Counted
    <3>1. /\ Size = room /\ TLength + After(p) <= room /\ 0 <= room
          /\ call.size <= TLength + io.hw - io.appl
      BY <1>1, <1>7, <1>9 DEF Avail
    <3> DEFINE g == Gap(p.ptr, io.lastHw)
               hw == io.hw
               appl == io.appl
               size == call.size
    <3>2. g \in Int /\ g >= 0
      BY <1>4, <2>3, GapTyped
    <3>3. /\ TLength + (hw + g - appl) <= room /\ size <= TLength + hw - appl
          /\ hw \in Int /\ appl \in Int /\ size \in Int /\ room \in Int /\ TLength \in Int
          /\ size > 0
      BY <1>3, <1>4, <3>1 DEF After
    <3>4. room' = room - size
      BY <2>2
    <3> HIDE DEF g, hw, appl, size, p
    <3>5. room' >= 0 /\ room' <= room /\ TLength + (hw + g - (appl + size)) <= room'
      BY ONLY <3>2, <3>3, <3>4
    <3>6. Writable' = room' /\ room' <= p.lastSize
      BY <1>6, <1>9, <2>2, <2>3, <3>1, <3>5 DEF Writable
    <3>7. pcm'.ptr = p.ptr /\ pcm'.lastSize = room'
      BY <2>4, <2>5, <3>6
    <3>8. Seen' = hw + g - (appl + size)
      BY <2>1, <3>7 DEF Seen, Ahead, Gap, g, hw, appl, size
    <3> QED
      BY <1>1, <1>2, <2>2, <3>5, <3>7, <3>8 DEF Counted
  <2>9. queue' \in Seq(Seq(Int)) /\ stream # "none"
    BY <1>1, <1>3, <1>6, <1>9
  <2> QED
    BY <1>1, <1>2, <2>1, <2>2, <2>5, <2>6, <2>7, <2>8, <2>9, TransferredStep
<1> QED
  BY <1>8, <1>9 DEF Write, Transferred

-----------------------------------------------------------------------------
(* pulse_read, up to its loop.                                             *)
LEMMA ReadInv ==
  ASSUME IInv, Read
  PROVE  IInv'
<1>0. Typed /\ Placed /\ Polled /\ Returned /\ Captured /\ Fresh /\ Counted
  BY DEF IInv
<1>1. /\ call.pc = "read" /\ ~env.playback /\ ~Opening
      /\ UNCHANGED <<ctx, stream, poll, room, queue, sent, got, prepared, streams, env>>
  BY <1>0 DEF Read, Placed, Opening, server, history
<1>2. /\ io \in Io /\ pcm \in Pcm /\ call \in Calls
      /\ "idle" \in Pcs /\ "read_loop" \in Pcs /\ 0 \in Int
  BY <1>0 DEF Typed, Pcs
<1>3. Usable' = Usable
  BY <1>1 DEF Usable, CtxGood, StreamGood
<1>4. CASE ~Usable
  <2>1. /\ call' = [call EXCEPT !.pc = "idle", !.size = 0]
        /\ io' = [io EXCEPT !.appl = @ + 0] /\ pcm' = pcm
    BY <1>4 DEF Read, Transferred
  <2>2. call' \in Calls /\ call'.pc = "idle"
    BY <1>2, <2>1 DEF Calls
  <2>3. io' \in Io /\ io'.state = io.state /\ io'.hw = io.hw /\ io'.lastHw = io.lastHw
    <3>1. io.appl \in Int
      BY <1>2 DEF Io
    <3>2. io.appl + 0 = io.appl
      BY <3>1
    <3>3. io' = [io EXCEPT !.appl = io.appl]
      BY <2>1, <3>2
    <3> QED
      BY <1>2, <3>1, <3>3 DEF Io
  <2>4. room' \in Int /\ room' <= room /\ queue' \in Seq(Seq(Int))
    BY <1>0, <1>1 DEF Typed
  <2>5. Polled'
    BY <1>0, <1>1, <1>3, <1>4 DEF Polled, PollReady, Usable, CtxGood, StreamGood
  <2>6. Captured'
    <3>1. Cursor' = Cursor
      BY <1>1, <2>1, <2>2 DEF Cursor
    <3> QED
      BY <1>0, <1>1, <3>1 DEF Captured
  <2>7. Counted'
    BY <1>3, <1>4 DEF Counted
  <2> QED
    BY <1>1, <1>2, <2>1, <2>2, <2>3, <2>4, <2>5, <2>6, <2>7, TransferredStep
<1>5. CASE Usable
  <2>1. call' = [call EXCEPT !.pc = "read_loop"] /\ pcm' = UpdatedPtr(pcm, Size) /\ io' = io
    BY <1>5 DEF Read, Goto
  <2>2. call' \in Calls /\ call'.pc = "read_loop" /\ call'.size = call.size /\ ~Opening'
    BY <1>2, <2>1 DEF Calls, Opening
  <2>3. stream # "none" /\ stream \notin {"creating", "closing"}
    BY <1>0, <1>1, <1>5 DEF Usable, StreamGood, Placed
  <2>4. Size \in Int
    <3>1. call.pc # "prepare_ready"
      BY <1>1
    <3> QED
      BY <1>0, <2>3, <3>1, SizeTyped
  <2>5. pcm' \in Pcm /\ pcm'.lastSize = Size /\ pcm'.offset = pcm.offset
    BY <1>2, <2>1, <2>4, UpdateTyped
  <2>6. Typed'
    BY <1>0, <1>1, <2>1, <2>2, <2>5 DEF Typed
  <2>7. Placed' /\ Returned'
    BY <1>0, <1>1, <1>3, <1>5, <2>1, <2>2, <2>3 DEF Placed, Returned
  <2>8. Polled'
    BY <1>0, <1>1, <2>2, <2>3 DEF Polled, PollReady
  <2>9. Captured'
    <3>1. Cursor' = Cursor
      BY <1>1, <2>2, <2>5 DEF Cursor
    <3> QED
      BY <1>0, <1>1, <3>1 DEF Captured
  <2>10. Fresh'
    BY <1>0, <1>1, <2>1, <2>2, <2>3 DEF Fresh, NoPointer
  <2>11. Counted'
    <3> SUFFICES ASSUME streams = 1, ~env.pauses PROVE Counted'
      BY <1>1 DEF Counted
    <3>1. Size = sent - Len(got) /\ After(pcm') <= Size
      <4>1. call.pc # "read_loop"
        BY <1>1
      <4> QED
        BY <1>1, <1>5, <2>1, <4>1, UpdateReal
    <3>2. Seen' = After(pcm')
      BY <2>1 DEF Seen, Ahead, Gap, After
    <3>3. io.appl = Len(got) /\ Len(got) \in Nat
      BY <1>0, <1>1, <1>5 DEF Counted, Typed
    <3> QED
      BY <1>1, <2>1, <2>2, <2>5, <3>1, <3>2, <3>3 DEF Counted
  <2> QED
    BY <2>6, <2>7, <2>8, <2>9, <2>10, <2>11 DEF IInv
<1> QED
  BY <1>4, <1>5

LEMMA Piece ==
  ASSUME NEW s \in Seq(Int), NEW a \in Nat, NEW b \in Nat, a <= b, b <= Len(s)
  PROVE  /\ SubSeq(s, a + 1, b) \in Seq(Int) /\ Len(SubSeq(s, a + 1, b)) = b - a
         /\ \A i \in 1 .. b - a : SubSeq(s, a + 1, b)[i] = s[i + a]
<1> DEFINE m == a + 1
<1>1. m \in Int /\ b \in Int /\ b - m + 1 = b - a
  OBVIOUS
<1>2. \A i \in m .. b : s[i] \in Int
  OBVIOUS
<1>3. \A i \in 1 .. b - a : m + i - 1 = i + a
  OBVIOUS
<1>4. (IF m <= b THEN b - m + 1 ELSE 0) = b - a
  OBVIOUS
<1> HIDE DEF m
<1>5. /\ SubSeq(s, m, b) \in Seq(Int) /\ Len(SubSeq(s, m, b)) = IF m <= b THEN b - m + 1 ELSE 0
      /\ \A i \in 1 .. b - m + 1 : SubSeq(s, m, b)[i] = s[m + i - 1]
  BY ONLY <1>1, <1>2, SubSeqProperties
<1> QED
  BY <1>1, <1>3, <1>4, <1>5 DEF m

(* What is received when n units of what is left of a fragment are copied. *)
Received(g, s, o, n) == g \o SubSeq(SubSeq(s, o + 1, Len(s)), 1, n)
Numbered(g) == \A i \in 1 .. Len(g) : g[i] = i
Runs(s) == \A i \in 1 .. Len(s) : s[i] = s[1] + i - 1
UpTo(h, m) == h \in Seq(Int) /\ Len(h) = m /\ h = [i \in 1 .. Len(h) |-> i]

LEMMA NextUnits ==
  ASSUME NEW g \in Seq(Int), Numbered(g), NEW s \in Seq(Int), Runs(s),
         NEW o \in Nat, o < Len(s), s[1] + o = Len(g) + 1,
         NEW n \in 1 .. Len(s) - o
  PROVE  UpTo(Received(g, s, o, n), Len(g) + n)
<1> DEFINE left == SubSeq(s, o + 1, Len(s))
<1>0. Len(s) \in Nat /\ Len(g) \in Nat /\ n \in Nat /\ s[1] \in Int
  <2>1. Len(s) \in Nat /\ Len(g) \in Nat
    OBVIOUS
  <2>2. 1 \in 1 .. Len(s) /\ n \in Nat
    BY <2>1
  <2> QED
    BY <2>1, <2>2
<1>1. left \in Seq(Int) /\ Len(left) = Len(s) - o /\ \A i \in 1 .. Len(s) - o : left[i] = s[i + o]
  BY <1>0, Piece
<1>2. \A i \in 1 .. Len(s) - o : left[i] = Len(g) + i
  <2> HIDE DEF left
  <2> SUFFICES ASSUME NEW i \in 1 .. Len(s) - o PROVE left[i] = Len(g) + i
    OBVIOUS
  <2> DEFINE k == i + o
  <2>1. k \in 1 .. Len(s) /\ left[i] = s[k]
    BY <1>0, <1>1
  <2>2. s[k] = s[1] + k - 1
    <3> HIDE DEF k
    <3> QED
      BY <2>1 DEF Runs
  <2>3. s[1] + k - 1 = Len(g) + i
    <3> DEFINE first == s[1]
               l == Len(g)
    <3>1. /\ first \in Int /\ l \in Int /\ i \in Int /\ k = i + o /\ o \in Int
          /\ first + o = l + 1
      BY <1>0
    <3> HIDE DEF first, l, k
    <3>2. first + k - 1 = l + i
      BY ONLY <3>1
    <3> QED
      BY <3>2 DEF first, l
  <2> QED
    BY <2>1, <2>2, <2>3
<1> HIDE DEF left
<1> DEFINE b == SubSeq(left, 1, n)
           h == g \o b
<1>3. b \in Seq(Int) /\ Len(b) = n /\ \A i \in 1 .. n : b[i] = Len(g) + i
  <2>1. /\ SubSeq(left, 0 + 1, n) \in Seq(Int) /\ Len(SubSeq(left, 0 + 1, n)) = n - 0
        /\ \A i \in 1 .. n - 0 : SubSeq(left, 0 + 1, n)[i] = left[i + 0]
    <3>1. 0 \in Nat /\ n \in Nat /\ 0 <= n /\ n <= Len(left)
      BY <1>0, <1>1
    <3> QED
      BY ONLY <1>1, <3>1, Piece
  <2>2. b = SubSeq(left, 0 + 1, n) /\ n - 0 = n /\ \A i \in 1 .. n : i + 0 = i
    BY <1>0
  <2>3. \A i \in 1 .. n : i \in 1 .. Len(s) - o
    BY <1>0
  <2> HIDE DEF b
  <2> QED
    BY <1>2, <2>1, <2>2, <2>3
<1> HIDE DEF b
<1>4. /\ h \in Seq(Int) /\ Len(h) = Len(g) + n
      /\ \A i \in 1 .. Len(g) + n : h[i] = IF i <= Len(g) THEN g[i] ELSE b[i - Len(g)]
  BY <1>3, ConcatProperties
<1> HIDE DEF h
<1>5. \A i \in 1 .. Len(h) : h[i] = i
  <2> SUFFICES ASSUME NEW i \in 1 .. Len(g) + n PROVE h[i] = i
    BY <1>4
  <2>1. CASE i <= Len(g)
    <3>1. i \in 1 .. Len(g) /\ h[i] = g[i]
      BY ONLY <1>0, <1>4, <2>1, i \in 1 .. Len(g) + n
    <3> QED
      BY <3>1 DEF Numbered
  <2>2. CASE i > Len(g)
    <3>1. i - Len(g) \in 1 .. n /\ Len(g) + (i - Len(g)) = i /\ ~(i <= Len(g))
      BY ONLY <1>0, <2>2, i \in 1 .. Len(g) + n
    <3> QED
      BY <1>3, <1>4, <3>1
  <2> QED
    BY <1>0, <2>1, <2>2
<1>6. h = [i \in 1 .. Len(h) |-> i]
  BY <1>4, <1>5
<1> QED
  BY <1>1, <1>4, <1>6 DEF h, b, left, Received, UpTo

(* The fragments that follow the first.                                    *)
LEMMA TailConsecutive ==
  ASSUME NEW q \in Seq(Seq(Int)), Consecutive(q), Len(q) > 0
  PROVE  /\ Tail(q) \in Seq(Seq(Int)) /\ Consecutive(Tail(q))
         /\ IF Len(q) = 1 THEN Tail(q) = <<>>
            ELSE /\ Tail(q) # <<>> /\ Tail(q)[1][1] = q[1][1] + Len(q[1])
                 /\ Len(Tail(q)[1]) > 0 /\ Tail(q)[Len(Tail(q))] = q[Len(q)]
<1> DEFINE t == Tail(q)
           L == Len(q) - 1
<1>1. /\ L \in Nat /\ t \in Seq(Seq(Int)) /\ Len(t) = L /\ \A j \in 1 .. L : t[j] = q[j + 1]
      /\ Len(q) = L + 1
  OBVIOUS
<1>2. /\ \A j \in 1 .. L + 1 : Len(q[j]) > 0
      /\ \A j \in 1 .. L + 1 : \A i \in 1 .. Len(q[j]) : q[j][i] = q[j][1] + i - 1
      /\ \A j \in 1 .. L : q[j + 1][1] = q[j][1] + Len(q[j])
  BY <1>1 DEF Consecutive
<1> HIDE DEF t, L
<1>3. ASSUME NEW j \in 1 .. L
      PROVE  Len(t[j]) > 0 /\ \A i \in 1 .. Len(t[j]) : t[j][i] = t[j][1] + i - 1
  <2>1. j + 1 \in 1 .. L + 1 /\ t[j] = q[j + 1]
    BY <1>1
  <2> QED
    BY <1>2, <2>1
<1>4. ASSUME NEW j \in 1 .. L - 1
      PROVE  t[j + 1][1] = t[j][1] + Len(t[j])
  <2>1. j + 1 \in 1 .. L /\ t[j] = q[j + 1] /\ t[j + 1] = q[(j + 1) + 1]
    BY <1>1
  <2> QED
    BY <1>2, <2>1
<1>5. Consecutive(t)
  <2>1. /\ \A j \in 1 .. Len(t) :
             Len(t[j]) > 0 /\ \A i \in 1 .. Len(t[j]) : t[j][i] = t[j][1] + i - 1
        /\ \A j \in 1 .. Len(t) - 1 : t[j + 1][1] = t[j][1] + Len(t[j])
    BY ONLY <1>1, <1>3, <1>4
  <2> QED
    BY ONLY <2>1 DEF Consecutive
<1>6. CASE L = 0
  <2>1. t = <<>> /\ Len(q) = 1
    BY <1>1, <1>6
  <2> QED
    BY <1>1, <1>5, <2>1 DEF t
<1>7. CASE L # 0
  <2>1. 1 \in 1 .. L /\ L \in 1 .. L /\ t[1] = q[2] /\ t[L] = q[L + 1]
    BY <1>1, <1>7
  <2>2. q[2][1] = q[1][1] + Len(q[1])
    BY <1>2, <2>1
  <2>3. Len(t[1]) > 0
    BY <1>3, <2>1
  <2>4. t # <<>> /\ Len(q) # 1 /\ t[1][1] = q[1][1] + Len(q[1]) /\ t[Len(t)] = q[Len(q)]
    BY <1>1, <1>7, <2>1, <2>2
  <2> QED
    BY <1>1, <1>5, <2>3, <2>4 DEF t
<1> QED
  BY <1>6, <1>7

-----------------------------------------------------------------------------
(* One turn of the loop of pulse_read: peek, copy, and drop the fragment   *)
(* when it is used up.                                                     *)
LEMMA ReadFragmentInv ==
  ASSUME IInv, ReadFragment
  PROVE  IInv'
<1>0. Typed /\ Placed /\ Polled /\ Returned /\ Captured /\ Fresh /\ Counted
  BY DEF IInv
<1> DEFINE first == queue[1]
           n == IF Len(Left) > call.size THEN call.size ELSE Len(Left)
           o == NextOffset(Left)
           more == SubSeq(Left, 1, n)
<1>1. /\ call.pc = "read_loop" /\ call.size > 0 /\ queue # <<>>
      /\ got' = got \o more
      /\ pcm' = [pcm EXCEPT !.offset = o]
      /\ queue' = (IF pcm'.offset = 0 THEN Tail(queue) ELSE queue)
      /\ call' = [call EXCEPT !.size = @ - n]
      /\ UNCHANGED <<io, ctx, stream, poll, room, sent, prepared, streams, env>>
  BY DEF ReadFragment, history
<1>2. /\ pcm \in Pcm /\ pcm.offset \in Nat /\ call \in Calls /\ call.size \in Nat /\ got \in Seq(Int)
      /\ queue \in Seq(Seq(Int)) /\ sent \in Nat /\ Len(queue) > 0 /\ Len(got) \in Nat
      /\ io.appl \in Int /\ pcm.lastSize \in Int
  <2>1. /\ pcm \in Pcm /\ call \in Calls /\ got \in Seq(Int) /\ queue \in Seq(Seq(Int))
        /\ sent \in Nat /\ io \in Io
    BY <1>0 DEF Typed
  <2>2. Len(queue) > 0 /\ Len(got) \in Nat
    BY <1>1, <2>1
  <2>3. call.size \in Int /\ pcm.offset \in Nat /\ io.appl \in Int /\ pcm.lastSize \in Int
    BY <2>1 DEF Pcm, Calls, Io
  <2>4. call.size > 0
    BY <1>1
  <2>5. call.size \in Nat
    BY ONLY <2>3, <2>4
  <2> QED
    BY <2>1, <2>2, <2>3, <2>5
<1>3. /\ ~Opening /\ ~env.playback /\ Usable /\ Usable' /\ stream # "none"
      /\ stream \notin {"creating", "closing"}
  BY <1>0, <1>1 DEF Placed, Opening, Usable, CtxGood, StreamGood
<1>4. /\ \A i \in 1 .. Len(got) : got[i] = i
      /\ Consecutive(queue)
      /\ queue[Len(queue)][1] + Len(queue[Len(queue)]) = sent + 1
      /\ pcm.offset < Len(first) /\ first[1] + pcm.offset = Len(got) + 1
  <2>1. /\ got = [i \in 1 .. Len(got) |-> i]
        /\ queue[Len(queue)][1] + Len(queue[Len(queue)]) = sent + 1
        /\ Cursor < Len(first) /\ first[1] + Cursor = Len(got) + 1
    BY <1>0, <1>1, <1>3 DEF Captured
  <2>2. Consecutive(queue)
    BY <1>0, Zenon DEF Captured
  <2>3. Cursor = pcm.offset
    BY <1>1 DEF Cursor
  <2>4. \A i \in 1 .. Len(got) : got[i] = i
    BY <2>1
  <2> QED
    BY <2>1, <2>2, <2>3, <2>4
<1>5. /\ first \in Seq(Int) /\ Len(first) \in Nat /\ first[1] \in Int
      /\ \A i \in 1 .. Len(first) : first[i] = first[1] + i - 1
  <2>1. 1 \in 1 .. Len(queue)
    BY <1>2
  <2>2. first \in Seq(Int)
    BY <1>2, <2>1
  <2>3. \A i \in 1 .. Len(first) : first[i] = first[1] + i - 1
    BY <1>4, <2>1 DEF Consecutive
  <2> HIDE DEF first
  <2>4. Len(first) \in Nat
    BY <2>2
  <2>5. 1 \in 1 .. Len(first)
    <3> DEFINE off == pcm.offset
    <3>1. off \in Nat /\ off < Len(first)
      BY <1>2, <1>4
    <3> HIDE DEF off
    <3> QED
      BY ONLY <2>4, <3>1
  <2> QED
    BY <2>2, <2>3, <2>4, <2>5
<1> DEFINE off == pcm.offset
           len == Len(first)
           base == first[1]
           lg == Len(got)
           want == call.size
<1>6. /\ off \in Nat /\ len \in Nat /\ base \in Int /\ lg \in Nat /\ want \in Nat /\ want > 0
      /\ off < len /\ base + off = lg + 1
  BY <1>1, <1>2, <1>4, <1>5
<1>7. Len(Left) = len - off /\ Left = SubSeq(first, off + 1, len)
  <2>1. Left = SubSeq(first, off + 1, len)
    BY DEF Left
  <2> DEFINE l == len
  <2>2. l = Len(first) /\ first \in Seq(Int) /\ l \in Nat /\ off \in Nat /\ off <= l /\ l <= Len(first)
    BY <1>5, <1>6
  <2> HIDE DEF first, off, l
  <2>3. Len(SubSeq(first, off + 1, l)) = l - off
    BY ONLY <2>2, Piece
  <2> QED
    BY <2>1, <2>3 DEF l
<1>8. /\ n = IF len - off > want THEN want ELSE len - off
      /\ o = IF len - off > want THEN off + want ELSE 0
  BY <1>7 DEF NextOffset
<1> HIDE DEF n, o, off, len, base, lg, want
<1>9. n \in 1 .. len - off /\ n <= want /\ o \in Nat /\ want - n \in Nat
  BY ONLY <1>6, <1>8
<1>10. \/ n = want /\ o = off + n /\ o < len
       \/ n = len - off /\ o = 0
  BY ONLY <1>6, <1>8
<1>11. /\ o # 0 => o = off + n /\ o < len /\ base + o = (lg + n) + 1
       /\ o = 0 => base + len = (lg + n) + 1
  BY ONLY <1>6, <1>9, <1>10
<1> HIDE DEF first
<1>12. /\ got' \in Seq(Int) /\ Len(got') = Len(got) + n /\ got' = [i \in 1 .. Len(got') |-> i]
  <2>1. /\ off \in Nat /\ off < Len(first) /\ first[1] + off = Len(got) + 1
        /\ n \in 1 .. Len(first) - off
        /\ got' = got \o SubSeq(SubSeq(first, off + 1, Len(first)), 1, n)
    BY <1>1, <1>7, <1>9, <1>6 DEF len, base, lg
  <2>2. got \in Seq(Int) /\ Numbered(got)
    BY <1>2, <1>4 DEF Numbered
  <2>3. first \in Seq(Int) /\ Runs(first)
    BY <1>5 DEF Runs
  <2>4. UpTo(Received(got, first, off, n), Len(got) + n)
    BY ONLY <2>1, <2>2, <2>3, NextUnits
  <2> QED
    BY <2>1, <2>4 DEF UpTo, Received
<1>13. pcm' \in Pcm /\ pcm'.offset = o /\ pcm'.ptr = pcm.ptr /\ pcm'.lastSize = pcm.lastSize
  BY <1>1, <1>2, <1>9 DEF Pcm
<1>14. call' \in Calls /\ call'.pc = "read_loop" /\ call'.size >= 0 /\ ~Opening' /\ Cursor' = o
  <2> DEFINE size == want - n
  <2>1. size \in Int /\ size >= 0
    BY <1>9
  <2>2. call' = [call EXCEPT !.size = size]
    BY <1>1 DEF want
  <2> HIDE DEF size
  <2>3. call' \in Calls /\ call'.pc = "read_loop" /\ call'.size >= 0
    BY <1>1, <1>2, <2>1, <2>2 DEF Calls
  <2> QED
    BY <1>13, <2>3 DEF Opening, Cursor
<1>15. Captured' /\ queue' \in Seq(Seq(Int))
  <2>1. CASE o # 0
    <3>1. queue' = queue /\ o < Len(first) /\ queue'[1] = first
      BY <1>1, <1>13, <1>11, <2>1 DEF first, len
    <3>2. first[1] + o = Len(got') + 1
      BY <1>12, <1>11, <2>1 DEF base, lg
    <3>3. Consecutive(queue)'
      BY <1>4, <3>1 DEF Consecutive
    <3> QED
      BY <1>1, <1>2, <1>4, <1>12, <1>14, <3>1, <3>2, <3>3 DEF Captured
  <2>2. CASE o = 0
    <3>1. queue' = Tail(queue)
      BY <1>1, <1>13, <2>2
    <3>2. /\ Tail(queue) \in Seq(Seq(Int)) /\ Consecutive(Tail(queue))
          /\ IF Len(queue) = 1 THEN Tail(queue) = <<>>
             ELSE /\ Tail(queue) # <<>> /\ Tail(queue)[1][1] = first[1] + Len(first)
                  /\ Len(Tail(queue)[1]) > 0
                  /\ Tail(queue)[Len(Tail(queue))] = queue[Len(queue)]
      BY <1>2, <1>4, TailConsecutive DEF first
    <3>3. first[1] + Len(first) = Len(got') + 1
      BY <1>12, <1>11, <2>2 DEF base, lg, len
    <3>4. Consecutive(queue)'
      BY <3>1, <3>2 DEF Consecutive
    <3>5. CASE Len(queue) = 1
      <4>1. queue' = <<>> /\ first[1] + Len(first) = sent + 1
        BY <1>4, <3>1, <3>2, <3>5 DEF first
      <4>2. Len(got') = sent
        <5>1. Len(got') \in Nat
          BY <1>12
        <5> QED
          BY <1>2, <3>3, <4>1, <5>1
      <4> QED
        BY <1>1, <1>12, <1>14, <2>2, <3>2, <3>4, <4>1, <4>2 DEF Captured
    <3>6. CASE Len(queue) # 1
      <4>1. /\ queue' # <<>> /\ queue'[1][1] = Len(got') + 1 /\ 0 < Len(queue'[1])
            /\ queue'[Len(queue')][1] + Len(queue'[Len(queue')]) = sent + 1
        BY <1>4, <3>1, <3>2, <3>3, <3>6
      <4>2. Len(got') + 1 + 0 = Len(got') + 1
        BY <1>12
      <4> QED
        BY <1>1, <1>12, <1>14, <2>2, <3>1, <3>2, <3>4, <4>1, <4>2 DEF Captured
    <3> QED
      BY <3>5, <3>6
  <2> QED
    BY <2>1, <2>2
<1>16. Typed'
  BY <1>0, <1>1, <1>12, <1>13, <1>14, <1>15 DEF Typed
<1>17. Placed' /\ Returned'
  BY <1>0, <1>1, <1>3, <1>14 DEF Placed, Returned
<1>18. Polled'
  BY <1>0, <1>1, <1>3, <1>14 DEF Polled, PollReady
<1>19. Fresh'
  BY <1>0, <1>1, <1>3, <1>13, <1>14 DEF Fresh, NoPointer
<1>20. Counted'
  <2> SUFFICES ASSUME streams = 1, ~env.pauses PROVE Counted'
    BY <1>1 DEF Counted
  <2>1. Seen <= pcm.lastSize /\ pcm.lastSize = sent - io.appl /\ io.appl <= Len(got)
    BY <1>0, <1>1, <1>3 DEF Counted
  <2>2. io.appl <= Len(got')
    <3>1. io.appl <= lg /\ io.appl \in Int
      BY <1>2, <2>1 DEF lg
    <3>2. io.appl <= lg + n
      <4>1. n \in Int /\ n > 0
        BY ONLY <1>9, <1>6
      <4> QED
        BY ONLY <1>6, <3>1, <4>1
    <3> QED
      BY <1>12, <3>2 DEF lg
  <2>3. Seen' = Seen
    BY <1>1, <1>13 DEF Seen, Ahead, Gap
  <2> QED
    BY <1>1, <1>3, <1>13, <1>14, <2>1, <2>2, <2>3 DEF Counted
<1> QED
  BY <1>15, <1>16, <1>17, <1>18, <1>19, <1>20 DEF IInv

LEMMA ReadEndInv ==
  ASSUME IInv, ReadEnd
  PROVE  IInv'
<1>0. Typed /\ Placed /\ Polled /\ Captured /\ Fresh /\ Counted
  BY DEF IInv
<1>1. /\ call.pc = "read_loop" /\ pcm' = UpdatedPtr(pcm, Size) /\ UpdateActive
      /\ call' = [call EXCEPT !.pc = "idle", !.size = 0]
      /\ io' = [io EXCEPT !.appl = @ + (Len(got) - io.appl)]
      /\ UNCHANGED <<ctx, stream, room, queue, sent, got, prepared, streams, env>>
  BY DEF ReadEnd, Transferred, history
<1>2. ~env.playback /\ ~Opening /\ Usable /\ stream # "none" /\ stream \notin {"creating", "closing"}
  BY <1>0, <1>1 DEF Placed, Opening, Usable, StreamGood
<1>3. /\ io \in Io /\ pcm \in Pcm /\ call \in Calls /\ "idle" \in Pcs /\ 0 \in Int
      /\ io.appl \in Int /\ io.hw \in Int /\ Len(got) \in Nat /\ sent \in Nat
      /\ io.lastHw \in 0 .. TLength - 1 /\ pcm.ptr \in 0 .. TLength - 1 /\ pcm.lastSize \in Int
  BY <1>0 DEF Typed, Io, Pcm, Pcs
<1>4. call' \in Calls /\ call'.pc = "idle" /\ ~Opening'
  BY <1>1, <1>3 DEF Calls, Opening
<1>5. /\ io' \in Io /\ io'.state = io.state /\ io'.hw = io.hw /\ io'.lastHw = io.lastHw
      /\ io'.appl = Len(got)
  <2>1. io.appl + (Len(got) - io.appl) = Len(got)
    BY <1>3
  <2>2. io' = [io EXCEPT !.appl = Len(got)]
    BY <1>1, <2>1
  <2> QED
    BY <1>3, <2>2 DEF Io
<1>6. Size \in Int /\ Size = sent - Len(got)
  <2>1. call.pc # "prepare_ready"
    BY <1>1
  <2> QED
    BY <1>0, <1>2, <2>1, SizeTyped
<1>7. /\ pcm' \in Pcm /\ pcm'.lastSize = Size /\ pcm'.offset = pcm.offset
      /\ Size <= pcm.lastSize => pcm'.ptr = pcm.ptr
  BY <1>1, <1>3, <1>6, UpdateTyped
<1>8. Polled'
  <2>1. CtxGood' /\ stream' \in {"ready", "closing"} /\ env' = env
    BY <1>0, <1>1, <1>2 DEF Usable, CtxGood, StreamGood
  <2> QED
    BY <1>1, <2>1, PipeUpdated
<1>9. Captured'
  <2>1. Cursor' = Cursor
    BY <1>1, <1>4, <1>7 DEF Cursor
  <2> QED
    BY <1>0, <1>1, <2>1 DEF Captured
<1>10. Counted'
  <2> SUFFICES ASSUME streams = 1, ~env.pauses PROVE Counted'
    BY <1>1 DEF Counted
  <2>1. Seen <= pcm.lastSize /\ pcm.lastSize = sent - io.appl /\ io.appl <= Len(got)
    BY <1>0, <1>1, <1>2 DEF Counted
  <2>2. Size <= pcm.lastSize
    BY <1>3, <1>6, <2>1
  <2>3. Seen' = io.hw + Ahead - Len(got)
    <3>1. pcm'.ptr = pcm.ptr
      BY <1>7, <2>2
    <3>2. Ahead' = Ahead
      BY <1>5, <3>1 DEF Ahead, Gap
    <3>3. Seen' = io'.hw + Ahead' - io'.appl
      BY DEF Seen
    <3> QED
      BY ONLY <1>5, <3>2, <3>3
  <2>4. Ahead \in Int
    BY <1>3, GapTyped DEF Ahead
  <2> DEFINE hw == io.hw
             ahead == Ahead
             appl == io.appl
             l == Len(got)
             old == pcm.lastSize
  <2>5. /\ hw \in Int /\ ahead \in Int /\ appl \in Int /\ l \in Int /\ sent \in Int
        /\ hw + ahead - appl <= old /\ old = sent - appl /\ Seen' = hw + ahead - l
    BY <1>3, <2>1, <2>3, <2>4 DEF Seen
  <2> HIDE DEF hw, ahead, appl, l, old
  <2>6. hw + ahead - l <= sent - l
    BY ONLY <2>5
  <2>7. Seen' <= pcm'.lastSize /\ pcm'.lastSize <= sent - Len(got) /\ io'.appl = Len(got)
    <3>1. pcm'.lastSize = sent - l /\ sent - l \in Int
      BY <1>6, <1>7, <2>5 DEF l
    <3> QED
      BY <1>5, <2>5, <2>6, <3>1 DEF l
  <2> QED
    BY <1>1, <1>2, <1>4, <2>7 DEF Counted
<1>11. room' \in Int /\ room' <= room /\ queue' \in Seq(Seq(Int))
  BY <1>0, <1>1 DEF Typed
<1> QED
  BY <1>1, <1>2, <1>4, <1>5, <1>7, <1>8, <1>9, <1>10, <1>11, TransferredStep

-----------------------------------------------------------------------------
LEMMA InitInv ==
  ASSUME Init
  PROVE  IInv
<1>1. /\ io = [state |-> "opening", appl |-> 0, hw |-> 0, lastHw |-> 0]
      /\ pcm = [ptr |-> 0, lastSize |-> 0, underrun |-> FALSE, offset |-> 0]
      /\ ctx = "connecting" /\ stream = "none" /\ streams = 0
      /\ call = [pc |-> "connect", size |-> 0, err |-> FALSE]
      /\ room = 0 /\ queue = <<>> /\ sent = 0 /\ got = <<>> /\ env \in Envs
  BY DEF Init
<1>2. TLength \in Nat \ {0} /\ 0 \in 0 .. TLength - 1 /\ 0 <= TLength
  BY SizesAssumption
<1>3. Typed
  <2>1. env \in Settings
    <3>1. env \in [playback : BOOLEAN, fails : BOOLEAN, refuses : BOOLEAN, pauses : BOOLEAN,
                   streams : 1 .. MaxStreams]
      BY <1>1, EnvsAssumption
    <3>2. 1 .. MaxStreams \subseteq Nat
      BY SizesAssumption
    <3> QED
      BY <3>1, <3>2 DEF Settings
  <2>2. io \in Io /\ pcm \in Pcm /\ call \in Calls
    BY <1>1, <1>2 DEF Io, Pcm, Calls, Pcs
  <2>3. queue \in Seq(Seq(Int)) /\ got \in Seq(Int)
    BY <1>1
  <2> QED
    BY <1>1, <2>1, <2>2, <2>3 DEF Typed
<1>4. Placed /\ Polled /\ Returned /\ Counted
  BY <1>1 DEF Placed, Polled, PollReady, Returned, Counted, Opening, Usable, StreamGood
<1>5. Captured
  <2>1. Len(got) = 0 /\ got = [i \in 1 .. 0 |-> i] /\ Len(queue) = 0
    BY <1>1
  <2> QED
    BY <1>1, <2>1 DEF Captured, Consecutive
<1>6. Fresh
  BY <1>1, <1>2 DEF Fresh, NoPointer, Opening
<1> QED
  BY <1>3, <1>4, <1>5, <1>6 DEF IInv

LEMMA StepInv ==
  ASSUME IInv, [Next]_vars
  PROVE  IInv'
<1>1. CASE AppCall
  BY <1>1, QuietInv, PrepareInv, AskInv, PointerInv, CloseInv DEF AppCall
<1>2. CASE AppStep
  <2>1. CASE Connect \/ WaitOperation \/ OpsDone \/ DelayLoop
    BY <2>1, QuietInv
  <2>2. CASE PrepareClose \/ PrepareNew \/ PrepareReady
    BY <2>2, PrepareCloseInv, PrepareNewInv, PrepareReadyInv
  <2>3. CASE DropDrained
    BY <2>3, AskInv
  <2>4. CASE Write \/ Read \/ ReadFragment \/ ReadEnd
    BY <2>4, WriteInv, ReadInv, ReadFragmentInv, ReadEndInv
  <2> QED
    BY <1>2, <2>1, <2>2, <2>3, <2>4 DEF AppStep
<1>3. CASE ServerAnswer
  BY <1>3, QuietInv, StreamReadyInv, DeadInv, OperationDoneInv DEF ServerAnswer
<1>4. CASE ServerEvent
  BY <1>4, DeadInv, RequestInv, QuietInv DEF ServerEvent
<1>5. CASE LatencyUpdate \/ UNCHANGED vars
  BY <1>5, QuietInv
<1> QED
  BY <1>1, <1>2, <1>3, <1>4, <1>5 DEF Next

-----------------------------------------------------------------------------
(* Every value keeps its place from every initial state on: of the stream, *)
(* of the two pointers, of the queue and of what pulse_read has copied.    *)
THEOREM StreamInvariant == Spec => []IInv
<1>1. Init => IInv
  BY InitInv
<1>2. IInv /\ [Next]_vars => IInv'
  BY StepInv
<1> QED
  BY <1>1, <1>2, PTL DEF Spec

(* An application that polls is not left asleep: the pipe is readable      *)
(* whenever check_active finds something to do, and when the stream or the *)
(* context is gone.                                                        *)
THEOREM PollersAreWoken == Spec => []PollReady
<1>1. IInv => PollReady
  BY DEF IInv, Polled
<1> QED
  BY <1>1, StreamInvariant, PTL

(* pulse_read hands over the captured units in order, nothing skipped and  *)
(* nothing twice, wherever fragments end and reads are cut.                *)
THEOREM CapturedInOrder == Spec => []ReadInOrder
<1>1. IInv => ReadInOrder
  BY DEF IInv, Captured, ReadInOrder
<1> QED
  BY <1>1, StreamInvariant, PTL

(* Where libpulse refuses nothing, a pulse_prepare that returned success   *)
(* has left a stream.                                                      *)
THEOREM SuccessLeavesAStream == Spec => []PreparedHasStream
<1>1. IInv => PreparedHasStream
  BY DEF IInv, Returned, PreparedHasStream, Idle, Opening
<1> QED
  BY <1>1, StreamInvariant, PTL

(* On the first stream, while the application does not pause, the pointer  *)
(* that update_ptr keeps leaves alsa-lib with no more room, and no more    *)
(* captured units, than the server has really given.                       *)
THEOREM RoomIsReal == Spec => []FirstAvailReal
<1>1. ASSUME IInv PROVE FirstAvailReal
  <2> SUFFICES ASSUME streams = 1, ~env.pauses, io.state = "running", Usable,
                      call.pc # "read_loop"
               PROVE  Avail(io) <= IF env.playback THEN Writable ELSE Readable - pcm.offset
    BY DEF FirstAvailReal, AvailReal
  <2>1. Typed /\ Placed /\ Captured /\ Counted
    BY <1>1 DEF IInv
  <2>2. ~Opening /\ call.pc # "prepare_ready" /\ stream # "none"
    BY <2>1 DEF Placed, Opening, Usable, StreamGood
  <2>3. Size \in Int /\ (~env.playback => Size = sent - Len(got))
    BY <2>1, <2>2, SizeTyped
  <2>4. /\ io.hw \in Int /\ io.appl \in Int /\ pcm.lastSize \in Int /\ room \in Int
        /\ TLength \in Int /\ io.lastHw \in 0 .. TLength - 1 /\ pcm.ptr \in 0 .. TLength - 1
        /\ sent \in Int /\ Len(got) \in Int
    BY <2>1, SizesAssumption DEF Typed, Io, Pcm
  <2>5. Ahead \in Int /\ Ahead >= 0
    BY <2>4, GapTyped DEF Ahead
  <2> DEFINE hw == io.hw
             appl == io.appl
             ahead == Ahead
             old == pcm.lastSize
  <2>6. /\ hw \in Int /\ appl \in Int /\ ahead \in Int /\ ahead >= 0 /\ old \in Int
        /\ Seen = hw + ahead - appl
    BY <2>4, <2>5 DEF Seen
  <2>7. CASE env.playback
    <3>1. /\ TLength + (hw + ahead - appl) <= old \/ (hw = 0 /\ appl = 0 /\ room = TLength)
          /\ 0 <= old /\ old <= room
      BY <2>1, <2>2, <2>7 DEF Counted, Untouched, Seen
    <3>2. Writable = IF room > 0 THEN room ELSE 0
      BY DEF Writable
    <3>3. Avail(io) = TLength + hw - appl
      BY <2>7 DEF Avail
    <3> HIDE DEF hw, appl, ahead, old
    <3>4. TLength + hw - appl <= Writable
      BY ONLY <2>4, <2>6, <3>1, <3>2
    <3> QED
      BY <2>7, <3>3, <3>4
  <2>8. CASE ~env.playback
    <3>1. hw + ahead - appl <= old /\ old <= sent - Len(got)
      BY <2>1, <2>2, <2>8 DEF Counted, Seen
    <3>2. Avail(io) = hw - appl /\ Readable - pcm.offset = sent - Len(got)
      BY <2>3, <2>8 DEF Avail, Size
    <3> HIDE DEF hw, appl, ahead, old
    <3>3. hw - appl <= sent - Len(got)
      BY ONLY <2>4, <2>6, <3>1
    <3> QED
      BY <2>8, <3>2, <3>3
  <2> QED
    BY <2>7, <2>8
<1> QED
  BY <1>1, StreamInvariant, PTL
=============================================================================
