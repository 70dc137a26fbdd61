---------------------------- MODULE A52PcmProofs ----------------------------
(***************************************************************************)
(* Proofs about A52Pcm, for every frame and buffer size, every choice of   *)
(* the slave and the application, and however long they run.               *)
(*                                                                         *)
(* The inductive invariant says of every run what a call may be at         *)
(* (Basics), and of one whose slave starts in time, until a prepare fails  *)
(* (Sound): where a call may be and what it has got by then (Course), that *)
(* no unit is counted twice or lost (Counted), which units the two buffers *)
(* hold (Ordered), that the pointer alsa-lib has been given is never beyond*)
(* what the slave has played (Pointed), and that a slave that has not      *)
(* started has room for what is still to be written (Unstarted).           *)
(***************************************************************************)
EXTENDS A52Pcm, TLAPS

PcmStates == {"open", "setup", "prepared", "running", "xrun"}
Labels == {"idle", "pending", "fill", "filled", "convert", "last", "drain", "stop"}
Nexts == {"fill", "filled", "convert", "last"}
Errors == {"none", "again", "pipe"}

Streams == [state : PcmStates, appl : Nat, hw : Nat, lastHw : 0 .. BufferSize]
Slaves == [state : PcmStates \cup {"draining"}, size : Nat, threshold : Nat, played : Nat]
Calls ==
  [pc : Labels, next : Nexts \cup {"idle"}, left : Nat, result : Nat, ofs : Nat, done : Nat,
   err : Errors]
Modes == [block : BOOLEAN, whole : BOOLEAN]

Typed ==
  /\ io \in Streams /\ slave \in Slaves /\ call \in Calls /\ env \in Modes
  /\ inbuf \in Seq(Int) /\ outbuf \in Seq(Int) /\ received \in Seq(Int)
  /\ remain \in Nat /\ padded \in BOOLEAN /\ drained \in BOOLEAN /\ prepares \in Nat

At(labels) == call.pc \in labels \/ (call.pc = "pending" /\ call.next \in labels)

(* Where a call of the application is, and what holds there.               *)
Course ==
  /\ Idle => call = NoCall
  /\ call.pc = "pending" => call.done < remain /\ call.next \in Nexts
  /\ call.pc # "pending" => call.done = 0 /\ call.ofs = 0
  /\ ~env.block => call.done = 0
  /\ call.pc \in {"fill", "convert", "last"} /\ ~PendingFailed => remain = 0
  /\ At({"convert", "last", "drain", "stop"}) => call.result = 0 /\ call.left = 0
  /\ At({"last", "drain"}) => filled = 0
  /\ At({"convert"}) => filled > 0
  /\ call.pc = "drain" => remain = 0
  /\ At({"fill", "filled", "convert"}) => ~padded
  /\ remain > 0 => Len(outbuf) = FrameSize

(* The two PCMs: the slave is ahead, as it runs dry or stops by itself.    *)
States ==
  /\ io.state = "open" => Idle /\ slave.state = "open" /\ received = <<>> /\ slave.played = 0
  /\ io.state = "setup" => Idle /\ slave.state = "setup"
  /\ io.state \in {"prepared", "running"} /\ Idle =>
       slave.state \in {"prepared", "running", "xrun"} /\ ~padded /\ ~drained
  /\ io.state = "xrun" /\ call.pc \notin {"drain", "stop"} => slave.state = "xrun" /\ ~drained
  /\ ~Idle /\ call.pc \notin {"drain", "stop"} =>
       slave.state \in {"prepared", "running", "xrun"} /\ ~drained
  /\ call.pc = "drain" => slave.state \in {"draining", "setup", "xrun"} /\ ~drained
  /\ slave.state = "xrun" \/ (slave.state = "setup" /\ call.pc = "drain") =>
       slave.played = Len(received)
  /\ slave.state = "prepared" => slave.played = 0
  /\ env.block /\ PendingFailed => io.state = "xrun"
  /\ drained => /\ Accepted <= slave.played /\ slave.played = Len(received)
                /\ slave.state \in {"open", "setup", "xrun"}

Silence == IF padded THEN (-Accepted) % FrameSize ELSE 0

Counted ==
  /\ slave.played <= Len(received) /\ Queued <= slave.size
  /\ filled < FrameSize /\ (IF padded THEN filled = 0 ELSE Accepted % FrameSize = filled)
  /\ Len(received) + (remain - call.done) + filled = Accepted + Silence

(* The slave is one that can take units.                                   *)
Live == slave.state \in {"prepared", "running"}
Unit(i) == IF i <= Accepted THEN i ELSE 0

Ordered ==
  /\ env.block => \A i \in 1 .. Len(received) : received[i] = Unit(i)
  /\ ~padded => \A k \in 1 .. filled : inbuf[k] = (Accepted - filled) + k
  /\ env.block /\ Live /\ remain > 0 =>
       /\ call.pc = "pending" /\ remain = FrameSize /\ call.ofs = 0
       /\ \A k \in 1 .. FrameSize : outbuf[k] = Unit((Len(received) - call.done) + k)

Pointed ==
  env.block /\ env.whole /\ io.state \in {"prepared", "running"} =>
    /\ (io.appl + call.result + call.left) % FrameSize = 0
    /\ slave.size = BufferSize => io.hw <= slave.played /\ io.lastHw = io.hw % BufferSize

Flow == Typed /\ Course /\ States /\ Counted /\ Ordered /\ Pointed

Sound == StartsInTime /\ ~voided

(* Before the slave starts alsa-lib's hw_ptr stays at 0, which bounds what *)
(* the application has written.                                            *)
Unstarted ==
  slave.state = "prepared" =>
    /\ slave.size > 0 /\ Queued < slave.threshold
    /\ io.hw = 0 /\ io.lastHw = 0 /\ Accepted + call.left <= BufferSize

Recorded ==
  /\ call = [pc |-> call.pc, next |-> call.next, left |-> call.left, result |-> call.result,
             ofs |-> call.ofs, done |-> call.done, err |-> call.err]
  /\ io = [state |-> io.state, appl |-> io.appl, hw |-> io.hw, lastHw |-> io.lastHw]

(* What holds of every slave, and is enough to prepare again.              *)
Basics ==
  /\ slave \in Slaves /\ prepares \in Nat /\ env \in Modes
  /\ Recorded /\ (Idle => call = NoCall) /\ (call.pc = "pending" => call.next \in Nexts)
  /\ IF slave.state = "open" THEN Sound /\ Idle /\ io.state = "open"
     ELSE slave.size > 0 /\ slave.threshold > 0 /\ io.state # "open"

IInv == Basics /\ (Sound => Flow /\ Unstarted)

-----------------------------------------------------------------------------
(* Remainders by a frame or a buffer.                                      *)
LEMMA ModRange ==
  ASSUME NEW M \in Nat \ {0}, NEW a \in Int
  PROVE  a % M \in 0 .. M - 1
OBVIOUS

LEMMA ModUnique ==
  ASSUME NEW M \in Nat \ {0}, NEW q \in Int, NEW r \in 0 .. M - 1, NEW a \in Int, a = M * q + r
  PROVE  a % M = r
OBVIOUS

LEMMA ModQuotient ==
  ASSUME NEW M \in Nat \ {0}, NEW a \in Int
  PROVE  \E q \in Int : a = (M * q) + (a % M)
<1>1. a = (M * (a \div M)) + (a % M) /\ a \div M \in Int
  OBVIOUS
<1> QED BY <1>1

LEMMA ModSame ==
  ASSUME NEW M \in Nat \ {0}, NEW a \in Int, NEW k \in Int
  PROVE  (a + (M * k)) % M = a % M
<1>1. PICK q \in Int : a = (M * q) + (a % M)
  <2>1. M \in Nat \ {0} /\ a \in Int
    OBVIOUS
  <2> QED BY ONLY <2>1, ModQuotient, Zenon
<1>2. a % M \in 0 .. M - 1
  BY ModRange
<1>3. a + (M * k) = (M * (q + k)) + (a % M) /\ q + k \in Int /\ a + (M * k) \in Int
  <2> DEFINE r == a % M
  <2>1. a = M * q + r /\ r \in Int
    BY <1>1, <1>2
  <2> HIDE DEF r
  <2>2. a + (M * k) = (M * (q + k)) + r
    BY <2>1
  <2>3. q + k \in Int /\ a + (M * k) \in Int
    OBVIOUS
  <2> QED BY <2>2, <2>3 DEF r
<1> DEFINE b == a + (M * k)
           r == a % M
           n == q + k
<1>4. b \in Int /\ n \in Int /\ r \in 0 .. M - 1 /\ b = (M * n) + r
  BY <1>2, <1>3
<1> HIDE DEF b, r, n
<1>5. b % M = r
  BY <1>4, ModUnique
<1> QED BY <1>5 DEF b, r

LEMMA ModSmall ==
  ASSUME NEW M \in Nat \ {0}, NEW r \in 0 .. M - 1
  PROVE  r % M = r
OBVIOUS

(* Remainders of what is known up to multiples.                            *)
LEMMA ModFrom ==
  ASSUME NEW M \in Nat \ {0}, NEW a \in Int, NEW r \in 0 .. M - 1, NEW k \in Int,
         a = r + (M * k)
  PROVE  a % M = r
<1>1. r \in Int
  OBVIOUS
<1>2. (r + (M * k)) % M = r % M
  BY <1>1, ModSame, Zenon
<1>3. r % M = r
  BY ModSmall, Zenon
<1> QED BY <1>2, <1>3, Zenon

LEMMA ModAdd ==
  ASSUME NEW M \in Nat \ {0}, NEW a \in Nat, NEW s \in Nat, (a % M) + s <= M
  PROVE  (a + s) % M = IF (a % M) + s = M THEN 0 ELSE (a % M) + s
<1>1. PICK q \in Int : a = (M * q) + (a % M)
  <2>1. M \in Nat \ {0} /\ a \in Int
    OBVIOUS
  <2> QED BY ONLY <2>1, ModQuotient, Zenon
<1> DEFINE r == a % M
<1>2. r \in 0 .. M - 1 /\ a = (M * q) + r /\ r + s <= M
  BY <1>1, ModRange
<1> HIDE DEF r
<1>3. CASE r + s = M
  <2>1. a + s = 0 + (M * (q + 1)) /\ q + 1 \in Int /\ 0 \in 0 .. M - 1 /\ a + s \in Int
    BY <1>2, <1>3
  <2>2. (a + s) % M = 0
    BY <2>1, ModFrom
  <2> QED BY <1>3, <2>2 DEF r
<1>4. CASE r + s # M
  <2>1. a + s = (r + s) + (M * q) /\ r + s \in 0 .. M - 1 /\ a + s \in Int
    BY <1>2, <1>4
  <2>2. (a + s) % M = r + s
    BY <2>1, ModFrom
  <2> QED BY <1>4, <2>2 DEF r
<1> QED BY <1>3, <1>4

LEMMA ModSum ==
  ASSUME NEW M \in Nat \ {0}, NEW a \in Nat, NEW b \in Nat, a % M = 0, b % M = 0
  PROVE  (a + b) % M = 0
<1>1. PICK q \in Int : b = (M * q) + (b % M)
  <2>1. M \in Nat \ {0} /\ b \in Int
    OBVIOUS
  <2> QED BY ONLY <2>1, ModQuotient, Zenon
<1>2. a + b = a + (M * q)
  BY <1>1
<1>3. a \in Int
  OBVIOUS
<1>4. (a + (M * q)) % M = a % M
  BY <1>3, ModSame, Zenon
<1> QED BY <1>2, <1>4, Zenon

LEMMA ModMinus ==
  ASSUME NEW M \in Nat \ {0}, NEW a \in Nat
  PROVE  (-a) % M = IF a % M = 0 THEN 0 ELSE M - (a % M)
<1>1. PICK q \in Int : a = (M * q) + (a % M)
  <2>1. M \in Nat \ {0} /\ a \in Int
    OBVIOUS
  <2> QED BY ONLY <2>1, ModQuotient, Zenon
<1> DEFINE r == a % M
<1>2. r \in 0 .. M - 1 /\ a = (M * q) + r
  BY <1>1, ModRange
<1> HIDE DEF r
<1>3. CASE r = 0
  <2>1. -a = 0 + (M * (-q)) /\ -q \in Int /\ 0 \in 0 .. M - 1 /\ -a \in Int
    BY <1>2, <1>3
  <2>2. (-a) % M = 0
    BY <2>1, ModFrom
  <2> QED BY <1>3, <2>2 DEF r
<1>4. CASE r # 0
  <2>1. -a = (M - r) + (M * (-q - 1)) /\ -q - 1 \in Int /\ M - r \in 0 .. M - 1 /\ -a \in Int
    BY <1>2, <1>4
  <2>2. (-a) % M = M - r
    BY <2>1, ModFrom
  <2> QED BY <1>4, <2>2 DEF r
<1> QED BY <1>3, <1>4

LEMMA ModRound ==
  ASSUME NEW M \in Nat \ {0}, NEW a \in Nat
  PROVE  (a + M) % M = a % M
<1>1. a + M = a + (M * 1)
  OBVIOUS
<1>2. a \in Int /\ 1 \in Int
  OBVIOUS
<1>3. (a + (M * 1)) % M = a % M
  BY <1>2, ModSame, Zenon
<1> QED BY <1>1, <1>3, Zenon

(* The way from one remainder to the next never leads past the number.     *)
Ahead(M, r, s) == IF s >= r THEN s - r ELSE (M + s) - r

LEMMA ModAhead ==
  ASSUME NEW M \in Nat \ {0}, NEW h \in Nat, NEW p \in Nat, h <= p
  PROVE  /\ h + Ahead(M, h % M, p % M) <= p /\ h + Ahead(M, h % M, p % M) \in Nat
         /\ (h + Ahead(M, h % M, p % M)) % M = p % M
<1> DEFINE r == h % M
           s == p % M
           d == Ahead(M, r, s)
<1>1. PICK q \in Int : h = (M * q) + r
  <2>1. M \in Nat \ {0} /\ h \in Int
    OBVIOUS
  <2> QED BY <2>1, ModQuotient, Zenon
<1>2. PICK k \in Int : p = (M * k) + s
  <2>1. M \in Nat \ {0} /\ p \in Int
    OBVIOUS
  <2> QED BY <2>1, ModQuotient, Zenon
<1>3. r \in 0 .. M - 1 /\ s \in 0 .. M - 1
  BY ModRange
<1>4. (s >= r => d = s - r) /\ (s < r => d = (M + s) - r)
  <2> HIDE DEF r, s
  <2> QED BY <1>3 DEF Ahead
<1> HIDE DEF r, s, d
<1>5. q <= k
  <2>1. SUFFICES ASSUME q >= k + 1 PROVE FALSE
    OBVIOUS
  <2>2. M * q >= M * (k + 1)
    BY <2>1
  <2> QED BY <1>1, <1>2, <1>3, <2>2
<1>6. CASE s >= r
  <2>1. h + d = s + (M * q) /\ h + d \in Int /\ h + d >= h
    BY <1>1, <1>3, <1>4, <1>6
  <2>2. (h + d) % M = s
    BY <1>3, <2>1, ModFrom
  <2>3. M * q <= M * k
    BY <1>5
  <2> QED BY <1>1, <1>2, <1>3, <1>6, <2>1, <2>2, <2>3 DEF r, s, d
<1>7. CASE s < r
  <2>1. h + d = s + (M * (q + 1)) /\ q + 1 \in Int /\ h + d \in Int /\ h + d >= h
    BY <1>1, <1>3, <1>4, <1>7
  <2>2. (h + d) % M = s
    BY <1>3, <2>1, ModFrom
  <2>3. q # k
    BY <1>1, <1>2, <1>3, <1>7
  <2>4. M * (q + 1) <= M * k
    BY <1>5, <2>3
  <2> QED BY <1>1, <1>2, <1>3, <1>7, <2>1, <2>2, <2>4 DEF r, s, d
<1> QED BY <1>3, <1>6, <1>7

-----------------------------------------------------------------------------
(* The records the program keeps, field by field.                          *)
LEMMA CallFields ==
  ASSUME NEW c \in Calls
  PROVE  /\ c.pc \in Labels /\ c.next \in Nexts \cup {"idle"} /\ c.err \in Errors
         /\ c.left \in Nat /\ c.result \in Nat /\ c.ofs \in Nat /\ c.done \in Nat
BY DEF Calls

LEMMA NoCallFields ==
  /\ NoCall \in Calls /\ NoCall.pc = "idle" /\ NoCall.err = "none"
  /\ NoCall.left = 0 /\ NoCall.result = 0 /\ NoCall.ofs = 0 /\ NoCall.done = 0
BY DEF Calls, NoCall, Labels, Nexts, Errors

LEMMA IoFields ==
  ASSUME NEW s \in Streams
  PROVE  s.state \in PcmStates /\ s.appl \in Nat /\ s.hw \in Nat /\ s.lastHw \in 0 .. BufferSize
BY DEF Streams

LEMMA SlaveFields ==
  ASSUME NEW s \in Slaves
  PROVE  /\ s.state \in PcmStates \cup {"draining"}
         /\ s.size \in Nat /\ s.threshold \in Nat /\ s.played \in Nat
BY DEF Slaves

LEMMA Sizes == FrameSize \in Nat \ {0} /\ BufferSize \in Nat \ {0}
BY A52Sizes

(* The pointer, and what alsa-lib's copy of it becomes.                    *)
LEMMA PointerTyped ==
  ASSUME Typed
  PROVE  Pointer \in 0 .. BufferSize - 1 /\ Queued \in Int
<1>1. /\ io.appl \in Nat /\ slave.size \in Nat /\ slave.played \in Nat /\ Len(received) \in Nat
  BY IoFields, SlaveFields DEF Typed
<1>2. Queued \in Int
  BY <1>1 DEF Queued
<1>3. ASSUME NEW d \in Int PROVE Behind(d) \in 0 .. BufferSize - 1
  <2> DEFINE a == io.appl - (IF d >= slave.size THEN 0 ELSE d)
             b == IF a < 0 THEN a + BufferSize ELSE a
             x == IF b < 0 THEN 0 ELSE b
  <2>1. x \in Int
    BY <1>1, Sizes
  <2>2. Behind(d) = x % BufferSize
    BY DEF Behind
  <2> HIDE DEF x
  <2> QED BY <2>1, <2>2, Sizes, ModRange
<1> QED BY <1>2, <1>3, Sizes DEF Pointer, NonePlayed

LEMMA UpdatedTyped ==
  ASSUME Typed
  PROVE  /\ Updated \in Streams /\ Updated.appl = io.appl
         /\ slave.state = "xrun" =>
              Updated.state = "xrun" /\ Updated.hw = io.hw /\ Updated.lastHw = io.lastHw
         /\ slave.state # "xrun" =>
              /\ Updated.state = io.state /\ Updated.lastHw = Pointer
              /\ Updated.hw = io.hw + (IF Pointer >= io.lastHw THEN Pointer - io.lastHw
                                       ELSE BufferSize + Pointer - io.lastHw)
<1>1. Pointer \in 0 .. BufferSize - 1
  BY PointerTyped
<1>2. io \in Streams /\ io.lastHw \in 0 .. BufferSize /\ io.hw \in Nat
  BY IoFields DEF Typed
<1>3. CASE slave.state = "xrun"
  BY <1>2, <1>3 DEF Updated, Streams, PcmStates
<1>4. CASE slave.state # "xrun"
  <2> DEFINE d == IF Pointer >= io.lastHw THEN Pointer - io.lastHw
                  ELSE BufferSize + Pointer - io.lastHw
  <2>1. Updated = [io EXCEPT !.lastHw = Pointer, !.hw = io.hw + d]
    <3>1. Updated = [io EXCEPT !.lastHw = Pointer, !.hw = @ + d]
      BY <1>4, Zenon DEF Updated
    <3> HIDE DEF d
    <3> QED BY <1>2, <3>1 DEF Streams
  <2>2. io.hw + d \in Nat /\ Pointer \in 0 .. BufferSize
    BY <1>1, <1>2, Sizes
  <2> HIDE DEF d
  <2>3. Updated \in Streams
    BY <1>2, <2>1, <2>2 DEF Streams
  <2>4. /\ Updated.state = io.state /\ Updated.appl = io.appl /\ Updated.lastHw = Pointer
        /\ Updated.hw = io.hw + d
    BY <1>2, <2>1 DEF Streams
  <2> QED BY <1>4, <2>3, <2>4 DEF d
<1> QED BY <1>3, <1>4

(* The units a write of the slave takes out of outbuf.                     *)
LEMMA FromTyped ==
  ASSUME Typed, Len(outbuf) = FrameSize, NEW o \in Nat, NEW n \in Nat
  PROVE  /\ From(o, n) \in Seq(Int) /\ Len(From(o, n)) = n
         /\ \A i \in 1 .. n : From(o, n)[i] = IF o + i <= FrameSize THEN outbuf[o + i] ELSE -1
<1> DEFINE v(i) == IF o + i <= FrameSize THEN outbuf[o + i] ELSE -1
<1>1. \A i \in 1 .. n : v(i) \in Int
  BY Sizes DEF Typed
<1>2. From(o, n) = [i \in 1 .. n |-> v(i)]
  BY DEF From
<1> HIDE DEF v
<1>3. From(o, n) \in Seq(Int) /\ Len(From(o, n)) = n /\ \A i \in 1 .. n : From(o, n)[i] = v(i)
  BY <1>1, <1>2
<1> QED BY <1>3 DEF v

LEMMA Joined ==
  ASSUME NEW a \in Seq(Int), NEW b \in Seq(Int)
  PROVE  /\ a \o b \in Seq(Int) /\ Len(a \o b) = Len(a) + Len(b)
         /\ \A i \in 1 .. Len(a) : (a \o b)[i] = a[i]
         /\ \A i \in 1 .. Len(b) : (a \o b)[Len(a) + i] = b[i]
OBVIOUS

-----------------------------------------------------------------------------
LEMMA InitFlow == Init => Flow
<1> SUFFICES ASSUME Init PROVE Flow  OBVIOUS
<1>0. inbuf = <<>> /\ outbuf = <<>> /\ received = <<>> /\ call = NoCall /\ env \in Modes
  BY A52Sizes DEF Init, Modes
<1>1. Typed
  <2>1. io \in Streams /\ slave \in Slaves /\ call \in Calls
    BY NoCallFields, Sizes DEF Init, Streams, Slaves, PcmStates
  <2>2. inbuf \in Seq(Int) /\ outbuf \in Seq(Int) /\ received \in Seq(Int)
    BY <1>0
  <2> QED BY <1>0, <2>1, <2>2 DEF Init, Typed
<1>2. Course
  BY <1>0, NoCallFields DEF Init, Course, Idle, At, PendingFailed, filled
<1>3. States
  BY <1>0, NoCallFields DEF Init, States, Idle, PendingFailed
<1>4. Len(received) = 0 /\ filled = 0 /\ Queued = 0 /\ Accepted = 0
  BY <1>0, NoCallFields DEF Init, Queued, filled, Accepted
<1>5. Counted
  <2>1. 0 % FrameSize = 0
    BY Sizes
  <2> QED BY <1>0, <1>4, <2>1, Sizes, NoCallFields DEF Init, Counted, Silence
<1>6. Ordered /\ Pointed
  BY <1>0, <1>4 DEF Init, Ordered, Pointed, Live
<1> QED BY <1>1, <1>2, <1>3, <1>5, <1>6 DEF Flow

(* Steps that move no units leave the counts and the order as they are.    *)
LEMMA QuietStep ==
  ASSUME Flow, UNCHANGED <<encoder, received, padded, env>>, slave'.size = slave.size,
         slave'.played = slave.played, Accepted' = Accepted, call'.done = call.done, Live' => Live,
         env.block => UNCHANGED call \/ call.pc # "pending" \/ slave.state = "xrun"
  PROVE  Counted' /\ Ordered'
<1>1. Counted /\ Ordered
  BY DEF Flow
<1>2. Counted'
  BY <1>1 DEF Counted, Queued, filled, Silence, encoder
<1>3. Ordered'
  <2>1. ASSUME env.block, Live, remain > 0 PROVE UNCHANGED call
    BY <1>1, <2>1 DEF Ordered, Live
  <2> QED BY <1>1, <2>1 DEF Ordered, Unit, filled, encoder
<1> QED BY <1>2, <1>3

(* Between calls that transfer whole frames, nothing is left in the two    *)
(* buffers, so that the pointer is what the slave has played.              *)
LEMMA PointerIsPlayed ==
  ASSUME Flow, Idle, env.block, env.whole, slave.size = BufferSize,
         io.state \in {"prepared", "running"}, Live
  PROVE  /\ Len(received) = io.appl /\ Updated.hw <= slave.played
         /\ Updated.lastHw = Updated.hw % BufferSize
<1>0. /\ Typed /\ Course /\ States /\ Counted /\ Ordered /\ Pointed
      /\ BufferSize \in Nat \ {0} /\ FrameSize \in Nat \ {0}
  BY Sizes DEF Flow
<1>1. call = NoCall /\ call.result = 0 /\ call.left = 0 /\ call.done = 0 /\ call.pc = "idle"
  BY <1>0, NoCallFields DEF Course, Idle
<1>2. /\ io.appl \in Nat /\ io.hw \in Nat /\ io.lastHw \in 0 .. BufferSize
      /\ slave.size \in Nat /\ slave.played \in Nat /\ Len(received) \in Nat /\ remain \in Nat
      /\ filled \in Nat
  BY <1>0, IoFields, SlaveFields DEF Typed, filled
<1>3. remain = 0 /\ ~padded
  BY <1>0, <1>1, <1>2 DEF Ordered, States
<1>4. filled = 0
  <2>1. Accepted = io.appl /\ io.appl + call.result + call.left = io.appl
    BY <1>1, <1>2 DEF Accepted
  <2> QED BY <1>0, <1>3, <2>1 DEF Counted, Pointed
<1>5. Len(received) = io.appl
  BY <1>0, <1>1, <1>2, <1>3, <1>4 DEF Counted, Accepted, Silence
<1>6. io.hw <= slave.played /\ io.lastHw = io.hw % BufferSize
  BY <1>0 DEF Pointed
<1>7. Pointer = slave.played % BufferSize
  <2>1. CASE slave.state = "prepared"
    <3>1. slave.played = 0 /\ 0 % BufferSize = 0
      BY <1>0, <2>1, ModSmall DEF States
    <3> QED BY <2>1, <3>1 DEF Pointer, NonePlayed
  <2>2. CASE slave.state = "running"
    <3> DEFINE x == IF Queued >= slave.size THEN io.appl ELSE slave.played
    <3>1. /\ Queued = io.appl - slave.played /\ Queued <= BufferSize
          /\ slave.played <= io.appl /\ x \in Nat
      BY <1>0, <1>2, <1>5 DEF Counted, Queued
    <3>2. Behind(Queued) = x % BufferSize
      BY <1>2, <3>1 DEF Behind
    <3>3. x = slave.played \/ x = slave.played + BufferSize
      BY <1>2, <3>1
    <3> HIDE DEF x
    <3>4. (slave.played + BufferSize) % BufferSize = slave.played % BufferSize
      BY <1>0, <1>2, ModRound, Zenon
    <3>5. x % BufferSize = slave.played % BufferSize
      BY <3>3, <3>4, Zenon
    <3> QED BY <2>2, <3>2, <3>5 DEF Pointer
  <2> QED BY <2>1, <2>2 DEF Live
<1>8. Updated.lastHw = Pointer /\ Updated.hw = io.hw + Ahead(BufferSize, io.lastHw, Pointer)
  <2>1. /\ Updated.lastHw = Pointer /\ io.lastHw \in Int /\ Pointer \in Int
        /\ Updated.hw = io.hw + (IF Pointer >= io.lastHw THEN Pointer - io.lastHw
                                ELSE BufferSize + Pointer - io.lastHw)
    BY <1>0, <1>2, UpdatedTyped, PointerTyped DEF Live
  <2> QED BY <1>0, <2>1 DEF Ahead
<1>9. /\ io.hw + Ahead(BufferSize, io.hw % BufferSize, slave.played % BufferSize) <= slave.played
      /\ (io.hw + Ahead(BufferSize, io.hw % BufferSize, slave.played % BufferSize)) % BufferSize
           = slave.played % BufferSize
  <2>1. /\ BufferSize \in Nat \ {0} /\ io.hw \in Nat /\ slave.played \in Nat
        /\ io.hw <= slave.played
    BY <1>0, <1>2, <1>6
  <2> QED BY ONLY <2>1, ModAhead, Zenon
<1>10. Updated.hw <= slave.played /\ Updated.hw % BufferSize = slave.played % BufferSize
  BY <1>6, <1>7, <1>8, <1>9, Zenon
<1> QED BY <1>5, <1>7, <1>8, <1>10

LEMMA HwPtrUpdateInv == Flow /\ HwPtrUpdate => Flow'
<1> SUFFICES ASSUME Flow, HwPtrUpdate PROVE Flow'  OBVIOUS
<1>0. /\ Typed /\ Course /\ States /\ Pointed
      /\ Idle /\ io.state \in {"prepared", "running"} /\ io' = Updated
      /\ UNCHANGED <<encoder, slave, received, call, history>>
  BY DEF Flow, HwPtrUpdate
<1>1. /\ io' \in Streams /\ io'.appl = io.appl
      /\ slave.state = "xrun" => io'.state = "xrun"
      /\ slave.state # "xrun" => io'.state = io.state
  BY <1>0, UpdatedTyped
<1>2. Typed'
  BY <1>0, <1>1 DEF Typed, encoder, history
<1>3. Course'
  BY <1>0 DEF Course, Idle, At, PendingFailed, filled, encoder, history
<1>4. call = NoCall
  BY <1>0 DEF Course
<1>5. States'
  BY <1>0, <1>1, <1>4, NoCallFields DEF States, Idle, PendingFailed, Accepted, history
<1>6. Counted' /\ Ordered'
  BY <1>0, <1>1, QuietStep DEF Accepted, Live, history
<1>7. Pointed'
  <2> SUFFICES ASSUME env.block, env.whole, io'.state \in {"prepared", "running"}
               PROVE  /\ (io.appl + call.result + call.left) % FrameSize = 0
                      /\ slave.size = BufferSize =>
                           io'.hw <= slave.played /\ io'.lastHw = io'.hw % BufferSize
    BY <1>0, <1>1 DEF Pointed, history
  <2>1. slave.state # "xrun"
    BY <1>1
  <2>2. Live
    BY <1>0, <2>1 DEF States, Live
  <2> QED BY <1>0, <2>2, PointerIsPlayed DEF Pointed
<1> QED BY <1>2, <1>3, <1>5, <1>6, <1>7 DEF Flow

(* The types the steps' proofs need, and what a step that is not pending   *)
(* moves on to.                                                            *)
LEMMA Fields ==
  ASSUME Flow
  PROVE  /\ Typed /\ Course /\ States /\ Counted /\ Ordered /\ Pointed
         /\ FrameSize \in Nat \ {0} /\ BufferSize \in Nat \ {0}
         /\ io.appl \in Nat /\ io.hw \in Nat /\ io.lastHw \in 0 .. BufferSize
         /\ io.state \in PcmStates /\ slave.state \in PcmStates \cup {"draining"}
         /\ slave.size \in Nat /\ slave.threshold \in Nat /\ slave.played \in Nat
         /\ call.left \in Nat /\ call.result \in Nat /\ call.ofs \in Nat /\ call.done \in Nat
         /\ call.pc \in Labels /\ call.next \in Nexts \cup {"idle"} /\ call.err \in Errors
         /\ remain \in Nat /\ filled \in Nat /\ Len(received) \in Nat
         /\ Queued \in Int /\ Accepted \in Nat
<1>1. Typed /\ Course /\ States /\ Counted /\ Ordered /\ Pointed
  BY DEF Flow
<1>2. /\ io.appl \in Nat /\ io.hw \in Nat /\ io.lastHw \in 0 .. BufferSize
      /\ io.state \in PcmStates
  BY <1>1, IoFields DEF Typed
<1>3. /\ slave.state \in PcmStates \cup {"draining"}
      /\ slave.size \in Nat /\ slave.threshold \in Nat /\ slave.played \in Nat
  BY <1>1, SlaveFields DEF Typed
<1>4. /\ call.left \in Nat /\ call.result \in Nat /\ call.ofs \in Nat /\ call.done \in Nat
      /\ call.pc \in Labels /\ call.next \in Nexts \cup {"idle"} /\ call.err \in Errors
  BY <1>1, CallFields DEF Typed
<1>5. remain \in Nat /\ filled \in Nat /\ Len(received) \in Nat
  BY <1>1 DEF Typed, filled
<1>6. Queued \in Int
  BY <1>3, <1>5 DEF Queued
<1>7. Accepted \in Nat
  BY <1>2, <1>4 DEF Accepted
<1> QED BY <1>1, <1>2, <1>3, <1>4, <1>5, <1>6, <1>7, Sizes, Zenon

(* The numbers of a state, and what relates them.                          *)
Numbers ==
  /\ FrameSize \in Nat \ {0} /\ slave.size \in Nat /\ slave.played \in Nat
  /\ call.left \in Nat /\ call.result \in Nat /\ call.ofs \in Nat /\ call.done \in Nat
  /\ remain \in Nat /\ filled \in Nat /\ Len(received) \in Nat
  /\ Queued \in Int /\ Queued = Len(received) - slave.played
  /\ Room \in Int /\ Room = slave.size - Queued
  /\ Accepted \in Nat /\ Silence \in Nat
  /\ Len(received) + (remain - call.done) + filled = Accepted + Silence
  /\ slave.played <= Len(received) /\ Queued <= slave.size /\ filled < FrameSize

LEMMA NumbersHold == Flow => Numbers
<1> SUFFICES ASSUME Flow PROVE Numbers  OBVIOUS
<1>1. /\ FrameSize \in Nat \ {0} /\ slave.size \in Nat /\ slave.played \in Nat
      /\ call.left \in Nat /\ call.result \in Nat /\ call.ofs \in Nat /\ call.done \in Nat
      /\ remain \in Nat /\ filled \in Nat /\ Len(received) \in Nat
      /\ Queued \in Int /\ Accepted \in Nat
  BY Fields
<1>2. Silence \in Nat
  <2>1. (-Accepted) % FrameSize \in 0 .. FrameSize - 1
    BY <1>1, ModRange
  <2> QED BY <1>1, <2>1 DEF Silence
<1>3. Room \in Int
  BY <1>1 DEF Room
<1>4. Counted
  BY Fields
<1> QED BY <1>1, <1>2, <1>3, <1>4 DEF Counted, Queued, Room, Numbers

LEMMA DrainInv == Flow /\ Drain => Flow'
<1> SUFFICES ASSUME Flow, Drain PROVE Flow'  OBVIOUS
<1>0. /\ Idle /\ io.state \in {"prepared", "running", "xrun"}
      /\ UNCHANGED <<io, encoder, slave, received, history>>
      /\ call' = [NoCall EXCEPT !.pc = IF remain > 0 THEN "pending" ELSE ToDrain, !.next = ToDrain]
  BY DEF Drain
<1>1. call = NoCall /\ call.pc = "idle"
  BY <1>0, Fields DEF Course, Idle
<1>2. /\ call' \in Calls /\ call'.pc = (IF remain > 0 THEN "pending" ELSE ToDrain)
      /\ call'.next = ToDrain /\ call'.err = "none"
      /\ call'.left = 0 /\ call'.result = 0 /\ call'.ofs = 0 /\ call'.done = 0
  BY <1>0 DEF NoCall, Calls, ToDrain, Labels, Nexts, Errors
<1>3. Typed'
  BY <1>0, <1>2, Fields DEF Typed, encoder, history
<1>4. Course'
  <2>1. IF filled > 0 THEN ToDrain = "convert" /\ ~padded ELSE ToDrain = "last" /\ filled = 0
    <3>1. filled \in Nat /\ (padded => filled = 0)
      BY Fields DEF Counted
    <3> QED BY <3>1 DEF ToDrain
  <2>2. remain \in Nat /\ (remain > 0 => Len(outbuf) = FrameSize)
    BY Fields DEF Course
  <2>3. UNCHANGED <<remain, outbuf, padded, env>> /\ filled' = filled
    BY <1>0 DEF filled, encoder, history
  <2> QED BY <1>2, <2>1, <2>2, <2>3 DEF Course, Idle, At, PendingFailed, Nexts
<1>5. States'
  BY <1>0, <1>1, <1>2, NoCallFields, Fields
     DEF States, Idle, PendingFailed, Accepted, history, ToDrain
<1>6. Counted' /\ Ordered'
  BY <1>0, <1>1, <1>2, NoCallFields, QuietStep DEF Accepted, Live, history
<1>7. Pointed'
  BY <1>0, <1>1, <1>2, NoCallFields, Fields DEF Pointed, history
<1> QED BY <1>3, <1>4, <1>5, <1>6, <1>7 DEF Flow

LEMMA TransferInv == Flow /\ Transfer => Flow'
<1> SUFFICES ASSUME Flow, Transfer PROVE Flow'  OBVIOUS
<1>0. /\ Idle /\ io.state \in {"prepared", "running"} /\ io' = Updated
      /\ UNCHANGED <<encoder, slave, received, history>>
  BY DEF Transfer
<1>1. CASE Updated.state = "xrun"
  <2>1. HwPtrUpdate
    BY <1>0, <1>1 DEF Transfer, HwPtrUpdate
  <2> QED BY <2>1, HwPtrUpdateInv
<1>2. CASE Updated.state # "xrun"
  <2>1. PICK n \in 1 .. Avail :
          /\ env.whole => n % FrameSize = 0
          /\ call' = [NoCall EXCEPT !.pc = IF remain > 0 THEN "pending" ELSE "fill",
                                    !.next = "fill", !.left = n]
    BY <1>2 DEF Transfer
  <2>2. n \in Nat
    OBVIOUS
  <2>3. call = NoCall /\ call.pc = "idle" /\ call.result = 0 /\ call.left = 0 /\ call.done = 0
    BY <1>0, Fields, NoCallFields DEF Course, Idle
  <2>4. /\ call' \in Calls /\ call'.pc = (IF remain > 0 THEN "pending" ELSE "fill")
        /\ call'.next = "fill" /\ call'.err = "none"
        /\ call'.left = n /\ call'.result = 0 /\ call'.ofs = 0 /\ call'.done = 0
    BY <2>1, <2>2 DEF NoCall, Calls, Labels, Nexts, Errors
  <2>5. /\ io' \in Streams /\ io'.appl = io.appl /\ io'.state = io.state
        /\ slave.state # "xrun"
    BY <1>0, <1>2, Fields, UpdatedTyped
  <2>6. Typed'
    BY <1>0, <2>4, <2>5, Fields DEF Typed, encoder, history
  <2>7. Course'
    BY <1>0, <2>3, <2>4, Fields
       DEF Course, States, Idle, At, PendingFailed, filled, encoder, history, Nexts
  <2>8. States'
    BY <1>0, <2>3, <2>4, <2>5, Fields DEF States, Idle, PendingFailed, Accepted, history
  <2>9. Counted' /\ Ordered'
    BY <1>0, <2>3, <2>4, <2>5, QuietStep DEF Accepted, Live, history
  <2>10. Pointed'
    <3> SUFFICES ASSUME env.block, env.whole, io.state \in {"prepared", "running"}
                 PROVE  /\ (io.appl + 0 + n) % FrameSize = 0
                        /\ slave.size = BufferSize =>
                             io'.hw <= slave.played /\ io'.lastHw = io'.hw % BufferSize
      BY <1>0, <2>4, <2>5 DEF Pointed, history
    <3>1. Live
      BY <1>0, <2>5, Fields DEF States, Live
    <3>2. (io.appl + call.result + call.left) % FrameSize = 0
      BY Fields DEF Pointed
    <3>3. io.appl + call.result + call.left = io.appl /\ io.appl + 0 + n = io.appl + n
      <4>1. io.appl \in Nat
        BY Fields
      <4> QED BY <2>2, <2>3, <4>1
    <3>4. io.appl % FrameSize = 0 /\ n % FrameSize = 0
      BY <2>1, <3>2, <3>3
    <3>5. (io.appl + n) % FrameSize = 0
      BY <2>2, <3>4, Fields, ModSum
    <3> QED BY <1>0, <3>1, <3>3, <3>5, PointerIsPlayed
  <2> QED BY <2>6, <2>7, <2>8, <2>9, <2>10 DEF Flow
<1> QED BY <1>1, <1>2

(* What a start of the slave leaves as it is.                              *)
LEMMA StartKeeps ==
  ASSUME Typed, NEW n \in Int,
         slave' \in {slave, Started(slave, n), SlaveStart(slave)}
  PROVE  /\ slave' \in Slaves /\ slave'.size = slave.size /\ slave'.played = slave.played
         /\ slave'.state = slave.state
              \/ (slave.state = "prepared" /\ slave'.state = "running")
BY DEF Typed, Slaves, Started, SlaveStart, PcmStates

LEMMA StartInv == Flow /\ Start => Flow'
<1> SUFFICES ASSUME Flow, Start PROVE Flow'  OBVIOUS
<1>0. /\ Idle /\ io.state = "prepared" /\ io' = [io EXCEPT !.state = "running"]
      /\ slave' = SlaveStart(slave) /\ UNCHANGED <<encoder, received, call, history>>
  BY DEF Start
<1>1. /\ slave' \in Slaves /\ slave'.size = slave.size /\ slave'.played = slave.played
      /\ slave'.state = slave.state \/ (slave.state = "prepared" /\ slave'.state = "running")
  <2>1. 0 \in Int
    OBVIOUS
  <2> QED BY <1>0, <2>1, StartKeeps, Fields
<1>2. /\ io' \in Streams /\ io'.state = "running" /\ io'.appl = io.appl /\ io'.hw = io.hw
      /\ io'.lastHw = io.lastHw
  BY <1>0, Fields DEF Typed, Streams, PcmStates
<1>3. Typed'
  BY <1>0, <1>1, <1>2, Fields DEF Typed, encoder, history
<1>4. Course'
  BY <1>0, Fields DEF Course, Idle, At, PendingFailed, filled, encoder, history
<1>5. call.err = "none"
  BY <1>0, Fields, NoCallFields DEF Course
<1>6. States'
  BY <1>0, <1>1, <1>2, <1>5, Fields DEF States, Idle, PendingFailed, Accepted, history
<1>7. Counted' /\ Ordered'
  BY <1>0, <1>1, <1>2, QuietStep DEF Accepted, Live, history
<1>8. Pointed'
  BY <1>0, <1>1, <1>2, Fields DEF Pointed, history
<1> QED BY <1>3, <1>4, <1>6, <1>7, <1>8 DEF Flow

LEMMA StopInv == Flow /\ Stop => Flow'
<1> SUFFICES ASSUME Flow, Stop PROVE Flow'  OBVIOUS
<1>0. /\ Idle \/ call.pc = "stop"
      /\ io' = [io EXCEPT !.state = "setup"] /\ slave' = [slave EXCEPT !.state = "setup"]
      /\ call' = NoCall /\ UNCHANGED <<encoder, received, history>>
      /\ Idle => io.state # "open"
  BY DEF Stop, Idle
<1>1. call.pc # "pending" /\ call.result = 0 /\ call.done = 0
  BY <1>0, Fields, NoCallFields DEF Course, Idle, At
<1>2. /\ slave' \in Slaves /\ slave'.size = slave.size /\ slave'.played = slave.played
      /\ slave'.state = "setup"
  BY <1>0, Fields DEF Typed, Slaves, PcmStates
<1>3. io' \in Streams /\ io'.state = "setup" /\ io'.appl = io.appl
  BY <1>0, Fields DEF Typed, Streams, PcmStates
<1>4. Typed'
  BY <1>0, <1>2, <1>3, NoCallFields, Fields DEF Typed, encoder, history
<1>5. Course'
  BY <1>0, <1>1, NoCallFields, Fields DEF Course, Idle, At, PendingFailed, filled, encoder, history
<1>6. States'
  BY <1>0, <1>1, <1>2, <1>3, NoCallFields, Fields DEF States, Idle, PendingFailed, Accepted, history
<1>7. Counted' /\ Ordered'
  BY <1>0, <1>1, <1>2, <1>3, NoCallFields, QuietStep DEF Accepted, Live, history
<1>8. Pointed'
  BY <1>3 DEF Pointed
<1> QED BY <1>4, <1>5, <1>6, <1>7, <1>8 DEF Flow

(* A write that returns goes on at the label its caller gave it.           *)
LEMMA Returned ==
  ASSUME Flow, call.pc = "pending", NEW e \in Errors, call' = Return(e)
  PROVE  /\ call' \in Calls /\ call'.pc = call.next /\ call'.next = call.next
         /\ call'.pc \in Nexts /\ call'.err = e
         /\ call'.left = call.left /\ call'.result = call.result
         /\ call'.ofs = 0 /\ call'.done = 0
<1>1. call \in Calls /\ call.next \in Nexts
  BY Fields DEF Typed, Course
<1> QED BY <1>1 DEF Return, Calls, Nexts, Labels

LEMMA WriteAgainInv == Flow /\ WriteAgain => Flow'
<1> SUFFICES ASSUME Flow, WriteAgain PROVE Flow'  OBVIOUS
<1>0. /\ call.pc = "pending" /\ ~env.block /\ call' = Return("again")
      /\ UNCHANGED <<io, encoder, slave, received, history>>
  BY DEF WriteAgain
<1>1. /\ call' \in Calls /\ call'.pc = call.next /\ call'.next = call.next
      /\ call'.pc \in Nexts /\ call'.err = "again" /\ call'.left = call.left
      /\ call'.result = call.result /\ call'.ofs = 0 /\ call'.done = 0 /\ call.done = 0
  <2>1. "again" \in Errors
    BY DEF Errors
  <2> QED BY <1>0, <2>1, Returned, Fields DEF Course
<1>2. Typed'
  BY <1>0, <1>1, Fields DEF Typed, encoder, history
<1>3. Course'
  BY <1>0, <1>1, Fields DEF Course, Idle, At, PendingFailed, filled, encoder, history, Nexts
<1>4. States'
  BY <1>0, <1>1, Fields DEF States, Idle, PendingFailed, Accepted, history, Nexts
<1>5. Counted' /\ Ordered'
  BY <1>0, <1>1, QuietStep DEF Accepted, Live, history
<1>6. Pointed'
  BY <1>0, <1>1, Fields DEF Pointed, history
<1> QED BY <1>2, <1>3, <1>4, <1>5, <1>6 DEF Flow

(* The end of a transfer, all of it or what had been taken before an error.*)
LEMMA EndsInv ==
  ASSUME Flow, call.pc \in {"fill", "filled"}, Ends(call.result),
         call.left = 0 \/ PendingFailed, UNCHANGED <<encoder, received, history>>
  PROVE  Flow'
<1>1. call' = NoCall /\ call.done = 0
  BY Fields DEF Ends, Course
<1>2. /\ slave' \in Slaves /\ slave'.size = slave.size /\ slave'.played = slave.played
      /\ slave'.state = slave.state \/ (slave.state = "prepared" /\ slave'.state = "running")
  <2>1. 0 \in Int /\ slave' \in {slave, SlaveStart(slave)}
    BY DEF Ends
  <2> QED BY <2>1, StartKeeps, Fields
<1>3. /\ io' \in Streams /\ io'.appl = io.appl + call.result /\ io'.hw = io.hw
      /\ io'.lastHw = io.lastHw
      /\ io'.state = io.state \/ (io.state = "prepared" /\ io'.state = "running")
  <2> DEFINE q == IF /\ io.state = "prepared"
                     /\ io.appl - io.hw + call.result >= slave.threshold
                  THEN "running" ELSE io.state
  <2>1. io' = [io EXCEPT !.appl = io.appl + call.result, !.state = q]
    BY Zenon DEF Ends
  <2>2. q \in PcmStates /\ (q = io.state \/ (io.state = "prepared" /\ q = "running"))
    BY Fields DEF PcmStates
  <2>3. io \in Streams
    BY Fields DEF Typed
  <2>4. io.appl + call.result \in Nat
    BY Fields DEF Accepted
  <2> HIDE DEF q
  <2> QED BY <2>1, <2>2, <2>3, <2>4 DEF Streams
<1>4. io.state \in {"prepared", "running", "xrun"}
  BY Fields DEF States, Idle, PcmStates
<1>5. Typed'
  BY <1>1, <1>2, <1>3, NoCallFields, Fields DEF Typed, encoder, history
<1>6. Course'
  BY <1>1, NoCallFields, Fields DEF Course, Idle, At, PendingFailed, filled, encoder, history
<1>7. States'
  BY <1>1, <1>2, <1>3, <1>4, NoCallFields, Fields
     DEF States, Course, At, Idle, PendingFailed, Accepted, history
<1>8. Accepted' = Accepted
  BY <1>1, <1>3, NoCallFields, Fields DEF Accepted
<1>9. Counted' /\ Ordered'
  BY <1>1, <1>2, <1>8, NoCallFields, QuietStep DEF Live, history
<1>10. Pointed'
  <2> SUFFICES ASSUME env.block, env.whole, io'.state \in {"prepared", "running"}
               PROVE  /\ (io'.appl + 0 + 0) % FrameSize = 0
                      /\ slave.size = BufferSize =>
                           io.hw <= slave.played /\ io.lastHw = io.hw % BufferSize
    BY <1>1, <1>2, <1>3, NoCallFields DEF Pointed, history
  <2>1. io.state \in {"prepared", "running"}
    BY <1>3, <1>4
  <2>2. call.left = 0
    BY <2>1, Fields DEF States
  <2>3. io.appl \in Nat /\ call.result \in Nat
    BY Fields
  <2>4. io'.appl + 0 + 0 = io.appl + call.result + call.left
    BY <1>3, <2>2, <2>3
  <2> QED BY <2>1, <2>4, Fields DEF Pointed
<1> QED BY <1>5, <1>6, <1>7, <1>9, <1>10 DEF Flow

LEMMA FilledInv == Flow /\ Filled => Flow'
<1> SUFFICES ASSUME Flow, Filled PROVE Flow'  OBVIOUS
<1>0. call.pc = "filled" /\ UNCHANGED <<encoder, received, history>>
  BY DEF Filled
<1>1. CASE call.left = 0
  BY <1>0, <1>1, EndsInv DEF Filled
<1>2. CASE call.left # 0
  <2>0. /\ call' = [call EXCEPT !.pc = IF remain > 0 THEN "pending" ELSE "fill",
                               !.next = "fill", !.ofs = 0, !.done = 0, !.err = "none"]
        /\ UNCHANGED <<io, slave>>
    BY <1>2 DEF Filled
  <2>1. /\ call' \in Calls /\ call'.pc = (IF remain > 0 THEN "pending" ELSE "fill")
        /\ call'.next = "fill" /\ call'.err = "none" /\ call'.left = call.left
        /\ call'.result = call.result /\ call'.ofs = 0 /\ call'.done = 0 /\ call.done = 0
    BY <1>0, <2>0, Fields DEF Typed, Course, Calls, Labels, Nexts, Errors
  <2>2. Typed'
    BY <1>0, <2>0, <2>1, Fields DEF Typed, encoder, history
  <2>3. Course'
    BY <1>0, <2>1, Fields
       DEF Course, Idle, At, PendingFailed, filled, encoder, history, Nexts
  <2>4. States'
    BY <1>0, <2>0, <2>1, Fields DEF States, Idle, PendingFailed, Accepted, history
  <2>5. Counted' /\ Ordered'
    BY <1>0, <2>0, <2>1, QuietStep DEF Accepted, Live, history
  <2>6. Pointed'
    BY <1>0, <2>0, <2>1, Fields DEF Pointed, history
  <2> QED BY <2>2, <2>3, <2>4, <2>5, <2>6 DEF Flow
<1> QED BY <1>1, <1>2

LEMMA DrainSlaveInv == Flow /\ DrainSlave => Flow'
<1> SUFFICES ASSUME Flow, DrainSlave PROVE Flow'  OBVIOUS
<1>0. /\ call.pc = "last" /\ UNCHANGED <<io, encoder, received, history>>
      /\ call' = [call EXCEPT !.pc = IF PendingFailed THEN "stop" ELSE "drain"]
      /\ slave' = IF PendingFailed \/ slave.state = "xrun" THEN slave
                  ELSE [slave EXCEPT !.state = IF Queued > 0 THEN "draining" ELSE "setup"]
  BY DEF DrainSlave
<1>1. /\ call' \in Calls /\ call'.pc = (IF PendingFailed THEN "stop" ELSE "drain")
      /\ call'.next = call.next /\ call'.err = call.err /\ call'.left = call.left
      /\ call'.result = call.result /\ call'.ofs = call.ofs /\ call'.done = call.done
  BY <1>0, Fields DEF Typed, Calls, Labels
<1>2. /\ slave' \in Slaves /\ slave'.size = slave.size /\ slave'.played = slave.played
      /\ IF PendingFailed \/ slave.state = "xrun" THEN slave'.state = slave.state
         ELSE slave'.state = (IF Queued > 0 THEN "draining" ELSE "setup")
  BY <1>0, Fields DEF Typed, Slaves, PcmStates
<1>3. Typed'
  BY <1>0, <1>1, <1>2, Fields DEF Typed, encoder, history
<1>4. Course'
  BY <1>0, <1>1, Fields DEF Course, Idle, At, PendingFailed, filled, encoder, history
<1>5. slave.played <= Len(received) /\ (~(Queued > 0) => slave.played = Len(received))
  BY Fields DEF Counted, Queued
<1>6. States'
  <2>1. /\ slave.state \in {"prepared", "running", "xrun"} /\ ~drained
        /\ io.state \notin {"open", "setup"} /\ (io.state = "xrun" => slave.state = "xrun")
        /\ slave.state = "xrun" => slave.played = Len(received)
        /\ slave.state = "prepared" => slave.played = 0
        /\ env.block /\ PendingFailed => io.state = "xrun"
    BY <1>0, Fields DEF States, Idle
  <2>2. call'.pc \in {"stop", "drain"} /\ PendingFailed' = PendingFailed
        /\ UNCHANGED <<io, received, drained, env>>
    BY <1>0, <1>1 DEF PendingFailed, history
  <2>3. call'.pc = "drain" => ~PendingFailed
    BY <1>1
  <2> QED BY <1>2, <1>5, <2>1, <2>2, <2>3 DEF States, Idle
<1>7. Counted' /\ Ordered'
  BY <1>0, <1>1, <1>2, QuietStep DEF Accepted, Live, history
<1>8. Pointed'
  BY <1>0, <1>1, <1>2, Fields DEF Pointed, history
<1> QED BY <1>3, <1>4, <1>6, <1>7, <1>8 DEF Flow

LEMMA DrainReturnsInv == Flow /\ DrainReturns => Flow'
<1> SUFFICES ASSUME Flow, DrainReturns PROVE Flow'  OBVIOUS
<1>0. /\ call.pc = "drain" /\ (env.block => slave.state # "draining")
      /\ call' = [call EXCEPT !.pc = "stop"] /\ drained' = env.block
      /\ UNCHANGED <<io, encoder, slave, received, padded, prepares, env>>
  BY DEF DrainReturns
<1>1. /\ call' \in Calls /\ call'.pc = "stop"
      /\ call'.next = call.next /\ call'.err = call.err /\ call'.left = call.left
      /\ call'.result = call.result /\ call'.ofs = call.ofs /\ call'.done = call.done
  BY <1>0, Fields DEF Typed, Calls, Labels
<1>2. Typed'
  BY <1>0, <1>1, Fields DEF Typed, encoder, Modes
<1>3. Course'
  BY <1>0, <1>1, Fields DEF Course, Idle, At, PendingFailed, filled, encoder
<1>4. Accepted <= Len(received)
  <2>1. (-Accepted) % FrameSize \in 0 .. FrameSize - 1
    <3>1. -Accepted \in Int
      BY Fields
    <3> QED BY <3>1, Fields, ModRange
  <2>2. Silence \in Nat
    BY <2>1, Fields DEF Silence
  <2>3. filled = 0 /\ remain = 0 /\ call.done = 0
    BY <1>0, Fields DEF Course, At
  <2> QED BY <2>2, <2>3, Fields DEF Counted
<1>5. States'
  BY <1>0, <1>1, <1>4, Fields DEF States, Idle, PendingFailed, Accepted
<1>6. Counted' /\ Ordered'
  BY <1>0, <1>1, QuietStep DEF Accepted, Live
<1>7. Pointed'
  BY <1>0, <1>1, Fields DEF Pointed
<1> QED BY <1>2, <1>3, <1>5, <1>6, <1>7 DEF Flow

LEMMA PlayInv == Flow /\ Play => Flow'
<1> SUFFICES ASSUME Flow, Play PROVE Flow'  OBVIOUS
<1>n. /\ slave.size \in Nat /\ slave.played \in Nat /\ Len(received) \in Nat
      /\ Queued \in Int /\ Queued = Len(received) - slave.played /\ Queued <= slave.size
  BY NumbersHold DEF Numbers
<1>0. /\ slave.state \in {"running", "draining"}
      /\ UNCHANGED <<io, encoder, received, call, history>>
  BY DEF Play
<1>1. PICK n \in 1 .. Queued :
        slave' = [slave EXCEPT !.played = @ + n,
                               !.state = IF n < Queued THEN @
                                         ELSE IF @ = "running" THEN "xrun" ELSE "setup"]
  BY DEF Play
<1>2. slave.played + n \in Nat /\ slave.played + n <= Len(received)
      /\ (~(n < Queued) => slave.played + n = Len(received))
  BY <1>n
<1>3. /\ slave' \in Slaves /\ slave'.size = slave.size /\ slave'.played = slave.played + n
      /\ IF n < Queued THEN slave'.state = slave.state
         ELSE slave'.state = (IF slave.state = "running" THEN "xrun" ELSE "setup")
  <2> DEFINE q == IF n < Queued THEN slave.state
                  ELSE IF slave.state = "running" THEN "xrun" ELSE "setup"
  <2>1. slave' = [slave EXCEPT !.played = slave.played + n, !.state = q]
    BY <1>1, Zenon
  <2>2. slave \in Slaves /\ q \in PcmStates \cup {"draining"}
    BY Fields DEF Typed, PcmStates
  <2>3. /\ slave' \in Slaves /\ slave'.size = slave.size /\ slave'.played = slave.played + n
        /\ slave'.state = q
    <3> HIDE DEF q
    <3> QED BY <1>2, <2>1, <2>2 DEF Slaves
  <2> QED BY <2>3
<1>4. Typed'
  BY <1>0, <1>3, Fields DEF Typed, encoder, history
<1>5. Course'
  BY <1>0, Fields DEF Course, Idle, At, PendingFailed, filled, encoder, history
<1>6. States'
  <2>1. ~drained /\ (io.state \in {"prepared", "running"} /\ Idle => slave.state = "running")
    BY <1>0, Fields DEF States, Idle
  <2> QED BY <1>0, <1>2, <1>3, <2>1, Fields DEF States, Idle, PendingFailed, Accepted, history
<1>7. Counted'
  <2>1. Queued' = Queued - n /\ Queued' <= slave.size
    BY <1>0, <1>2, <1>3, <1>n DEF Queued
  <2> QED BY <1>0, <1>2, <1>3, <2>1, Fields
          DEF Counted, filled, Accepted, Silence, encoder, history
<1>8. Ordered'
  BY <1>0, <1>3, Fields DEF Ordered, Unit, Live, filled, Accepted, encoder, history
<1>9. Pointed'
  <2>1. slave.played <= slave'.played /\ slave'.played \in Nat /\ slave.played \in Nat
    BY <1>2, <1>3, <1>n
  <2>2. io.hw \in Nat
    BY Fields
  <2>3. io.hw <= slave.played => io.hw <= slave'.played
    BY <2>1, <2>2
  <2>4. Pointed
    BY Fields
  <2> QED BY <1>0, <1>3, <2>3, <2>4 DEF Pointed, history
<1> QED BY <1>4, <1>5, <1>6, <1>7, <1>8, <1>9 DEF Flow

(* What the slave takes is added to what it has.                           *)
LEMMA Taken ==
  ASSUME Flow, NEW n \in 1 .. Room, Take(n), Live, Len(outbuf) = FrameSize
  PROVE  /\ slave' \in Slaves /\ slave'.size = slave.size /\ slave'.played = slave.played
         /\ slave'.state = slave.state
              \/ (slave.state = "prepared" /\ slave'.state = "running")
         /\ received' \in Seq(Int) /\ Len(received') = Len(received) + n
         /\ Queued' <= slave'.size
         /\ \A i \in 1 .. Len(received) : received'[i] = received[i]
         /\ \A i \in 1 .. n : (call.ofs + call.done) + i <= FrameSize =>
              received'[Len(received) + i] = outbuf[(call.ofs + call.done) + i]
<1>n. /\ slave.size \in Nat /\ slave.played \in Nat /\ Len(received) \in Nat
      /\ call.ofs \in Nat /\ call.done \in Nat
      /\ Queued \in Int /\ Room \in Int
  BY NumbersHold DEF Numbers
<1>m. Queued = Len(received) - slave.played
  BY NumbersHold DEF Numbers
<1>r. Room = slave.size - Queued
  BY NumbersHold DEF Numbers
<1>1. n \in Nat /\ call.ofs + call.done \in Nat /\ Queued + n \in Int /\ n <= Room
  BY <1>n
<1>2. /\ slave' \in Slaves /\ slave'.size = slave.size /\ slave'.played = slave.played
      /\ slave'.state = slave.state \/ (slave.state = "prepared" /\ slave'.state = "running")
  <2>1. slave' \in {slave, Started(slave, Queued + n), SlaveStart(slave)}
    BY DEF Take
  <2> QED BY <1>1, <2>1, StartKeeps, Fields
<1> DEFINE f == From(call.ofs + call.done, n)
<1>3. /\ f \in Seq(Int) /\ Len(f) = n
      /\ \A i \in 1 .. n : f[i] = IF (call.ofs + call.done) + i <= FrameSize
                                  THEN outbuf[(call.ofs + call.done) + i] ELSE -1
  BY <1>1, FromTyped, Fields
<1>4. received' = received \o f /\ received \in Seq(Int)
  BY Fields DEF Take, Typed
<1> HIDE DEF f
<1>5. /\ received' \in Seq(Int) /\ Len(received') = Len(received) + n
      /\ \A i \in 1 .. Len(received) : received'[i] = received[i]
      /\ \A i \in 1 .. n : received'[Len(received) + i] = f[i]
  BY <1>3, <1>4, Joined
<1>6. Queued' <= slave'.size
  <2>1. Queued' = Len(received') - slave'.played
    BY DEF Queued
  <2>2. slave'.played = slave.played /\ slave'.size = slave.size
    BY <1>2
  <2>3. Len(received') = Len(received) + n
    BY <1>5
  <2>4. Queued + n <= slave.size
    <3>1. n \in Nat /\ n <= Room /\ Queued \in Int /\ slave.size \in Nat
      BY <1>1, <1>n
    <3> QED BY <1>r, <3>1
  <2>5. Len(received') - slave'.played = Queued + n
    <3>1. n \in Nat /\ Len(received) \in Nat /\ slave.played \in Nat
      BY <1>1, <1>n
    <3> QED BY <1>m, <2>2, <2>3, <3>1
  <2> QED BY <2>1, <2>2, <2>4, <2>5
<1> QED BY <1>2, <1>3, <1>5, <1>6

LEMMA WritePartInv == Flow /\ WritePart => Flow'
<1> SUFFICES ASSUME Flow, WritePart PROVE Flow'  OBVIOUS
<1>n. /\ slave.played \in Nat /\ Len(received) \in Nat /\ slave.played <= Len(received)
      /\ call.ofs \in Nat /\ call.done \in Nat /\ remain \in Nat /\ Room \in Int
      /\ filled \in Nat /\ Accepted \in Nat /\ Silence \in Nat
  BY NumbersHold DEF Numbers
<1>m. Len(received) + (remain - call.done) + filled = Accepted + Silence
  BY NumbersHold DEF Numbers
<1> DEFINE n == Lesser(Room, remain)
<1>0. /\ call.pc = "pending" /\ ~env.block /\ slave.state # "xrun" /\ Room > 0
      /\ Take(n) /\ remain' = remain - n
      /\ call' = IF n < remain THEN [call EXCEPT !.ofs = NextOfs(n)] ELSE Return("none")
      /\ UNCHANGED <<io, inbuf, outbuf, history>>
  BY DEF WritePart
<1>1. remain > 0 /\ call.done = 0 /\ Len(outbuf) = FrameSize /\ Live
  BY <1>0, Fields DEF Course, States, Live, Idle
<1>2. n \in 1 .. Room /\ n \in 1 .. remain
  BY <1>0, <1>1, <1>n DEF Lesser
<1> HIDE DEF n
<1>3. /\ slave' \in Slaves /\ slave'.size = slave.size /\ slave'.played = slave.played
      /\ slave'.state = slave.state \/ (slave.state = "prepared" /\ slave'.state = "running")
      /\ received' \in Seq(Int) /\ Len(received') = Len(received) + n /\ Queued' <= slave'.size
  BY <1>0, <1>1, <1>2, Taken
<1>4. /\ call' \in Calls /\ call'.next = call.next /\ call'.left = call.left
      /\ call'.result = call.result /\ call'.done = 0
      /\ IF n < remain THEN call'.pc = "pending" /\ call'.err = call.err
         ELSE /\ call'.pc = call.next /\ call'.pc \in Nexts
              /\ call'.err = "none" /\ call'.ofs = 0
  <2>1. CASE n < remain
    <3>1. NextOfs(n) \in Nat
      BY <1>2, <1>n DEF NextOfs
    <3>2. call' = [call EXCEPT !.ofs = NextOfs(n)]
      BY <1>0, <2>1
    <3> QED BY <1>0, <1>1, <2>1, <3>1, <3>2, Fields DEF Typed, Calls
  <2>2. CASE ~(n < remain)
    <3>1. call' = Return("none") /\ "none" \in Errors
      BY <1>0, <2>2 DEF Errors
    <3> QED BY <1>0, <2>2, <3>1, Returned
  <2> QED BY <2>1, <2>2
<1>5. remain' \in Nat /\ (n < remain => 0 < remain') /\ (~(n < remain) => remain' = 0)
  <2>1. remain' = remain - n /\ remain \in Nat
    BY <1>0, <1>n
  <2> QED BY <1>2, <2>1
<1>6. Typed'
  BY <1>0, <1>3, <1>4, <1>5, Fields DEF Typed, history
<1>7. Course'
  BY <1>0, <1>1, <1>4, <1>5, Fields
     DEF Course, Idle, At, PendingFailed, filled, history, Nexts
<1>8. States'
  BY <1>0, <1>1, <1>3, <1>4, Fields
     DEF States, Live, Idle, PendingFailed, Accepted, history, Nexts
<1>9. Counted'
  <2>1. Accepted' = Accepted /\ filled' = filled /\ Silence' = Silence /\ UNCHANGED padded
    BY <1>0, <1>4 DEF Accepted, filled, Silence, history
  <2>2. /\ slave'.played = slave.played /\ Len(received') = Len(received) + n
        /\ remain' = remain - n /\ call.done = 0 /\ call'.done = 0 /\ n \in Nat
    BY <1>0, <1>1, <1>2, <1>3, <1>4
  <2>3. /\ slave'.played <= Len(received')
        /\ Len(received') + (remain' - call'.done) + filled' = Accepted' + Silence'
    BY <2>1, <2>2, <1>n, <1>m
  <2> QED BY <1>3, <2>1, <2>3, Fields DEF Counted
<1>10. Ordered' /\ Pointed'
  BY <1>0, <1>4, Fields DEF Ordered, Pointed, filled, Accepted, history
<1> QED BY <1>6, <1>7, <1>8, <1>9, <1>10 DEF Flow

LEMMA WriteBlockingInv == Flow /\ WriteBlocking => Flow'
<1> SUFFICES ASSUME Flow, WriteBlocking PROVE Flow'  OBVIOUS
<1>n. /\ slave.played \in Nat /\ Len(received) \in Nat /\ slave.played <= Len(received)
      /\ call.ofs \in Nat /\ call.done \in Nat /\ remain \in Nat /\ Room \in Int
      /\ filled \in Nat /\ Accepted \in Nat /\ Silence \in Nat
  BY NumbersHold DEF Numbers
<1>m. Len(received) + (remain - call.done) + filled = Accepted + Silence
  BY NumbersHold DEF Numbers
<1> DEFINE n == Lesser(Room, remain - call.done)
<1>0. /\ call.pc = "pending" /\ env.block /\ slave.state # "xrun" /\ Room > 0 /\ Take(n)
      /\ IF call.done + n < remain
           THEN call' = [call EXCEPT !.done = @ + n] /\ UNCHANGED remain
           ELSE call' = Return("none") /\ remain' = 0
      /\ UNCHANGED <<io, inbuf, outbuf, history>>
  BY DEF WriteBlocking
<1>1. call.done < remain /\ Len(outbuf) = FrameSize /\ Live
  <2>1. call.done < remain
    BY <1>0, Fields DEF Course
  <2>2. remain > 0
    BY <1>n, <2>1
  <2>3. Len(outbuf) = FrameSize
    BY <2>2, Fields DEF Course
  <2>4. Live
    BY <1>0, Fields DEF States, Live, Idle
  <2> QED BY <2>1, <2>3, <2>4
<1>2. n \in 1 .. Room /\ n \in 1 .. (remain - call.done)
  <2>1. Room \in Int /\ Room > 0 /\ remain - call.done \in Int /\ remain - call.done > 0
    BY <1>0, <1>1, <1>n
  <2> QED BY <2>1 DEF Lesser
<1> HIDE DEF n
<1>3. /\ slave' \in Slaves /\ slave'.size = slave.size /\ slave'.played = slave.played
      /\ slave'.state = slave.state \/ (slave.state = "prepared" /\ slave'.state = "running")
      /\ received' \in Seq(Int) /\ Len(received') = Len(received) + n /\ Queued' <= slave'.size
      /\ \A i \in 1 .. Len(received) : received'[i] = received[i]
      /\ \A i \in 1 .. n : (call.ofs + call.done) + i <= FrameSize =>
           received'[Len(received) + i] = outbuf[(call.ofs + call.done) + i]
  BY <1>0, <1>1, <1>2, Taken
<1>4. /\ call' \in Calls /\ call'.next = call.next /\ call'.left = call.left
      /\ call'.result = call.result
      /\ IF call.done + n < remain
           THEN /\ call'.pc = "pending" /\ call'.err = call.err /\ call'.ofs = call.ofs
                /\ call'.done = call.done + n /\ remain' = remain
           ELSE /\ call'.pc = call.next /\ call'.pc \in Nexts /\ call'.ofs = 0 /\ call'.done = 0
                /\ call'.err = "none" /\ remain' = 0
  <2>1. CASE call.done + n < remain
    <3>1. call' = [call EXCEPT !.done = call.done + n] /\ remain' = remain
      BY <1>0, <2>1
    <3>2. call.done + n \in Nat
      BY <1>2, <1>n
    <3> QED BY <1>0, <2>1, <3>1, <3>2, Fields DEF Typed, Calls
  <2>2. CASE ~(call.done + n < remain)
    <3>1. call' = Return("none") /\ "none" \in Errors /\ remain' = 0
      BY <1>0, <2>2 DEF Errors
    <3> QED BY <1>0, <2>2, <3>1, Returned
  <2> QED BY <2>1, <2>2
<1>5. Typed'
  <2>1. remain' \in Nat
    BY <1>4, <1>n
  <2> QED BY <1>0, <1>3, <1>4, <2>1, Fields DEF Typed, history
<1>6. Course'
  BY <1>0, <1>1, <1>4, Fields DEF Course, Idle, At, PendingFailed, filled, history, Nexts
<1>7. States'
  BY <1>0, <1>1, <1>3, <1>4, Fields
     DEF States, Live, Idle, PendingFailed, Accepted, history, Nexts
<1>8. Accepted' = Accepted /\ filled' = filled /\ UNCHANGED <<padded, env>>
  BY <1>0, <1>4 DEF Accepted, filled, history
<1>9. Counted'
  <2>1. remain' - call'.done = (remain - call.done) - n
    <3>1. n \in 1 .. (remain - call.done) /\ remain \in Nat /\ call.done \in Nat
      BY <1>2, <1>n
    <3>2. CASE call.done + n < remain
      <4>1. remain' = remain /\ call'.done = call.done + n
        BY <1>4, <3>2
      <4> QED BY <3>1, <4>1
    <3>3. CASE ~(call.done + n < remain)
      <4>1. remain' = 0 /\ call'.done = 0
        BY <1>4, <3>3
      <4> QED BY <3>1, <3>3, <4>1
    <3> QED BY <3>2, <3>3
  <2>2. Silence' = Silence
    BY <1>8 DEF Silence
  <2>4. /\ slave'.played = slave.played /\ Len(received') = Len(received) + n
        /\ Accepted' = Accepted /\ filled' = filled /\ n \in Nat
    BY <1>2, <1>3, <1>8
  <2>3. /\ slave'.played <= Len(received')
        /\ Len(received') + (remain' - call'.done) + filled' = Accepted' + Silence'
    <3> DEFINE b == remain - call.done
    <3>1. b \in Int /\ remain' - call'.done = b - n /\ Len(received) + b + filled = Accepted + Silence
      BY <2>1, <1>n, <1>m
    <3> HIDE DEF b
    <3>2. /\ Len(received) \in Nat /\ filled \in Nat /\ Accepted \in Nat /\ Silence \in Nat
          /\ slave.played \in Nat /\ slave.played <= Len(received) /\ n \in Nat
      BY <2>4, <1>n
    <3>3. (Len(received) + n) + (b - n) + filled = Accepted + Silence
      BY <3>1, <3>2
    <3>4. slave.played <= Len(received) + n
      BY <3>2
    <3> QED BY <2>2, <2>4, <3>1, <3>3, <3>4
  <2> QED BY <1>3, <1>8, <2>3, Fields DEF Counted
<1>10. Ordered'
  <2>1. /\ remain = FrameSize /\ call.ofs = 0
        /\ \A k \in 1 .. FrameSize : outbuf[k] = Unit((Len(received) - call.done) + k)
        /\ \A i \in 1 .. Len(received) : received[i] = Unit(i)
    BY <1>0, <1>1, Fields DEF Ordered
  <2>2. ASSUME NEW i \in 1 .. Len(received') PROVE received'[i] = Unit(i)
    <3>1. CASE i <= Len(received)
      <4>1. i \in 1 .. Len(received)
        BY <1>3, <3>1, <1>n
      <4> QED BY <1>3, <2>1, <4>1
    <3>2. CASE i > Len(received)
      <4> DEFINE j == i - Len(received)
      <4>1. j \in 1 .. n /\ call.done + j \in 1 .. FrameSize /\ i = Len(received) + j
            /\ (call.ofs + call.done) + j = call.done + j
        <5>1. /\ i \in 1 .. Len(received) + n /\ n \in Nat /\ call.done + n <= FrameSize
              /\ FrameSize \in Nat /\ call.ofs = 0
          <6>1. i \in 1 .. Len(received) + n /\ FrameSize \in Nat /\ call.ofs = 0
            BY <1>3, <2>1, Sizes
          <6>2. n \in Nat /\ call.done + n <= remain
            BY <1>2, <1>n
          <6> QED BY <2>1, <6>1, <6>2
        <5>2. j \in 1 .. n /\ i = Len(received) + j
          BY <3>2, <5>1, <1>n
        <5> HIDE DEF j
        <5>3. call.done + j \in 1 .. FrameSize
          <6>1. call.done \in Nat /\ n \in Nat /\ FrameSize \in Nat /\ call.done + n <= FrameSize
            BY <5>1, <1>n
          <6> QED BY <5>2, <6>1
        <5>4. call.ofs + call.done = call.done
          BY <5>1, <1>n
        <5> QED BY <5>2, <5>3, <5>4
      <4>2. received'[i] = outbuf[call.done + j]
        <5> HIDE DEF j
        <5>1. call.done + j <= FrameSize
          BY <4>1
        <5> QED BY <1>3, <4>1, <5>1
      <4>3. outbuf[call.done + j] = Unit((Len(received) - call.done) + (call.done + j))
        BY <2>1, <4>1
      <4>4. (Len(received) - call.done) + (call.done + j) = i
        BY <4>1, <1>n
      <4> QED BY <4>2, <4>3, <4>4
    <3> QED BY <3>1, <3>2, <1>3, <1>n
  <2>3. ASSUME remain' > 0
        PROVE  /\ call'.pc = "pending" /\ remain' = FrameSize /\ call'.ofs = 0
               /\ \A k \in 1 .. FrameSize : outbuf[k] = Unit((Len(received') - call'.done) + k)
    <3>1. call.done + n < remain
      BY <1>4, <2>3
    <3>2. Len(received') - call'.done = Len(received) - call.done
      BY <1>2, <1>3, <1>4, <3>1, <1>n
    <3> QED BY <1>4, <2>1, <3>1, <3>2
  <2>4. ~padded => \A k \in 1 .. filled : inbuf[k] = (Accepted - filled) + k
    BY Fields DEF Ordered
  <2>5. \A i : Unit(i)' = Unit(i)
    BY <1>8 DEF Unit
  <2> QED BY <1>0, <1>8, <2>2, <2>3, <2>4, <2>5 DEF Ordered, Unit
<1>11. Pointed'
  BY <1>0, <1>3, <1>4, Fields DEF Pointed, history
<1> QED BY <1>5, <1>6, <1>7, <1>9, <1>10, <1>11 DEF Flow

LEMMA WriteXrunInv == Flow /\ WriteXrun => Flow'
<1> SUFFICES ASSUME Flow, WriteXrun PROVE Flow'  OBVIOUS
<1>n. /\ slave.played \in Nat /\ Len(received) \in Nat /\ slave.played <= Len(received)
      /\ call.ofs \in Nat /\ call.done \in Nat /\ remain \in Nat
      /\ filled \in Nat /\ Accepted \in Nat /\ Silence \in Nat
  BY NumbersHold DEF Numbers
<1>m. Len(received) + (remain - call.done) + filled = Accepted + Silence
  BY NumbersHold DEF Numbers
<1>0. /\ call.pc = "pending" /\ slave.state = "xrun"
      /\ UNCHANGED <<inbuf, outbuf, slave, received, history>>
  BY DEF WriteXrun, WriteEnds
<1>1. call.done < remain /\ Len(outbuf) = FrameSize
  BY <1>0, <1>n, Fields DEF Course
<1>2. CASE call.done > 0
  <2>0. /\ call' = [call EXCEPT !.ofs = NextOfs(call.done), !.done = 0]
        /\ remain' = remain - call.done /\ UNCHANGED io
    BY <1>2 DEF WriteXrun, WriteEnds
  <2>1. NextOfs(call.done) \in Nat /\ remain' \in Nat /\ remain' > 0
    <3>1. remain - call.done \in Nat /\ remain - call.done > 0
      BY <1>1, <1>n
    <3>2. \A a, b \in Nat : a + b \in Nat
      OBVIOUS
    <3>3. call.ofs + (remain - call.done) \in Nat
      BY <1>n, <3>1, <3>2, Zenon
    <3> QED BY <2>0, <3>1, <3>3 DEF NextOfs
  <2>2. /\ call' \in Calls /\ call'.pc = "pending" /\ call'.next = call.next
        /\ call'.left = call.left /\ call'.result = call.result /\ call'.done = 0
        /\ call'.err = call.err
    BY <1>0, <2>0, <2>1, Fields DEF Typed, Calls
  <2>3. Typed'
    BY <1>0, <2>0, <2>1, <2>2, Fields DEF Typed, history
  <2>4. Course'
    BY <1>0, <1>1, <2>1, <2>2, Fields DEF Course, Idle, At, PendingFailed, filled, history
  <2>5. States'
    BY <1>0, <2>0, <2>2, Fields DEF States, Idle, PendingFailed, Accepted, history
  <2>6. Accepted' = Accepted /\ filled' = filled /\ Silence' = Silence /\ UNCHANGED padded
    BY <1>0, <2>0, <2>2 DEF Accepted, filled, Silence, history
  <2>7. remain' - call'.done = remain - call.done
    BY <2>0, <2>1, <2>2, <1>n
  <2>8. Counted'
    BY <1>0, <2>6, <2>7, Fields DEF Counted, Queued
  <2>9. Ordered'
    BY SMTT(30), <1>0, <2>6, Fields DEF Ordered, Live, Unit, history
  <2>10. Pointed'
    BY <1>0, <2>0, <2>2, Fields DEF Pointed, history
  <2> QED BY <2>3, <2>4, <2>5, <2>8, <2>9, <2>10 DEF Flow
<1>3. CASE ~(call.done > 0)
  <2>0. /\ call' = Return("pipe") /\ io' = [io EXCEPT !.state = "xrun"] /\ UNCHANGED remain
    BY <1>3 DEF WriteXrun
  <2>1. /\ call' \in Calls /\ call'.pc = call.next /\ call'.next = call.next
        /\ call'.pc \in Nexts /\ call'.err = "pipe"
        /\ call'.left = call.left /\ call'.result = call.result
        /\ call'.ofs = 0 /\ call'.done = 0 /\ call.done = 0
    <3>1. "pipe" \in Errors
      BY DEF Errors
    <3>2. call.done = 0
      BY <1>3, <1>n
    <3> QED BY <1>0, <2>0, <3>1, <3>2, Returned
  <2>2. io' \in Streams /\ io'.state = "xrun" /\ io'.appl = io.appl
    BY <2>0, Fields DEF Typed, Streams, PcmStates
  <2>3. Typed'
    BY <1>0, <2>0, <2>1, <2>2, Fields DEF Typed, history
  <2>4. Course'
    BY <1>0, <2>0, <2>1, Fields DEF Course, Idle, At, PendingFailed, filled, history, Nexts
  <2>5. States'
    BY <1>0, <2>1, <2>2, Fields DEF States, Idle, PendingFailed, Accepted, history, Nexts
  <2>6. Counted' /\ Ordered'
    BY <1>0, <2>0, <2>1, <2>2, QuietStep DEF Accepted, Live, encoder, history
  <2>7. Pointed'
    BY <2>2 DEF Pointed
  <2> QED BY <2>3, <2>4, <2>5, <2>6, <2>7 DEF Flow
<1> QED BY <1>2, <1>3

LEMMA DrainConvertInv == Flow /\ DrainConvert => Flow'
<1> SUFFICES ASSUME Flow, DrainConvert PROVE Flow'  OBVIOUS
<1>n. /\ slave.played \in Nat /\ Len(received) \in Nat /\ slave.played <= Len(received)
      /\ call.done \in Nat /\ remain \in Nat /\ FrameSize \in Nat \ {0}
      /\ filled \in Nat /\ filled < FrameSize /\ Accepted \in Nat /\ Silence \in Nat
  BY NumbersHold DEF Numbers
<1>m. Len(received) + (remain - call.done) + filled = Accepted + Silence
  BY NumbersHold DEF Numbers
<1>0. call.pc = "convert" /\ UNCHANGED <<io, slave, received, drained, prepares, env>>
  BY DEF DrainConvert
<1>1. /\ ~padded /\ filled > 0 /\ call.result = 0 /\ call.left = 0 /\ call.done = 0
      /\ call.ofs = 0
  BY <1>0, Fields DEF Course, At
<1>2. CASE PendingFailed
  <2>0. call' = [call EXCEPT !.pc = "stop"] /\ UNCHANGED <<encoder, padded>>
    BY <1>2 DEF DrainConvert
  <2>1. /\ call' \in Calls /\ call'.pc = "stop"
        /\ call'.next = call.next /\ call'.err = call.err /\ call'.left = call.left
        /\ call'.result = call.result /\ call'.ofs = call.ofs /\ call'.done = call.done
    BY <2>0, Fields DEF Typed, Calls, Labels
  <2>2. Typed'
    BY <1>0, <2>0, <2>1, Fields DEF Typed, encoder
  <2>3. Course'
    BY <1>0, <2>0, <2>1, Fields DEF Course, Idle, At, PendingFailed, filled, encoder
  <2>4. States'
    BY <1>0, <2>0, <2>1, Fields DEF States, Idle, PendingFailed, Accepted
  <2>5. Counted' /\ Ordered'
    BY <1>0, <2>0, <2>1, QuietStep DEF Accepted, Live
  <2>6. Pointed'
    BY <1>0, <2>1, Fields DEF Pointed
  <2> QED BY <2>2, <2>3, <2>4, <2>5, <2>6 DEF Flow
<1>3. CASE ~PendingFailed
  <2> DEFINE z == [i \in 1 .. FrameSize - filled |-> 0]
             units == inbuf \o z
  <2>0. /\ outbuf' = units /\ remain' = FrameSize /\ inbuf' = <<>> /\ padded' = TRUE
        /\ call' = Out("last", call)
    BY <1>3 DEF DrainConvert, Convert
  <2>1. remain = 0
    BY <1>0, <1>3, Fields DEF Course
  <2>2. /\ call' \in Calls /\ call'.pc = "pending" /\ call'.next = "last"
        /\ call'.err = "none" /\ call'.left = 0 /\ call'.result = 0
        /\ call'.ofs = 0 /\ call'.done = 0
    <3>1. remain' > 0
      BY <1>n, <2>0
    <3>2. call' = [call EXCEPT !.pc = "pending", !.next = "last", !.ofs = 0, !.done = 0,
                               !.err = "none"]
      BY <2>0, <3>1 DEF Out
    <3>3. call \in Calls
      BY Fields DEF Typed
    <3> QED BY <1>1, <3>2, <3>3 DEF Calls, Labels, Nexts, Errors
  <2>3. /\ units \in Seq(Int) /\ Len(units) = FrameSize
        /\ \A k \in 1 .. filled : units[k] = inbuf[k]
        /\ \A k \in 1 .. FrameSize - filled : units[filled + k] = 0
    <3>1. FrameSize - filled \in Nat
      BY <1>n
    <3>2. z \in Seq(Int) /\ Len(z) = FrameSize - filled /\ \A k \in 1 .. FrameSize - filled : z[k] = 0
      BY <3>1
    <3>3. inbuf \in Seq(Int)
      BY Fields DEF Typed
    <3> HIDE DEF z
    <3>4. /\ inbuf \o z \in Seq(Int) /\ Len(inbuf \o z) = Len(inbuf) + Len(z)
          /\ \A k \in 1 .. Len(inbuf) : (inbuf \o z)[k] = inbuf[k]
          /\ \A k \in 1 .. Len(z) : (inbuf \o z)[Len(inbuf) + k] = z[k]
      BY <3>2, <3>3, Joined
    <3>5. Len(inbuf) = filled
      BY DEF filled
    <3>6. Len(inbuf \o z) = FrameSize
      BY <1>n, <3>2, <3>4, <3>5
    <3> QED BY <3>2, <3>4, <3>5, <3>6
  <2> HIDE DEF z, units
  <2>4. Accepted' = Accepted /\ filled' = 0
    BY <1>0, <1>1, <2>0, <2>2 DEF Accepted, filled
  <2>5. Accepted % FrameSize = filled /\ Silence = 0
    BY <1>1, Fields DEF Counted, Silence
  <2>6. Silence' = FrameSize - filled
    <3>1. Silence' = (-Accepted) % FrameSize
      BY <2>0, <2>4 DEF Silence
    <3>2. (-Accepted) % FrameSize = IF Accepted % FrameSize = 0 THEN 0
                                    ELSE FrameSize - (Accepted % FrameSize)
      BY <1>n, ModMinus
    <3> QED BY <1>1, <2>5, <3>1, <3>2
  <2>7. Len(received) + filled = Accepted
    BY <1>n, <1>m, <1>1, <2>1, <2>5
  <2>8. Typed'
    BY <1>0, <1>n, <2>0, <2>2, <2>3, Fields DEF Typed
  <2>9. Course'
    BY <1>0, <1>n, <2>0, <2>2, <2>3, <2>4 DEF Course, Idle, At, PendingFailed, Nexts
  <2>10. States'
    BY <1>0, <2>2, Fields DEF States, Idle, PendingFailed, Accepted
  <2>11. Counted'
    <3>1. Len(received') + (remain' - call'.done) + filled' = Accepted' + Silence'
      <4>1. /\ Len(received') = Len(received) /\ remain' = FrameSize /\ call'.done = 0
            /\ filled' = 0 /\ Accepted' = Accepted /\ Silence' = FrameSize - filled
        BY <1>0, <2>0, <2>2, <2>4, <2>6
      <4>2. Len(received) + (FrameSize - 0) + 0 = Accepted + (FrameSize - filled)
        BY <1>n, <2>7
      <4> QED BY <4>1, <4>2
    <3> QED BY <1>0, <1>n, <2>0, <2>4, <3>1, Fields DEF Counted, Queued
  <2>12. Ordered'
    <3>1. ASSUME NEW k \in 1 .. FrameSize PROVE units[k] = Unit(Len(received) + k)
      <4>1. CASE k <= filled
        <5>1. k \in 1 .. filled /\ Len(received) + k <= Accepted
              /\ (Accepted - filled) + k = Len(received) + k
          BY <1>n, <2>7, <4>1
        <5>2. inbuf[k] = (Accepted - filled) + k
          BY <1>1, <5>1, Fields DEF Ordered
        <5> QED BY <2>3, <5>1, <5>2 DEF Unit
      <4>2. CASE k > filled
        <5> DEFINE j == k - filled
        <5>1. j \in 1 .. FrameSize - filled /\ k = filled + j /\ ~(Len(received) + k <= Accepted)
          BY <1>n, <2>7, <4>2
        <5> HIDE DEF j
        <5> QED BY <2>3, <5>1 DEF Unit
      <4> QED BY <1>n, <4>1, <4>2
    <3>2. \A i : Unit(i)' = Unit(i)
      BY <2>4 DEF Unit
    <3>3. env.block => \A i \in 1 .. Len(received) : received[i] = Unit(i)
      BY Fields DEF Ordered
    <3>4. (Len(received) - 0) = Len(received)
      BY <1>n
    <3> QED BY <1>0, <2>0, <2>2, <2>4, <3>1, <3>2, <3>3, <3>4 DEF Ordered, Unit
  <2>13. Pointed'
    BY <1>0, <1>1, <2>2, Fields DEF Pointed
  <2> QED BY <2>8, <2>9, <2>10, <2>11, <2>12, <2>13 DEF Flow
<1> QED BY <1>2, <1>3

LEMMA FillInv == Flow /\ Fill => Flow'
<1> SUFFICES ASSUME Flow, Fill PROVE Flow'  OBVIOUS
<1>n. /\ slave.played \in Nat /\ Len(received) \in Nat /\ slave.played <= Len(received)
      /\ call.left \in Nat /\ call.result \in Nat /\ call.done \in Nat
      /\ remain \in Nat /\ FrameSize \in Nat \ {0}
      /\ filled \in Nat /\ filled < FrameSize /\ Accepted \in Nat
  BY NumbersHold DEF Numbers
<1>m. Len(received) + (remain - call.done) + filled = Accepted + Silence
  BY NumbersHold DEF Numbers
<1>0. call.pc = "fill" /\ UNCHANGED <<received, history>>
  BY DEF Fill
<1>1. /\ ~padded /\ call.done = 0 /\ call.ofs = 0 /\ Accepted % FrameSize = filled /\ Silence = 0
  BY <1>0, Fields DEF Course, Counted, Silence, At
<1>2. CASE PendingFailed
  <2>1. Ends(call.result) /\ UNCHANGED encoder
    BY <1>2 DEF Fill
  <2> QED BY <1>0, <1>2, <2>1, EndsInv
<1>3. CASE ~PendingFailed
  <2> DEFINE size == Lesser(call.left, FrameSize - filled)
             z == [i \in 1 .. size |-> Source(i)]
             units == inbuf \o z
             rest == [call EXCEPT !.left = @ - size, !.result = @ + size]
  <2>0. /\ IF Len(units) = FrameSize
             THEN /\ outbuf' = units /\ remain' = FrameSize /\ inbuf' = <<>>
                  /\ call' = Out("filled", rest)
             ELSE /\ inbuf' = units /\ UNCHANGED <<outbuf, remain>>
                  /\ call' = [rest EXCEPT !.pc = "filled"]
        /\ UNCHANGED <<io, slave>>
    BY <1>3 DEF Fill, Convert
  <2>1. remain = 0
    BY <1>0, <1>3, Fields DEF Course
  <2>2. size \in Nat /\ size <= call.left /\ filled + size <= FrameSize
    BY <1>n DEF Lesser
  <2>3. /\ units \in Seq(Int) /\ Len(units) = filled + size
        /\ \A k \in 1 .. filled : units[k] = inbuf[k]
        /\ \A k \in 1 .. size : units[filled + k] = Source(k)
    <3> HIDE DEF size
    <3>1. \A i \in 1 .. size : Source(i) \in Int
      <4>1. io.appl \in Nat
        BY Fields
      <4> QED BY <1>n, <2>2, <4>1 DEF Source
    <3>2. z \in Seq(Int) /\ Len(z) = size /\ \A k \in 1 .. size : z[k] = Source(k)
      BY <2>2, <3>1
    <3>3. inbuf \in Seq(Int)
      BY Fields DEF Typed
    <3> HIDE DEF z
    <3>4. /\ inbuf \o z \in Seq(Int) /\ Len(inbuf \o z) = Len(inbuf) + Len(z)
          /\ \A k \in 1 .. Len(inbuf) : (inbuf \o z)[k] = inbuf[k]
          /\ \A k \in 1 .. Len(z) : (inbuf \o z)[Len(inbuf) + k] = z[k]
      BY <3>2, <3>3, Joined
    <3>5. Len(inbuf) = filled
      BY DEF filled
    <3> QED BY <3>2, <3>4, <3>5
  <2>4. /\ call' \in Calls /\ call'.pc = (IF remain' > 0 THEN "pending" ELSE "filled")
        /\ remain' > 0 => call'.next = "filled"
        /\ call'.err = "none" /\ call'.ofs = 0 /\ call'.done = 0
        /\ call'.left = call.left - size /\ call'.result = call.result + size
    <3> HIDE DEF size
    <3>1. call.left - size \in Nat /\ call.result + size \in Nat
      <4>1. call.left \in Nat /\ call.result \in Nat
        BY <1>n
      <4> QED BY <2>2, <4>1
    <3>2. rest = [call EXCEPT !.left = call.left - size, !.result = call.result + size]
      BY Zenon
    <3>3. /\ rest \in Calls /\ rest.left = call.left - size /\ rest.result = call.result + size
          /\ rest.err = call.err /\ rest.ofs = call.ofs /\ rest.done = call.done
      BY <3>1, <3>2, Fields DEF Typed, Calls
    <3>4. rest.err = "none" /\ rest.ofs = 0 /\ rest.done = 0
      BY <1>1, <1>3, <3>3 DEF PendingFailed
    <3> HIDE DEF rest, units
    <3>5. CASE Len(units) = FrameSize
      <4>1. call' = Out("filled", rest) /\ remain' > 0
        BY <1>n, <2>0, <3>5
      <4> QED BY <3>3, <4>1 DEF Calls, Labels, Nexts, Errors, Out
    <3>6. CASE Len(units) # FrameSize
      <4>1. call' = [rest EXCEPT !.pc = "filled"] /\ ~(remain' > 0)
        BY <1>n, <2>0, <2>1, <3>6
      <4> QED BY <3>3, <3>4, <4>1 DEF Calls, Labels
    <3> QED BY <3>5, <3>6
  <2> HIDE DEF size, z, units, rest
  <2>5. Accepted' = Accepted + size
    <3>1. Accepted' = io.appl + (call.result + size)
      BY <2>0, <2>4 DEF Accepted
    <3>2. io.appl \in Nat /\ Accepted = io.appl + call.result
      BY Fields DEF Accepted
    <3> QED BY <1>n, <2>2, <3>1, <3>2
  <2>6. Len(received) + filled = Accepted
    BY <1>n, <1>m, <1>1, <2>1
  <2>7. (Accepted + size) % FrameSize = IF filled + size = FrameSize THEN 0 ELSE filled + size
    <3>1. FrameSize \in Nat \ {0} /\ Accepted \in Nat /\ size \in Nat
          /\ Accepted % FrameSize = filled /\ (Accepted % FrameSize) + size <= FrameSize
      BY <1>n, <1>1, <2>2
    <3> QED BY ONLY <3>1, ModAdd
  <2>8. filled' = (IF filled + size = FrameSize THEN 0 ELSE filled + size)
        /\ remain' = (IF filled + size = FrameSize THEN FrameSize ELSE 0)
    BY <1>n, <2>0, <2>1, <2>2, <2>3 DEF filled
  <2>9. Typed'
    <3>1. inbuf' \in Seq(Int) /\ outbuf' \in Seq(Int) /\ remain' \in Nat
      <4>1. inbuf' \in {units, <<>>} /\ outbuf' \in {units, outbuf}
        BY <2>0
      <4>2. <<>> \in Seq(Int) /\ outbuf \in Seq(Int)
        BY Fields DEF Typed
      <4>3. remain' \in Nat
        BY <1>n, <2>8
      <4> QED BY <2>3, <4>1, <4>2, <4>3
    <3> QED BY <1>0, <2>0, <2>4, <3>1, Fields DEF Typed, history
  <2>10. Course'
    BY <1>0, <1>1, <1>n, <2>0, <2>1, <2>3, <2>4, <2>8
       DEF Course, Idle, At, PendingFailed, Nexts, history
  <2>11. States'
    BY <1>0, <1>1, <2>0, <2>4, Fields DEF States, Idle, PendingFailed, history
  <2>12. Counted'
    <3>1. UNCHANGED padded /\ Silence' = 0
      BY <1>0, <1>1 DEF Silence, history
    <3>2. Len(received') + (remain' - call'.done) + filled' = Accepted' + Silence'
      <4>1. Len(received') = Len(received) /\ call'.done = 0
        BY <1>0, <2>4
      <4>2. remain' + filled' = filled + size
        BY <1>n, <2>2, <2>8
      <4>3. remain' \in Nat /\ filled' \in Nat
        BY <1>n, <2>2, <2>8
      <4>4. /\ Len(received) \in Nat /\ filled \in Nat /\ Accepted \in Nat /\ size \in Nat
            /\ Accepted' = Accepted + size /\ Len(received) + filled = Accepted
        BY <1>n, <2>2, <2>5, <2>6
      <4>5. Len(received) + (remain' - 0) + filled' = Accepted' + 0
        <5>1. remain' - 0 = remain'
          <6>1. \A a \in Nat : a - 0 = a
            OBVIOUS
          <6> QED BY <4>3, <6>1, Zenon
        <5>2. Len(received) + remain' + filled' = Len(received) + (remain' + filled')
          BY <4>3, <4>4
        <5>3. Len(received) + (filled + size) = Accepted' + 0
          BY <4>4
        <5> QED BY <4>2, <5>1, <5>2, <5>3
      <4> QED BY <3>1, <4>1, <4>5
    <3>3. filled' < FrameSize /\ Accepted' % FrameSize = filled'
      BY <1>n, <2>2, <2>5, <2>7, <2>8
    <3> QED BY <1>0, <1>1, <2>0, <3>1, <3>2, <3>3, Fields DEF Counted, Queued
  <2>13. Ordered'
    <3>1. ASSUME NEW k \in 1 .. filled + size PROVE units[k] = Len(received) + k
      <4>1. CASE k <= filled
        <5>1. k \in 1 .. filled /\ (Accepted - filled) + k = Len(received) + k
          <6>1. Accepted - filled = Len(received)
            BY <1>n, <2>6
          <6> QED BY <1>n, <2>2, <4>1, <6>1
        <5>2. inbuf[k] = (Accepted - filled) + k
          BY <1>1, <5>1, Fields DEF Ordered
        <5> QED BY <2>3, <5>1, <5>2
      <4>2. CASE k > filled
        <5> DEFINE j == k - filled
        <5>1. j \in 1 .. size /\ k = filled + j
          BY <1>n, <2>2, <4>2
        <5> HIDE DEF j
        <5>2. units[k] = Source(j)
          BY <2>3, <5>1
        <5>3. Source(j) = Accepted + j
          BY DEF Source, Accepted
        <5>4. /\ Len(received) \in Nat /\ filled \in Nat /\ Len(received) + filled = Accepted
              /\ j \in Nat
          BY <1>n, <2>2, <2>6, <5>1
        <5>5. Accepted + j = Len(received) + (filled + j)
          BY <5>4
        <5> QED BY <5>1, <5>2, <5>3, <5>5
      <4> QED BY <1>n, <2>2, <4>1, <4>2
    <3>2. env.block => \A i \in 1 .. Len(received') : received'[i] = Unit(i)'
      <4> SUFFICES ASSUME env.block, NEW i \in 1 .. Len(received)
                   PROVE  received[i] = Unit(i)'
        BY <1>0
      <4>1. i <= Accepted /\ i <= Accepted'
        BY <1>n, <2>2, <2>5, <2>6
      <4>2. received[i] = Unit(i)
        BY Fields DEF Ordered
      <4> QED BY <4>1, <4>2 DEF Unit
    <3>3. \A k \in 1 .. filled' : inbuf'[k] = (Accepted' - filled') + k
      <4>1. CASE filled + size = FrameSize
        BY <2>8, <4>1
      <4>2. CASE filled + size # FrameSize
        <5>1. inbuf' = units /\ filled' = filled + size
          BY <2>0, <2>3, <2>8, <4>2
        <5>2. Accepted' - filled' = Len(received)
          BY <1>n, <2>2, <2>5, <2>6, <5>1
        <5> QED BY <3>1, <5>1, <5>2
      <4> QED BY <4>1, <4>2
    <3> DEFINE Sent(k) == (Len(received') - call'.done) + k
               Kept(i) == IF i <= Accepted' THEN i ELSE 0
    <3>4. ASSUME remain' > 0
          PROVE  /\ call'.pc = "pending" /\ remain' = FrameSize /\ call'.ofs = 0
                 /\ \A k \in 1 .. FrameSize : outbuf'[k] = Kept(Sent(k))
      <4>1. filled + size = FrameSize /\ outbuf' = units /\ remain' = FrameSize
        BY <2>0, <2>3, <2>8, <3>4
      <4>2. Len(received') - call'.done = Len(received)
        BY <1>0, <1>n, <2>4
      <4>3. ASSUME NEW k \in 1 .. FrameSize PROVE outbuf'[k] = Kept(Sent(k))
        <5>1. outbuf'[k] = Len(received) + k
          BY <3>1, <4>1
        <5>2. Len(received) + k <= Accepted'
          BY <1>n, <2>2, <2>5, <2>6, <4>1
        <5> QED BY <4>2, <5>1, <5>2
      <4> QED BY <2>4, <3>4, <4>1, <4>3
    <3>5. env' = env
      BY <1>0 DEF history
    <3> QED BY <3>2, <3>3, <3>4, <3>5 DEF Ordered, Unit
  <2>14. Pointed'
    <3>1. io'.appl + call'.result + call'.left = io.appl + call.result + call.left
      <4>1. io.appl \in Nat
        BY Fields
      <4> QED BY SMTT(30), <1>n, <2>0, <2>2, <2>4, <4>1
    <3> QED BY <1>0, <2>0, <3>1, Fields DEF Pointed, history
  <2> QED BY <2>9, <2>10, <2>11, <2>12, <2>13, <2>14 DEF Flow
<1> QED BY <1>2, <1>3

LEMMA HwParamsInv == Flow /\ HwParams => Flow'
<1> SUFFICES ASSUME Flow, HwParams PROVE Flow'  OBVIOUS
<1>0. /\ Idle /\ io.state = "open" /\ io' = [io EXCEPT !.state = "setup"]
      /\ UNCHANGED <<encoder, received, call, history>>
  BY DEF HwParams
<1>1. PICK size \in SlaveSizes, threshold \in Thresholds :
        slave' = [slave EXCEPT !.state = "setup", !.size = size, !.threshold = threshold]
  BY DEF HwParams
<1>2. size \in Nat /\ threshold \in Nat
  BY A52Sizes
<1>3. /\ slave' \in Slaves /\ slave'.state = "setup" /\ slave'.size = size
      /\ slave'.played = slave.played
  BY <1>1, <1>2, Fields DEF Typed, Slaves, PcmStates
<1>4. io' \in Streams /\ io'.state = "setup" /\ io'.appl = io.appl
  BY <1>0, Fields DEF Typed, Streams, PcmStates
<1>5. call = NoCall /\ received = <<>> /\ slave.played = 0
  BY <1>0, Fields DEF Course, States
<1>6. Typed'
  BY <1>0, <1>3, <1>4, Fields DEF Typed, encoder, history
<1>7. Course'
  BY <1>0, Fields DEF Course, Idle, At, PendingFailed, filled, encoder, history
<1>8. States'
  BY <1>0, <1>3, <1>4, <1>5, NoCallFields, Fields
     DEF States, Idle, PendingFailed, Accepted, history
<1>9. Accepted' = Accepted /\ filled' = filled /\ Silence' = Silence
      /\ UNCHANGED <<padded, env, remain, inbuf>>
  BY <1>0, <1>4 DEF Accepted, filled, Silence, encoder, history
<1>10. Counted'
  <2>1. Len(received) = 0
    BY <1>5
  <2>2. Queued' = 0
    BY <1>0, <1>3, <1>5, <2>1 DEF Queued
  <2> QED BY <1>0, <1>2, <1>3, <1>9, <2>2, Fields DEF Counted
<1>11. Ordered' /\ Pointed'
  BY <1>0, <1>3, <1>4, <1>9, Fields DEF Ordered, Pointed, Live, Unit
<1> QED BY <1>6, <1>7, <1>8, <1>10, <1>11 DEF Flow

LEMMA PrepareInv == Basics /\ Prepare => Flow' /\ Unstarted'
<1> SUFFICES ASSUME Basics, Prepare PROVE Flow' /\ Unstarted'  OBVIOUS
<1>0. /\ Idle /\ io' = [state |-> "prepared", appl |-> 0, hw |-> 0, lastHw |-> 0]
      /\ inbuf' = <<>> /\ outbuf' = <<>> /\ remain' = 0
      /\ slave' = [slave EXCEPT !.state = "prepared", !.played = 0]
      /\ received' = <<>> /\ padded' = FALSE /\ drained' = FALSE
      /\ prepares' = prepares + 1 /\ UNCHANGED <<call, env>>
  BY DEF Prepare
<1>1. call = NoCall
  BY <1>0 DEF Basics
<1>2. /\ io' \in Streams /\ io'.state = "prepared" /\ io'.appl = 0 /\ io'.hw = 0 /\ io'.lastHw = 0
  BY <1>0, Sizes DEF Streams, PcmStates
<1>3. /\ slave' \in Slaves /\ slave'.state = "prepared" /\ slave'.played = 0
      /\ slave'.size = slave.size
  BY <1>0 DEF Basics, Slaves, PcmStates
<1>4. Typed'
  <2>1. inbuf' \in Seq(Int) /\ outbuf' \in Seq(Int) /\ received' \in Seq(Int)
    BY <1>0
  <2>2. prepares \in Nat
    BY DEF Basics
  <2>3. prepares' \in Nat
    BY <1>0, <2>2
  <2> QED BY <1>0, <1>1, <1>2, <1>3, <2>1, <2>3, NoCallFields DEF Typed, Basics
<1>5. filled' = 0 /\ Accepted' = 0 /\ Len(received') = 0 /\ Queued' = 0
  BY <1>0, <1>1, <1>2, <1>3, NoCallFields DEF filled, Accepted, Queued
<1>6. Course'
  BY <1>0, <1>1, NoCallFields DEF Course, Idle, At, PendingFailed
<1>7. States'
  BY <1>0, <1>1, <1>2, <1>3, NoCallFields DEF States, Idle, PendingFailed
<1>8. 0 % FrameSize = 0 /\ 0 % BufferSize = 0
  BY Sizes, ModSmall
<1>9. Counted'
  <2>1. /\ call'.done = 0 /\ Silence' = 0 /\ slave'.size \in Nat /\ remain' = 0 /\ ~padded'
    BY <1>0, <1>1, <1>3, NoCallFields, SlaveFields DEF Silence
  <2> QED BY <1>3, <1>5, <1>8, <2>1, Sizes DEF Counted
<1>10. Ordered'
  BY <1>0, <1>5 DEF Ordered
<1>11. Pointed'
  BY <1>0, <1>1, <1>2, <1>3, <1>8, NoCallFields DEF Pointed
<1>12. Unstarted'
  <2>1. slave.size > 0 /\ slave.threshold > 0 /\ slave'.threshold = slave.threshold
    BY <1>0 DEF Basics, Prepare, Slaves, Sound
  <2>2. call.left = 0
    BY <1>1, NoCallFields
  <2> QED BY <1>0, <1>2, <1>3, <1>5, <2>1, <2>2, Sizes DEF Unstarted
<1> QED BY <1>4, <1>6, <1>7, <1>9, <1>10, <1>11, <1>12 DEF Flow

-----------------------------------------------------------------------------
(* What holds of every slave, whatever becomes of the buffers.             *)
LEMMA SlaveStays ==
  ASSUME Basics,
         \/ slave' = slave \/ slave' = SlaveStart(slave)
         \/ \E n : slave' = Started(slave, n)
         \/ slave.state # "open"
              /\ \E q \in (PcmStates \cup {"draining"}) \ {"open"} :
                   slave' = [slave EXCEPT !.state = q]
  PROVE  /\ slave' \in Slaves /\ (slave'.state = "open" <=> slave.state = "open")
         /\ slave'.size = slave.size /\ slave'.threshold = slave.threshold
         /\ slave'.played = slave.played
BY DEF Basics, Slaves, Started, SlaveStart, PcmStates

(* A step of a call.                                                       *)
LEMMA CallStep ==
  ASSUME Basics, ~Idle, UNCHANGED <<voided, prepares, env>>, Recorded',
         slave' = slave \/ (\E n : slave' = Started(slave, n)),
         call'.pc # "idle", call'.pc = "pending" => call'.next \in Nexts,
         io'.state = "open" => io.state = "open"
  PROVE  Basics'
<1>1. /\ slave' \in Slaves /\ (slave'.state = "open" <=> slave.state = "open")
      /\ slave'.size = slave.size /\ slave'.threshold = slave.threshold
  BY SlaveStays
<1> QED BY <1>1 DEF Basics, Idle

LEMMA Returns ==
  ASSUME Basics, call.pc = "pending", NEW e, call' = Return(e), UNCHANGED io
  PROVE  Recorded' /\ call'.pc \in Nexts
<1>1. Recorded /\ call.next \in Nexts
  BY DEF Basics
<1> QED BY <1>1 DEF Return, Recorded

LEMMA CallEnds ==
  ASSUME Basics, ~Idle, Ends(call.result), UNCHANGED <<voided, prepares, env>>
  PROVE  Basics'
<1>1. Recorded /\ slave.state # "open" /\ io.state # "open"
  BY DEF Basics
<1>2. /\ slave' \in Slaves /\ slave'.state # "open"
      /\ slave'.size = slave.size /\ slave'.threshold = slave.threshold
  <2>1. slave' = slave \/ slave' = SlaveStart(slave)
    BY DEF Ends
  <2> QED BY <1>1, <2>1, SlaveStays
<1>3. Recorded' /\ io'.state # "open" /\ call' = NoCall /\ call'.pc = "idle"
  <2> DEFINE starts == io.state = "prepared" /\ io.appl - io.hw + call.result >= slave.threshold
             q == IF starts THEN "running" ELSE io.state
             a == io.appl + call.result
  <2>1. io' = [io EXCEPT !.appl = a, !.state = q] /\ q # "open"
    <3>1. io' = [io EXCEPT !.appl = a, !.state = q]
      BY Zenon DEF Ends
    <3> QED BY <1>1, <3>1
  <2> HIDE DEF q, a
  <2>2. call' = NoCall
    BY DEF Ends
  <2> QED BY <1>1, <2>1, <2>2 DEF Recorded, NoCall
<1> QED BY <1>1, <1>2, <1>3 DEF Basics, Idle

LEMMA BasicsOfWrite ==
  ASSUME Basics, WritePart \/ WriteAgain \/ WriteBlocking \/ WriteXrun \/ WriteNothing
  PROVE  Basics'
<1>0. /\ call.pc = "pending" /\ ~Idle /\ Recorded /\ call.next \in Nexts
      /\ UNCHANGED <<voided, prepares, env>>
  BY DEF Basics, Idle, history, WritePart, WriteAgain, WriteBlocking, WriteXrun, WriteNothing
<1>1. CASE WriteAgain
  BY <1>0, <1>1, Returns, CallStep DEF WriteAgain, Nexts
<1>2. CASE WritePart
  <2> DEFINE n == Lesser(Room, remain)
  <2>1. /\ Take(n) /\ UNCHANGED io
        /\ call' = Return("none") \/ call' = [call EXCEPT !.ofs = NextOfs(n)]
    BY <1>2, Zenon DEF WritePart
  <2>2. \E m : slave' = Started(slave, m)
    BY <2>1 DEF Take
  <2> HIDE DEF n
  <2>3. CASE call' = Return("none")
    BY <1>0, <2>1, <2>2, <2>3, Returns, CallStep DEF Nexts
  <2>4. CASE call' = [call EXCEPT !.ofs = NextOfs(n)]
    <3>1. Recorded' /\ call'.pc = "pending" /\ call'.next = call.next
      BY <1>0, <2>1, <2>4 DEF Recorded
    <3> QED BY <1>0, <2>1, <2>2, <3>1, CallStep
  <2> QED BY <2>1, <2>3, <2>4
<1>3. CASE WriteBlocking
  <2> DEFINE n == Lesser(Room, remain - call.done)
  <2>1. /\ Take(n) /\ UNCHANGED io
        /\ call' = Return("none") \/ \E m : call' = [call EXCEPT !.done = m]
    BY <1>3, Zenon DEF WriteBlocking
  <2>2. \E m : slave' = Started(slave, m)
    BY <2>1 DEF Take
  <2> HIDE DEF n
  <2>3. CASE call' = Return("none")
    BY <1>0, <2>1, <2>2, <2>3, Returns, CallStep DEF Nexts
  <2>4. ASSUME NEW m, call' = [call EXCEPT !.done = m] PROVE Basics'
    <3>1. Recorded' /\ call'.pc = "pending" /\ call'.next = call.next
      BY <1>0, <2>1, <2>4 DEF Recorded
    <3> QED BY <1>0, <2>1, <2>2, <3>1, CallStep
  <2> QED BY <2>1, <2>3, <2>4
<1>4. ASSUME WriteEnds, UNCHANGED slave PROVE Basics'
  <2>1. \E m : call' = [call EXCEPT !.ofs = m, !.done = 0] /\ UNCHANGED io
    BY <1>4, Zenon DEF WriteEnds
  <2>2. Recorded' /\ call'.pc = "pending" /\ call'.next = call.next
    BY <1>0, <2>1 DEF Recorded
  <2> QED BY <1>0, <1>4, <2>1, <2>2, CallStep
<1>5. CASE WriteXrun /\ ~(call.done > 0)
  <2>1. call' = Return("pipe") /\ io' = [io EXCEPT !.state = "xrun"] /\ UNCHANGED slave
    BY <1>5 DEF WriteXrun
  <2>2. Recorded' /\ call'.pc \in Nexts /\ io'.state = "xrun"
    BY <1>0, <2>1 DEF Recorded, Return
  <2> QED BY <1>0, <2>1, <2>2, CallStep DEF Nexts
<1>6. CASE WriteNothing /\ ~(call.done > 0)
  BY <1>0, <1>6, Returns, CallStep DEF WriteNothing, Nexts
<1> QED BY <1>1, <1>2, <1>3, <1>4, <1>5, <1>6 DEF WriteXrun, WriteNothing

LEMMA BasicsOfSteps ==
  ASSUME Basics, Steps
  PROVE  Basics'
<1>0. Recorded
  BY DEF Basics
<1>1. CASE Fill
  <2>0. call.pc = "fill" /\ ~Idle /\ UNCHANGED <<voided, prepares, env>>
    BY <1>1 DEF Fill, Idle, history
  <2>1. CASE PendingFailed
    BY <1>1, <2>0, <2>1, CallEnds DEF Fill
  <2>2. CASE ~PendingFailed
    <3>1. /\ UNCHANGED <<io, slave>>
          /\ \E c : /\ \E l, r : c = [call EXCEPT !.left = l, !.result = r]
                    /\ call' = Out("filled", c) \/ call' = [c EXCEPT !.pc = "filled"]
      BY <1>1, <2>2, Zenon DEF Fill
    <3>2. PICK c, l, r : /\ c = [call EXCEPT !.left = l, !.result = r]
                         /\ call' = Out("filled", c) \/ call' = [c EXCEPT !.pc = "filled"]
      BY <3>1
    <3>3. /\ Recorded' /\ call'.pc \in {"pending", "filled"}
          /\ call'.pc = "pending" => call'.next = "filled"
      BY <1>0, <3>1, <3>2 DEF Recorded, Out
    <3> QED BY <2>0, <3>1, <3>3, CallStep DEF Nexts
  <2> QED BY <2>1, <2>2
<1>2. CASE Filled
  <2>0. call.pc = "filled" /\ ~Idle /\ UNCHANGED <<voided, prepares, env>>
    BY <1>2 DEF Filled, Idle, history
  <2>1. CASE call.left = 0
    BY <1>2, <2>0, <2>1, CallEnds DEF Filled
  <2>2. CASE call.left # 0
    <3>1. /\ UNCHANGED <<io, slave>>
          /\ call' = [call EXCEPT !.pc = IF remain > 0 THEN "pending" ELSE "fill",
                                  !.next = "fill", !.ofs = 0, !.done = 0, !.err = "none"]
      BY <1>2, <2>2 DEF Filled
    <3>2. Recorded' /\ call'.pc \in {"pending", "fill"} /\ call'.next = "fill"
      BY <1>0, <3>1 DEF Recorded
    <3> QED BY <2>0, <3>1, <3>2, CallStep DEF Nexts
  <2> QED BY <2>1, <2>2
<1>3. CASE DrainConvert
  <2>0. /\ call.pc = "convert" /\ ~Idle /\ UNCHANGED <<io, slave, voided, prepares, env>>
        /\ call' = [call EXCEPT !.pc = "stop"] \/ call' = Out("last", call)
    BY <1>3 DEF DrainConvert, Idle
  <2>1. /\ Recorded' /\ call'.pc \in {"pending", "stop"}
        /\ call'.pc = "pending" => call'.next = "last"
    BY <1>0, <2>0 DEF Recorded, Out
  <2> QED BY <2>0, <2>1, CallStep DEF Nexts
<1>4. CASE DrainSlave
  <2>0. /\ call.pc = "last" /\ ~Idle /\ UNCHANGED <<io, voided, prepares, env>>
        /\ call' = [call EXCEPT !.pc = IF PendingFailed THEN "stop" ELSE "drain"]
        /\ slave' = IF PendingFailed \/ slave.state = "xrun" THEN slave
                    ELSE [slave EXCEPT !.state = IF Queued > 0 THEN "draining" ELSE "setup"]
    BY <1>4 DEF DrainSlave, Idle, history
  <2>1. Recorded' /\ call'.pc \in {"stop", "drain"}
    BY <1>0, <2>0 DEF Recorded
  <2>2. slave.state # "open"
    BY <2>0 DEF Basics
  <2>3. /\ slave' \in Slaves /\ slave'.state # "open"
        /\ slave'.size = slave.size /\ slave'.threshold = slave.threshold
    <3>1. \/ slave' = slave
          \/ \E q \in (PcmStates \cup {"draining"}) \ {"open"} : slave' = [slave EXCEPT !.state = q]
      BY <2>0 DEF PcmStates
    <3> QED BY <2>2, <3>1, SlaveStays
  <2> QED BY <2>0, <2>1, <2>2, <2>3 DEF Basics, Idle
<1>5. CASE DrainReturns
  <2>0. /\ call.pc = "drain" /\ ~Idle /\ UNCHANGED <<io, slave, voided, prepares, env>>
        /\ call' = [call EXCEPT !.pc = "stop"]
    BY <1>5 DEF DrainReturns, Idle
  <2>1. Recorded' /\ call'.pc = "stop"
    BY <1>0, <2>0 DEF Recorded
  <2> QED BY <2>0, <2>1, CallStep
<1> QED BY <1>1, <1>2, <1>3, <1>4, <1>5, BasicsOfWrite DEF Steps

LEMMA BasicsStep ==
  ASSUME Basics, [Next]_vars
  PROVE  Basics'
<1>0. Recorded /\ slave \in Slaves
  BY DEF Basics
<1>1. CASE HwParams
  <2>0. /\ Idle /\ io' = [io EXCEPT !.state = "setup"] /\ UNCHANGED <<call, history>>
    BY <1>1 DEF HwParams
  <2>1. PICK size \in SlaveSizes, threshold \in Thresholds :
          slave' = [slave EXCEPT !.state = "setup", !.size = size, !.threshold = threshold]
    BY <1>1 DEF HwParams
  <2>2. size \in Nat \ {0} /\ threshold \in Nat \ {0}
    BY A52Sizes
  <2>3. slave' \in Slaves /\ slave'.state = "setup" /\ slave'.size > 0 /\ slave'.threshold > 0
    <3>1. slave \in Slaves /\ size \in Nat /\ threshold \in Nat
      BY <1>0, <2>2
    <3>2. /\ slave' \in Slaves /\ slave'.state = "setup"
          /\ slave'.size = size /\ slave'.threshold = threshold
      BY <2>1, <3>1 DEF Slaves, PcmStates
    <3> QED BY <2>2, <3>2
  <2>4. Recorded' /\ io'.state = "setup"
    BY <1>0, <2>0 DEF Recorded
  <2> QED BY <2>0, <2>3, <2>4 DEF Basics, Idle, history
<1>2. CASE Prepare \/ PrepareBusy
  <2>0. /\ Idle /\ io.state # "open" /\ prepares' = prepares + 1 /\ UNCHANGED <<call, env>>
        /\ \/ slave' = slave
           \/ slave' = [slave EXCEPT !.state = "prepared", !.played = 0]
        /\ \/ io' = [state |-> "prepared", appl |-> 0, hw |-> 0, lastHw |-> 0]
           \/ io' = [io EXCEPT !.appl = 0, !.hw = 0, !.lastHw = 0]
    BY <1>2 DEF Prepare, PrepareBusy
  <2>1. Recorded' /\ io'.state # "open"
    <3>1. CASE io' = [state |-> "prepared", appl |-> 0, hw |-> 0, lastHw |-> 0]
      BY <1>0, <2>0, <3>1 DEF Recorded
    <3>2. CASE io' = [io EXCEPT !.appl = 0, !.hw = 0, !.lastHw = 0]
      BY <1>0, <2>0, <3>2 DEF Recorded
    <3> QED BY <2>0, <3>1, <3>2
  <2>2. /\ slave' \in Slaves /\ slave'.state # "open"
        /\ slave'.size = slave.size /\ slave'.threshold = slave.threshold
    <3>1. slave.state # "open"
      BY <2>0 DEF Basics
    <3>2. CASE slave' = [slave EXCEPT !.state = "prepared", !.played = 0]
      BY <1>0, <3>2 DEF Slaves, PcmStates
    <3> QED BY <1>0, <2>0, <3>1, <3>2
  <2> QED BY <2>0, <2>1, <2>2 DEF Basics, Idle
<1>3. CASE HwPtrUpdate \/ Transfer
  <2>0. /\ Idle /\ io.state # "open" /\ io' = Updated /\ UNCHANGED <<slave, history>>
        /\ \/ call' = call
           \/ \E n : call' = [NoCall EXCEPT !.pc = IF remain > 0 THEN "pending" ELSE "fill",
                                             !.next = "fill", !.left = n]
    <3>1. Idle /\ io.state # "open" /\ io' = Updated /\ UNCHANGED <<slave, history>>
      BY <1>3 DEF HwPtrUpdate, Transfer
    <3> QED BY <1>3, <3>1, Zenon DEF HwPtrUpdate, Transfer
  <2>1. /\ io' = [state |-> io'.state, appl |-> io'.appl, hw |-> io'.hw, lastHw |-> io'.lastHw]
        /\ io'.state # "open"
    <3>1. \/ io' = [io EXCEPT !.state = "xrun"]
          \/ \E a, b : io' = [io EXCEPT !.lastHw = a, !.hw = b]
      BY <2>0, Zenon DEF Updated
    <3> QED BY <1>0, <2>0, <3>1 DEF Recorded
  <2>2. CASE call' = call
    BY <1>0, <2>0, <2>1, <2>2 DEF Basics, Idle, Recorded, history, Sound, StartsInTime
  <2>3. CASE call' # call
    <3>1. PICK n : call' = [NoCall EXCEPT !.pc = IF remain > 0 THEN "pending" ELSE "fill",
                                          !.next = "fill", !.left = n]
      BY <2>0, <2>3
    <3>2. /\ call' = [pc |-> call'.pc, next |-> call'.next, left |-> call'.left,
                      result |-> call'.result, ofs |-> call'.ofs, done |-> call'.done,
                      err |-> call'.err]
          /\ call'.pc \in {"pending", "fill"} /\ call'.next = "fill"
      BY <3>1 DEF NoCall
    <3> QED BY <2>0, <2>1, <3>2 DEF Basics, Idle, Recorded, history, Nexts
  <2> QED BY <2>2, <2>3
<1>4. CASE Start
  <2>0. /\ Idle /\ io.state # "open" /\ io' = [io EXCEPT !.state = "running"]
        /\ slave' = SlaveStart(slave) /\ UNCHANGED <<call, history>>
    BY <1>4 DEF Start
  <2>1. Recorded' /\ io'.state # "open"
    BY <1>0, <2>0 DEF Recorded
  <2>2. /\ slave' \in Slaves /\ (slave'.state = "open" <=> slave.state = "open")
        /\ slave'.size = slave.size /\ slave'.threshold = slave.threshold
    BY <2>0, SlaveStays
  <2> QED BY <2>0, <2>1, <2>2 DEF Basics, Idle, history
<1>5. CASE Drain
  <2>0. /\ Idle /\ io.state # "open" /\ UNCHANGED <<io, slave, history>>
        /\ call' = [NoCall EXCEPT !.pc = IF remain > 0 THEN "pending" ELSE ToDrain,
                                  !.next = ToDrain]
    BY <1>5 DEF Drain
  <2>1. Recorded' /\ call'.pc \in {"pending", "convert", "last"} /\ call'.next \in Nexts
    BY <1>0, <2>0 DEF Recorded, NoCall, ToDrain, Nexts
  <2> QED BY <2>0, <2>1 DEF Basics, Idle, history
<1>6. CASE Stop
  <2>0. /\ slave.state # "open" /\ io' = [io EXCEPT !.state = "setup"]
        /\ slave' = [slave EXCEPT !.state = "setup"] /\ call' = NoCall /\ UNCHANGED history
    BY <1>6 DEF Stop, Basics, Idle
  <2>1. Recorded' /\ io'.state # "open"
    BY <1>0, <2>0 DEF Recorded, NoCall
  <2>2. /\ slave' \in Slaves /\ slave'.state # "open"
        /\ slave'.size = slave.size /\ slave'.threshold = slave.threshold
    BY <2>0 DEF Basics, Slaves, PcmStates
  <2> QED BY <2>0, <2>1, <2>2, NoCallFields DEF Basics, Idle, history
<1>7. CASE Play
  <2>0. slave.state \in {"running", "draining"} /\ UNCHANGED <<io, call, history>>
    BY <1>7 DEF Play
  <2>1. PICK n \in Nat, q \in PcmStates \cup {"draining"} :
          q # "open" /\ slave' = [slave EXCEPT !.played = slave.played + n, !.state = q]
    <3>1. PICK n \in 1 .. Queued :
            slave' = [slave EXCEPT !.played = @ + n,
                                   !.state = IF n < Queued THEN @
                                             ELSE IF @ = "running" THEN "xrun" ELSE "setup"]
      BY <1>7 DEF Play
    <3> DEFINE q == IF n < Queued THEN slave.state
                    ELSE IF slave.state = "running" THEN "xrun" ELSE "setup"
    <3>2. slave' = [slave EXCEPT !.played = slave.played + n, !.state = q]
      BY <3>1, Zenon
    <3>3. q \in PcmStates \cup {"draining"} /\ q # "open"
      BY <2>0 DEF PcmStates
    <3>4. n \in Nat
      OBVIOUS
    <3> QED BY <3>2, <3>3, <3>4
  <2>2. /\ slave' \in Slaves /\ slave'.state # "open"
        /\ slave'.size = slave.size /\ slave'.threshold = slave.threshold
    <3>1. slave.played + n \in Nat
      BY <1>0 DEF Slaves
    <3> QED BY <1>0, <2>1, <3>1 DEF Slaves
  <2> QED BY <1>0, <2>0, <2>2 DEF Basics, Idle, Recorded, history
<1>8. CASE UNCHANGED vars
  BY <1>0, <1>8 DEF vars, Basics, Idle, Recorded, Sound, StartsInTime, history
<1> QED BY <1>1, <1>2, <1>3, <1>4, <1>5, <1>6, <1>7, <1>8, BasicsOfSteps DEF Next

-----------------------------------------------------------------------------
(* A slave that has not started, and starts in time, always has room for   *)
(* what is pending: write_out_pending never returns with a frame left.     *)
LEMMA RoundedUp ==
  ASSUME NEW M \in Nat \ {0}, NEW a \in Nat, NEW b \in Nat, b % M = 0, a <= b
  PROVE  a + ((-a) % M) <= b
<1>1. PICK q \in Int : a = (M * q) + (a % M)
  <2>1. M \in Nat \ {0} /\ a \in Int
    OBVIOUS
  <2> QED BY ONLY <2>1, ModQuotient, Zenon
<1>2. PICK k \in Int : b = (M * k) + (b % M)
  <2>1. M \in Nat \ {0} /\ b \in Int
    OBVIOUS
  <2> QED BY ONLY <2>1, ModQuotient, Zenon
<1> DEFINE r == a % M
<1>3. r \in 0 .. M - 1 /\ a = (M * q) + r /\ b = M * k
  BY <1>1, <1>2, ModRange
<1>4. (-a) % M = IF r = 0 THEN 0 ELSE M - r
  BY ModMinus
<1> HIDE DEF r
<1>5. CASE r = 0
  BY <1>4, <1>5
<1>6. CASE r # 0
  <2>1. q + 1 <= k
    <3> SUFFICES ASSUME q >= k PROVE FALSE
      OBVIOUS
    <3>1. M * q >= M * k
      OBVIOUS
    <3> QED BY <1>3, <1>6, <3>1
  <2>2. M * (q + 1) <= M * k
    BY <2>1
  <2>3. a + (M - r) = M * (q + 1)
    BY <1>3
  <2> QED BY <1>3, <1>4, <1>6, <2>2, <2>3
<1> QED BY <1>5, <1>6

LEMMA PreparedRoom ==
  ASSUME Flow, Unstarted, Sound, call.pc = "pending", slave.state = "prepared"
  PROVE  Room > 0
<1>n. /\ FrameSize \in Nat \ {0} /\ slave.size \in Nat /\ slave.played \in Nat
      /\ call.left \in Nat /\ call.done \in Nat /\ remain \in Nat /\ filled \in Nat
      /\ Len(received) \in Nat /\ Queued = Len(received) - slave.played
      /\ Room = slave.size - Queued /\ Accepted \in Nat /\ Silence \in Nat
      /\ Len(received) + (remain - call.done) + filled = Accepted + Silence
      /\ slave.threshold \in Nat
  BY NumbersHold, Fields DEF Numbers
<1>1. call.done < remain /\ slave.played = 0
  BY Fields DEF Course, States
<1>2. Queued < slave.threshold /\ Accepted <= BufferSize
  <2>1. Accepted + call.left <= BufferSize /\ Queued < slave.threshold
    BY DEF Unstarted
  <2> QED BY <1>n, <2>1, Sizes
<1>3. CASE slave.threshold <= slave.size
  BY SMTT(30), <1>n, <1>2, <1>3
<1>4. CASE slave.size >= BufferSize
  <2>1. Accepted + Silence <= BufferSize
    <3>1. BufferSize % FrameSize = 0
      BY A52Sizes
    <3>2. Accepted + ((-Accepted) % FrameSize) <= BufferSize
      BY <1>n, <1>2, <3>1, Sizes, RoundedUp
    <3>3. Accepted + 0 <= BufferSize
      BY <1>n, <1>2
    <3> QED BY <3>2, <3>3 DEF Silence
  <2>2. Len(received) < Accepted + Silence
    BY <1>n, <1>1
  <2> QED BY <1>n, <1>1, <1>4, <2>1, <2>2, Sizes
<1> QED BY <1>3, <1>4 DEF Sound, StartsInTime

LEMMA StaysUnstarted ==
  ASSUME Flow, Unstarted,
         slave'.state = "prepared" =>
           /\ slave.state = "prepared" /\ slave'.size = slave.size
           /\ slave'.threshold = slave.threshold /\ Queued' < slave.threshold
           /\ io'.hw = 0 /\ io'.lastHw = 0 /\ Accepted' + call'.left <= BufferSize
  PROVE  Unstarted'
BY DEF Unstarted

(* The slave as it was, or started: nothing else becomes of a prepared one.*)
LEMMA WaitsOn ==
  ASSUME Flow, Unstarted, Basics,
         slave' = slave \/ slave' = SlaveStart(slave),
         UNCHANGED received, slave.state = "prepared" =>
           io'.hw = 0 /\ io'.lastHw = 0 /\ Accepted' + call'.left <= BufferSize
  PROVE  Unstarted'
<1>1. /\ slave'.size = slave.size /\ slave'.threshold = slave.threshold
      /\ slave'.played = slave.played
  BY SlaveStays
<1>2. slave'.state = "prepared" => slave.state = "prepared"
  BY DEF SlaveStart, Basics, Slaves
<1>3. Queued' = Queued
  BY <1>1 DEF Queued
<1> QED BY <1>1, <1>2, <1>3, StaysUnstarted DEF Unstarted

LEMMA UnstartedOfWrite ==
  ASSUME Flow, Unstarted, Basics, Flow', WritePart \/ WriteBlocking
  PROVE  Unstarted'
<1>n. /\ call.left \in Nat /\ call.done \in Nat /\ remain \in Nat /\ Room \in Int
      /\ Len(received) \in Nat /\ slave.played \in Nat /\ Queued = Len(received) - slave.played
  BY NumbersHold DEF Numbers
<1>0. PICK n \in 1 .. Room : Take(n)
  <2>1. CASE WritePart
    <3>1. call.done < remain /\ Room > 0 /\ Take(Lesser(Room, remain))
      BY <2>1, Fields DEF WritePart, Course
    <3>2. Lesser(Room, remain) \in 1 .. Room
      BY <1>n, <3>1 DEF Lesser
    <3> QED BY <3>1, <3>2
  <2>2. CASE WriteBlocking
    <3>1. call.done < remain /\ Room > 0 /\ Take(Lesser(Room, remain - call.done))
      BY <2>2, Fields DEF WriteBlocking, Course
    <3>2. Lesser(Room, remain - call.done) \in 1 .. Room
      BY <1>n, <3>1 DEF Lesser
    <3> QED BY <3>1, <3>2
  <2> QED BY <2>1, <2>2
<1>1. /\ call.pc = "pending" /\ remain > 0 /\ slave.state # "xrun" /\ UNCHANGED io
      /\ call'.left = call.left /\ call'.result = call.result
  <2>1. /\ call.pc = "pending" /\ slave.state # "xrun" /\ UNCHANGED io /\ call \in Calls
        /\ \/ \E e : call' = Return(e)
           \/ \E m : call' = [call EXCEPT !.ofs = m]
           \/ \E m : call' = [call EXCEPT !.done = m]
    BY Fields, Zenon DEF WritePart, WriteBlocking, Typed
  <2>2. call'.left = call.left /\ call'.result = call.result
    BY <2>1 DEF Return, Calls
  <2>3. call.done < remain
    BY <2>1, Fields DEF Course
  <2> QED BY <1>n, <2>1, <2>2, <2>3
<1>2. Live /\ Len(outbuf) = FrameSize
  BY <1>1, Fields DEF Course, States, Live, Idle
<1>3. Len(received') = Len(received) + n
  BY <1>0, <1>2, Taken
<1>4. slave' = Started(slave, Queued + n)
  BY <1>0 DEF Take
<1>5. /\ slave'.size = slave.size /\ slave'.threshold = slave.threshold
      /\ slave'.played = slave.played
  BY <1>4, SlaveStays
<1>6. Queued' = Queued + n
  BY <1>n, <1>3, <1>5 DEF Queued
<1>7. slave'.state = "prepared" => slave.state = "prepared" /\ ~(Queued + n >= slave.threshold)
  BY <1>4 DEF Started, Basics, Slaves
<1>8. Queued + n \in Int /\ slave.threshold \in Int
  BY <1>n, Fields
<1>9. Accepted' = Accepted
  BY <1>1 DEF Accepted
<1> QED BY <1>1, <1>5, <1>6, <1>7, <1>8, <1>9, StaysUnstarted DEF Unstarted

LEMMA UnstartedOfTransfer ==
  ASSUME Flow, Unstarted, Basics, HwPtrUpdate \/ Transfer
  PROVE  Unstarted'
<1>0. /\ Idle /\ io' = Updated /\ UNCHANGED <<slave, received>> /\ call = NoCall
  BY Fields DEF HwPtrUpdate, Transfer, Course
<1>1. SUFFICES ASSUME slave.state = "prepared"
               PROVE  io'.hw = 0 /\ io'.lastHw = 0 /\ Accepted' + call'.left <= BufferSize
  BY <1>0, WaitsOn
<1>2. Updated.hw = 0 /\ Updated.lastHw = 0 /\ Updated.appl = io.appl /\ Updated.state = io.state
  <2>1. Pointer = 0
    BY <1>1 DEF Pointer, NonePlayed
  <2> QED BY SMTT(30), <1>1, <2>1, UpdatedTyped, Fields DEF Unstarted
<1>3. io.appl \in Nat /\ BufferSize \in Nat /\ io.appl + 0 <= BufferSize
  BY <1>0, <1>1, Fields, NoCallFields DEF Unstarted, Accepted
<1>4. CASE UNCHANGED call
  BY <1>0, <1>2, <1>3, <1>4, NoCallFields DEF Accepted
<1>5. CASE ~UNCHANGED call
  <2>1. PICK n \in 1 .. Avail : \E p : call' = [NoCall EXCEPT !.pc = p, !.next = "fill", !.left = n]
    BY <1>5, Zenon DEF HwPtrUpdate, Transfer
  <2>2. call'.left = n /\ call'.result = 0
    BY <2>1 DEF NoCall
  <2>3. Avail = BufferSize - io.appl
    BY <1>2, <1>3 DEF Avail
  <2>4. n \in Int /\ io.appl + n <= BufferSize
    BY <1>3, <2>3
  <2> QED BY <1>0, <1>2, <1>3, <2>2, <2>4 DEF Accepted
<1> QED BY <1>4, <1>5

LEMMA UnstartedOfFill ==
  ASSUME Flow, Unstarted, Basics, Fill \/ Filled
  PROVE  Unstarted'
<1>n. /\ call.left \in Nat /\ call.result \in Nat /\ io.appl \in Nat /\ filled \in Nat
      /\ FrameSize \in Nat /\ filled < FrameSize /\ BufferSize \in Nat /\ call \in Calls
      /\ io \in Streams
  BY NumbersHold, Fields DEF Numbers, Typed
<1>0. UNCHANGED received
  BY DEF Fill, Filled
<1>1. ASSUME Ends(call.result) PROVE Unstarted'
  <2>1. /\ call' = NoCall /\ io'.appl = io.appl + call.result /\ io'.hw = io.hw
        /\ io'.lastHw = io.lastHw
    BY <1>1, <1>n DEF Ends, Streams
  <2>2. slave' = slave \/ slave' = SlaveStart(slave)
    BY <1>1 DEF Ends
  <2>3. Accepted' + call'.left = Accepted
    BY <1>n, <2>1, NoCallFields DEF Accepted
  <2>4. slave.state = "prepared" => Accepted <= BufferSize
    <3>1. Accepted \in Nat
      BY Fields
    <3> QED BY <1>n, <3>1 DEF Unstarted
  <2> QED BY <1>0, <2>1, <2>2, <2>3, <2>4, WaitsOn DEF Unstarted
<1>2. ASSUME UNCHANGED <<io, slave>>, call'.result + call'.left = call.result + call.left,
             call'.result \in Nat, call'.left \in Nat
      PROVE  Unstarted'
  <2>1. Accepted' + call'.left = Accepted + call.left
    BY <1>n, <1>2 DEF Accepted
  <2> QED BY <1>0, <1>2, <2>1, WaitsOn DEF Unstarted
<1>3. CASE Filled /\ ~(call.left = 0)
  <2>1. /\ UNCHANGED <<io, slave>>
        /\ \E p : call' = [call EXCEPT !.pc = p, !.next = "fill", !.ofs = 0, !.done = 0,
                                       !.err = "none"]
    BY <1>3, Zenon DEF Filled
  <2>2. call'.left = call.left /\ call'.result = call.result
    BY <1>n, <2>1 DEF Calls
  <2> QED BY <1>n, <1>2, <2>1, <2>2
<1>4. CASE Fill /\ ~PendingFailed
  <2> DEFINE size == Lesser(call.left, FrameSize - filled)
             rest == [call EXCEPT !.left = @ - size, !.result = @ + size]
  <2>1. UNCHANGED <<io, slave>> /\ (call' = Out("filled", rest) \/ call' = [rest EXCEPT !.pc = "filled"])
    BY <1>4, Zenon DEF Fill
  <2>2. size \in Nat /\ size <= call.left
    BY <1>n DEF Lesser
  <2> HIDE DEF size
  <2>3. rest.left = call.left - size /\ rest.result = call.result + size /\ rest \in Calls
    <3>1. rest = [call EXCEPT !.left = call.left - size, !.result = call.result + size]
      BY Zenon
    <3>2. call.left - size \in Nat /\ call.result + size \in Nat
      BY <1>n, <2>2
    <3> HIDE DEF rest
    <3> QED BY <1>n, <3>1, <3>2 DEF Calls
  <2> HIDE DEF rest
  <2>4. call'.left = rest.left /\ call'.result = rest.result
    BY <2>1, <2>3 DEF Out, Calls
  <2>5. /\ call'.left = call.left - size /\ call'.result = call.result + size
        /\ call'.left \in Nat /\ call'.result \in Nat
    BY <1>n, <2>2, <2>3, <2>4
  <2>6. call'.result + call'.left = call.result + call.left
    BY <1>n, <2>2, <2>5
  <2> QED BY <1>2, <2>1, <2>5, <2>6
<1> QED BY <1>1, <1>3, <1>4 DEF Fill, Filled

LEMMA UnstartedStep ==
  ASSUME Flow, Unstarted, Basics, Flow', Next, ~Prepare, ~PrepareBusy, ~WriteNothing
  PROVE  Unstarted'
<1>0. call \in Calls /\ io \in Streams /\ slave \in Slaves
  BY Fields DEF Typed
<1>1. CASE HwParams \/ DrainSlave \/ Stop \/ Play
  <2>1. CASE DrainSlave
    <3>1. slave'.state = "prepared" => slave' = slave
      BY <1>0, <2>1 DEF DrainSlave, Slaves
    <3>2. /\ UNCHANGED <<io, received>>
          /\ \E p : call' = [call EXCEPT !.pc = p]
      BY <2>1, Zenon DEF DrainSlave
    <3>3. call'.left = call.left /\ call'.result = call.result
      BY <1>0, <3>2 DEF Calls
    <3> QED BY <3>1, <3>2, <3>3, StaysUnstarted DEF Unstarted, Queued, Accepted
  <2>2. CASE HwParams \/ Stop \/ Play
    <3>1. slave'.state # "prepared"
      BY <1>0, <2>2 DEF HwParams, Stop, Play, Slaves
    <3> QED BY <3>1 DEF Unstarted
  <2> QED BY <1>1, <2>1, <2>2
<1>2. CASE WriteAgain \/ WriteXrun
  <2>1. slave'.state # "prepared"
    BY <1>2 DEF WriteAgain, WriteXrun
  <2> QED BY <2>1 DEF Unstarted
<1>3. CASE Start
  <2>1. /\ UNCHANGED <<received, call>> /\ io' = [io EXCEPT !.state = "running"]
        /\ slave' = SlaveStart(slave)
    BY <1>3 DEF Start
  <2>2. io'.appl = io.appl /\ io'.hw = io.hw /\ io'.lastHw = io.lastHw
    BY <1>0, <2>1 DEF Streams
  <2> QED BY <2>1, <2>2, WaitsOn DEF Unstarted, Accepted
<1>4. CASE Drain
  <2>1. /\ UNCHANGED <<io, slave, received>> /\ call = NoCall
        /\ \E p, q : call' = [NoCall EXCEPT !.pc = p, !.next = q]
    BY <1>4, Fields, Zenon DEF Drain, Course
  <2>2. call'.left = call.left /\ call'.result = call.result
    BY <2>1 DEF NoCall
  <2> QED BY <2>1, <2>2, WaitsOn DEF Unstarted, Accepted
<1>5. CASE DrainConvert \/ DrainReturns
  <2>1. /\ UNCHANGED <<io, slave, received>>
        /\ call' = Out("last", call) \/ \E p : call' = [call EXCEPT !.pc = p]
    BY <1>5, Zenon DEF DrainConvert, DrainReturns
  <2>2. call'.left = call.left /\ call'.result = call.result
    BY <1>0, <2>1 DEF Out, Calls
  <2> QED BY <2>1, <2>2, WaitsOn DEF Unstarted, Accepted
<1> QED BY <1>1, <1>2, <1>3, <1>4, <1>5, UnstartedOfWrite, UnstartedOfTransfer, UnstartedOfFill
        DEF Next, Steps

(* A slave that starts in time has done so since it was configured, and a  *)
(* prepare that succeeds starts over.                                      *)
LEMMA SoundBefore ==
  ASSUME Basics, [Next]_vars, ~Prepare, ~HwParams, Sound'
  PROVE  Sound
<1>1. slave'.size = slave.size /\ slave'.threshold = slave.threshold /\ voided' = voided
  <2>1. CASE Steps
    <3>1. UNCHANGED voided
      BY <2>1 DEF Steps, history, WritePart, WriteAgain, WriteBlocking, WriteXrun, WriteNothing,
                  Fill, Filled, DrainConvert, DrainSlave, DrainReturns
    <3>2. \/ slave' = slave \/ slave' = SlaveStart(slave)
          \/ \E n : slave' = Started(slave, n) \/ \E q : slave' = [slave EXCEPT !.state = q]
      BY <2>1, Zenon DEF Steps, WritePart, WriteAgain, WriteBlocking, WriteXrun, WriteNothing,
                  Fill, Filled, Ends, Take, DrainConvert, DrainSlave, DrainReturns
    <3>3. slave \in Slaves
      BY DEF Basics
    <3> QED BY <3>1, <3>2, <3>3 DEF Slaves, Started, SlaveStart
  <2>2. CASE ~Steps
    <3>1. ~PrepareBusy
      BY DEF PrepareBusy, Sound
    <3>2. slave \in Slaves
      BY DEF Basics
    <3> QED BY <2>2, <3>1, <3>2 DEF Next, vars, history, HwPtrUpdate, Transfer, Start, Drain, Stop,
                                   Play, SlaveStart, Slaves
  <2> QED BY <2>1, <2>2
<1> QED BY <1>1 DEF Sound, StartsInTime

LEMMA InitInv == Init => IInv
<1> SUFFICES ASSUME Init PROVE IInv  OBVIOUS
<1>1. Flow
  BY InitFlow
<1>2. Unstarted
  BY DEF Init, Unstarted
<1>3. Basics
  <2>1. call = NoCall /\ slave.state = "open" /\ io.state = "open" /\ env \in Modes
    BY <1>1 DEF Init, Flow, Typed
  <2>2. Sound
    BY DEF Init, Sound, StartsInTime
  <2>3. Recorded /\ call.pc = "idle"
    BY DEF Init, Recorded, NoCall
  <2>4. slave \in Slaves
    BY <1>1 DEF Flow, Typed
  <2>5. prepares \in Nat
    BY DEF Init
  <2> QED BY <2>1, <2>2, <2>3, <2>4, <2>5 DEF Basics, Idle
<1> QED BY <1>1, <1>2, <1>3 DEF IInv

LEMMA StepInv == IInv /\ [Next]_vars => IInv'
<1> SUFFICES ASSUME IInv, [Next]_vars PROVE IInv'  OBVIOUS
<1>0. Basics /\ Basics'
  BY BasicsStep DEF IInv
<1>1. CASE Prepare
  BY <1>0, <1>1, PrepareInv DEF IInv
<1>2. CASE ~Prepare
  <2> SUFFICES ASSUME Sound' PROVE Flow' /\ Unstarted'
    BY <1>0 DEF IInv
  <2>1. Sound
    <3>1. CASE HwParams
      BY <1>0, <3>1 DEF HwParams, Basics
    <3>2. CASE ~HwParams
      BY <1>0, <1>2, <3>2, SoundBefore
    <3> QED BY <3>1, <3>2
  <2>2. Flow /\ Unstarted
    BY <2>1 DEF IInv
  <2>3. ~PrepareBusy /\ ~WriteNothing
    <3>1. ~PrepareBusy
      BY DEF PrepareBusy, Sound
    <3>2. ~WriteNothing
      <4>1. SUFFICES ASSUME WriteNothing PROVE FALSE
        OBVIOUS
      <4>2. Room > 0 /\ Room <= 0 /\ Room \in Int
        BY <2>1, <2>2, <4>1, PreparedRoom, NumbersHold DEF WriteNothing, Numbers
      <4> QED BY <4>2
    <3> QED BY <3>1, <3>2
  <2>4. CASE Next
    <3>1. Flow'
      BY <1>2, <2>2, <2>3, <2>4, WritePartInv, WriteAgainInv, WriteBlockingInv, WriteXrunInv,
         FillInv, FilledInv, DrainConvertInv, DrainSlaveInv, DrainReturnsInv, HwParamsInv,
         HwPtrUpdateInv, TransferInv, StartInv, DrainInv, StopInv, PlayInv DEF Next, Steps
    <3> QED BY <1>0, <1>2, <2>2, <2>3, <2>4, <3>1, UnstartedStep
  <2>5. CASE UNCHANGED vars
    BY <2>2, <2>5
       DEF vars, Flow, Typed, Course, States, Counted, Ordered, Pointed, Idle, At, Unstarted,
           PendingFailed, filled, Queued, Accepted, Silence, Live, Unit
  <2> QED BY <2>4, <2>5
<1> QED BY <1>1, <1>2

-----------------------------------------------------------------------------
(* For every frame and buffer size, slave and threshold: what a call may be*)
(* at, and, of a slave that starts in time and until a prepare fails, what *)
(* the buffers of a52_transfer, write_out_pending and a52_drain hold.      *)
THEOREM EncoderInvariant == Spec => []IInv
<1>1. Init => IInv
  BY InitInv
<1>2. IInv /\ [Next]_vars => IInv'
  BY StepInv
<1> QED BY <1>1, <1>2, PTL DEF Spec

(* The slave receives every unit the application transferred once, then    *)
(* the padding, and a slave that blocks receives them in order: whatever   *)
(* write_out_pending, fill_data and a52_drain are interrupted by, if the   *)
(* slave starts in time.                                                   *)
THEOREM UnitsAreSentInOrder == Spec => []SentInOrder
<1>1. IInv => SentInOrder
  BY DEF IInv, Sound, Flow, Counted, Ordered, SentInOrder, Conserved, InOrder, Silence, Unit
<1> QED BY <1>1, EncoderInvariant, PTL

(* The pointer of a52_pointer never shows alsa-lib more room than there is *)
(* in the slave, at whatever moment alsa-lib asks for it.                  *)
THEOREM PointerShowsRoom == Spec => []RoomReal
<1>1. IInv => RoomReal
  <2> SUFFICES ASSUME IInv, Idle, env.block, env.whole, slave.size = BufferSize, ~voided,
                      io.state \in {"prepared", "running"},
                      slave.state \in {"prepared", "running"}
               PROVE  Avail <= Room
    BY DEF RoomReal
  <2>0. Flow
    BY Sizes DEF IInv, Sound, StartsInTime
  <2>1. Len(received) = io.appl /\ Updated.hw <= slave.played
    BY <2>0, PointerIsPlayed DEF Live
  <2>2. slave.state # "xrun"
    OBVIOUS
  <2>3. Updated \in Streams
    BY <2>0, UpdatedTyped, Fields
  <2>4. Updated.hw \in Nat
    BY <2>3, IoFields
  <2>5. io.appl \in Nat /\ slave.played \in Nat /\ BufferSize \in Nat
    BY <2>0, Fields
  <2> QED BY <2>1, <2>4, <2>5 DEF Avail, Room, Queued
<1> QED BY <1>1, EncoderInvariant, PTL

(* A blocking drain that returned success has let the slave play every     *)
(* unit the application wrote, the rest of a frame in inbuf included, if   *)
(* the slave starts in time.                                               *)
THEOREM DrainPlaysAll == Spec => []DrainedAll
<1>1. IInv => DrainedAll
  BY DEF IInv, Sound, Flow, States, DrainedAll
<1> QED BY <1>1, EncoderInvariant, PTL
=============================================================================
