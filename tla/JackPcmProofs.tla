--------------------------- MODULE JackPcmProofs ---------------------------
(***************************************************************************)
(* What the JACK plugin's two threads do to one another, for every buffer, *)
(* cycle, number of channels and environment.                              *)
(*                                                                         *)
(* First, what stopping a stream leaves behind: StoppedIsInactive is not   *)
(* inductive, it needs that the plugin's own flag, activated, follows the  *)
(* client through starts that fail half way, and that nothing but a start  *)
(* activates, which alsa-lib allows in PREPARED only.  Then the ring       *)
(* buffer that they share without a lock: the pointer alsa-lib derives its *)
(* own from, and the pipe that the two make of it.                         *)
(***************************************************************************)
EXTENDS JackPcm, TLAPS

Io == [state : {"setup", "prepared", "running"}, appl : Int, hw : Int, lastHw : Int]
Client == [active : BOOLEAN, connected : SUBSET (1 .. Channels)]
App == [pc : {"idle", "wait", "connect", "stop"}, channel : 1 .. Channels]
Rt == [pc : {"idle", "copy", "add", "wrap", "byte"}, xfer : Int, frames : Int]

Typed == io \in Io /\ hw_ptr \in Int /\ client \in Client /\ app \in App /\ rt \in Rt

(* activated is JACK's side of it, and a client that is not active has no  *)
(* connection and no cycle.                                                *)
FlagReal ==
  /\ activated = client.active
  /\ ~activated => client.connected = {} /\ rt.pc = "idle"

(* Where the application's thread can be in which state of the PCM.        *)
AppPlace ==
  /\ app.pc \in {"connect", "stop"} => io.state \in {"prepared", "running"}
  /\ app.pc = "connect" => activated

Inactive == io.state = "setup" => ~activated

IInv == Typed /\ FlagReal /\ AppPlace /\ Inactive

-----------------------------------------------------------------------------
LEMMA InitInv == Init => IInv
<1> SUFFICES ASSUME Init PROVE IInv
  OBVIOUS
<1>1. io \in Io /\ io.state = "setup"
  BY DEF Init, Io
<1>2. client \in Client /\ client.active = FALSE /\ client.connected = {}
  BY DEF Init, Client
<1>3. app \in App /\ app.pc = "idle"
  BY JackSizes DEF Init, App
<1>4. rt \in Rt /\ rt.pc = "idle"
  BY DEF Init, Rt
<1>5. hw_ptr \in Int /\ activated = FALSE
  BY DEF Init
<1> QED
  BY <1>1, <1>2, <1>3, <1>4, <1>5 DEF IInv, Typed, FlagReal, AppPlace, Inactive

(* alsa-lib's update of its pointer changes no state.                      *)
LEMMA MovedIo ==
  ASSUME NEW r \in Io, NEW d \in Int, NEW p \in Int
  PROVE  LET to == [r EXCEPT !.hw = r.hw + d, !.lastHw = p] IN to \in Io /\ to.state = r.state
<1> DEFINE to == [r EXCEPT !.hw = r.hw + d, !.lastHw = p]
<1>1. r.hw \in Int /\ r.hw + d \in Int
  BY DEF Io
<1>2. to \in Io
  BY <1>1 DEF Io
<1>3. to.state = r.state
  BY DEF Io
<1> QED
  BY <1>2, <1>3

LEMMA UpdatedTyped == Typed => Updated \in Io /\ Updated.state = io.state
<1> SUFFICES ASSUME Typed PROVE Updated \in Io /\ Updated.state = io.state
  OBVIOUS
<1>1. io \in Io /\ Pointer \in Int /\ Delta(Pointer) \in Int
  BY JackSizes DEF Typed, Io, Pointer, Delta
<1>2. Updated = [io EXCEPT !.hw = io.hw + Delta(Pointer), !.lastHw = Pointer]
  BY DEF Updated
<1> QED
  BY <1>1, <1>2, MovedIo

(* A transfer moves on appl_ptr in what the update has left.               *)
LEMMA TransferTyped ==
  ASSUME Typed, NEW n \in Int
  PROVE  LET to == [Updated EXCEPT !.appl = @ + n] IN to \in Io /\ to.state = io.state
<1>1. Updated \in Io /\ Updated.state = io.state
  BY UpdatedTyped
<1> HIDE DEF Updated
<1> QED
  BY <1>1 DEF Io

-----------------------------------------------------------------------------
(* Steps that only the pointers, the ring buffer and the socket see.       *)
LEMMA DataStep ==
  ASSUME IInv, io' \in Io, io'.state = io.state, UNCHANGED <<hw_ptr, activated, client, app, rt>>
  PROVE  IInv'
BY DEF IInv, Typed, FlagReal, AppPlace, Inactive

(* Steps of the real-time thread, within a cycle of an active client.      *)
LEMMA CycleStep ==
  ASSUME IInv, rt' \in Rt, hw_ptr' \in Int, client.active \/ rt'.pc = "idle",
         UNCHANGED <<io, activated, client, app>>
  PROVE  IInv'
BY DEF IInv, Typed, FlagReal, AppPlace, Inactive

LEMMA CallsInv == 
  ASSUME IInv, HwPtrUpdate \/ Write \/ Read \/ Poll \/ PollRevents
  PROVE  IInv'
<1>0. Typed
  BY DEF IInv
<1>1. CASE HwPtrUpdate
  BY <1>0, <1>1, UpdatedTyped, DataStep DEF HwPtrUpdate
<1>2. CASE Write
  <2>1. PICK n \in 1 .. Lesser(Avail, BufferSize - Place) : io' = [Updated EXCEPT !.appl = @ + n]
    BY <1>2 DEF Write
  <2>2. n \in Int
    OBVIOUS
  <2> QED
    BY <1>0, <1>2, <2>1, <2>2, TransferTyped, DataStep DEF Write
<1>3. CASE Read
  <2>1. PICK n \in 1 .. Lesser(Avail, BufferSize - Place) : io' = [Updated EXCEPT !.appl = @ + n]
    BY <1>3 DEF Read
  <2>2. n \in Int
    OBVIOUS
  <2> QED
    BY <1>0, <1>3, <2>1, <2>2, TransferTyped, DataStep DEF Read
<1>4. CASE Poll
  <2>1. app' \in App /\ app'.pc = "wait"
    BY <1>0, <1>4 DEF Poll, Typed, App
  <2> QED
    BY <1>4, <2>1 DEF Poll, IInv, Typed, FlagReal, AppPlace, Inactive
<1>5. CASE PollRevents
  <2>1. app' \in App /\ app'.pc = "idle"
    BY <1>0, <1>5 DEF PollRevents, Typed, App
  <2> QED
    BY <1>5, <2>1 DEF PollRevents, IInv, Typed, FlagReal, AppPlace, Inactive
<1> QED
  BY <1>1, <1>2, <1>3, <1>4, <1>5

LEMMA StartInv ==
  ASSUME IInv, Prepare \/ Start \/ Connect \/ ConnectFails
  PROVE  IInv'
<1>0. Typed
  BY DEF IInv
<1>1. CASE Prepare
  <2>1. io' \in Io /\ io'.state = "prepared" /\ hw_ptr' \in Int
    BY <1>1 DEF Prepare, Io, HwPtrPrepared
  <2>2. app.pc = "idle" /\ UNCHANGED <<activated, client, app, rt>>
    BY <1>1 DEF Prepare, Idle
  <2> QED
    BY <2>1, <2>2 DEF IInv, Typed, FlagReal, AppPlace, Inactive
<1>2. CASE Start
  <2>1. app' \in App /\ app'.pc = "connect"
    BY JackSizes, <1>2 DEF Start, App
  <2>2. client' \in Client /\ client'.active = TRUE /\ activated' = TRUE
    BY <1>0, <1>2 DEF Start, Typed, Client
  <2>3. io.state = "prepared" /\ UNCHANGED <<io, hw_ptr, rt>>
    BY <1>2 DEF Start
  <2> QED
    BY <2>1, <2>2, <2>3 DEF IInv, Typed, FlagReal, AppPlace, Inactive
<1>3. CASE Connect
  <2>1. client' \in Client /\ client'.active = client.active
    BY <1>0, <1>3 DEF Connect, Typed, Client, App
  <2>2. activated /\ io.state # "setup" /\ UNCHANGED <<hw_ptr, activated, rt>>
    BY <1>3 DEF Connect, IInv, AppPlace
  <2>3. app' \in App /\ app'.pc \in {"connect", "idle"}
    <3>1. CASE app.channel < Channels
      BY <1>0, <1>3, <3>1, JackSizes DEF Connect, Typed, App
    <3>2. CASE ~(app.channel < Channels)
      BY <1>0, <1>3, <3>2, JackSizes DEF Connect, Typed, App
    <3> QED
      BY <3>1, <3>2
  <2>4. io' \in Io /\ io'.state # "setup"
    <3>1. CASE app.channel < Channels
      BY <1>0, <1>3, <2>2, <3>1 DEF Connect, Typed
    <3>2. CASE ~(app.channel < Channels)
      BY <1>0, <1>3, <3>2 DEF Connect, Typed, Io
    <3> QED
      BY <3>1, <3>2
  <2>5. io'.state \in {"prepared", "running"}
    BY <2>4 DEF Io
  <2> QED
    BY <2>1, <2>2, <2>3, <2>4, <2>5 DEF IInv, Typed, FlagReal, AppPlace, Inactive
<1>4. CASE ConnectFails
  <2>1. app' \in App /\ app'.pc = "idle"
    BY JackSizes, <1>4 DEF ConnectFails, App
  <2> QED
    BY <1>4, <2>1 DEF ConnectFails, IInv, Typed, FlagReal, AppPlace, Inactive
<1> QED
  BY <1>1, <1>2, <1>3, <1>4

LEMMA StopInv ==
  ASSUME IInv, Stop \/ Deactivate
  PROVE  IInv'
<1>0. Typed
  BY DEF IInv
<1>1. CASE Stop
  <2>1. app' \in App /\ app'.pc = "stop"
    BY <1>0, <1>1 DEF Stop, Typed, App
  <2>2. io.state \in {"prepared", "running"}
    BY <1>1 DEF Stop
  <2> QED
    BY <1>1, <2>1, <2>2 DEF Stop, IInv, Typed, FlagReal, AppPlace, Inactive
<1>2. CASE Deactivate
  <2>1. app' \in App /\ app'.pc = "idle"
    BY <1>0, <1>2 DEF Deactivate, Typed, App
  <2>2. io' \in Io
    BY <1>0, <1>2 DEF Deactivate, Typed, Io
  <2>3. CASE activated
    <3>0. client' = [active |-> FALSE, connected |-> {}]
      BY <1>2, <2>3 DEF Deactivate, ToDeactivate
    <3>1. client' \in Client /\ client'.active = FALSE /\ client'.connected = {}
      BY <3>0 DEF Client
    <3>2. activated' = FALSE /\ rt.pc = "idle"
      BY <1>2, <2>3 DEF Deactivate, ToDeactivate
    <3> QED
      BY <1>2, <2>1, <2>2, <3>1, <3>2
         DEF Deactivate, IInv, Typed, FlagReal, AppPlace, Inactive
  <2>4. CASE ~activated
    BY <1>2, <2>1, <2>2, <2>4
       DEF Deactivate, ToDeactivate, IInv, Typed, FlagReal, AppPlace, Inactive
  <2> QED
    BY <2>3, <2>4
<1> QED
  BY <1>1, <1>2

LEMMA RealTimeInv ==
  ASSUME IInv, RealTime
  PROVE  IInv'
<1>0. Typed
  BY DEF IInv
<1>1. rt.pc # "idle" => client.active
  BY DEF IInv, FlagReal
<1>2. CASE Cycle
  <2>1. rt' \in Rt
    BY <1>2 DEF Cycle, Rt
  <2> QED
    BY <1>0, <1>2, <2>1, CycleStep DEF Cycle, Typed
<1>3. CASE Copy
  <2>1. Lesser(NFrames - rt.xfer, BufferSize - Offset) \in Int
    BY <1>0, JackSizes DEF Typed, Rt, Lesser, Offset
  <2> DEFINE frames == Lesser(NFrames - rt.xfer, BufferSize - Offset)
  <2>2. rt' = [rt EXCEPT !.pc = "add", !.frames = frames] /\ rt.pc = "copy"
    BY <1>3 DEF Copy
  <2> HIDE DEF frames
  <2>3. rt' \in Rt
    BY <1>0, <2>1, <2>2 DEF Typed, Rt, frames
  <2>4. UNCHANGED <<io, hw_ptr, activated, client, app>>
    BY <1>3 DEF Copy
  <2> QED
    BY <1>0, <1>1, <2>2, <2>3, <2>4, CycleStep DEF Typed
<1>4. CASE Add
  <2>1. rt' \in Rt
    BY <1>0, <1>4 DEF Add, Typed, Rt
  <2>2. hw_ptr' \in Int
    BY <1>0, <1>4, JackSizes DEF Add, Typed, Rt
  <2> QED
    BY <1>1, <1>4, <2>1, <2>2, CycleStep DEF Add
<1>5. CASE Wrap
  <2>1. rt' \in Rt
    BY <1>0, <1>5 DEF Wrap, Typed, Rt
  <2>2. hw_ptr' \in Int
    BY <1>0, <1>5, JackSizes DEF Wrap, Typed
  <2> QED
    BY <1>1, <1>5, <2>1, <2>2, CycleStep DEF Wrap
<1>6. CASE WriteByte
  <2>1. rt' \in Rt
    BY <1>6 DEF WriteByte, Rt
  <2> QED
    BY <1>0, <1>1, <1>6, <2>1, CycleStep DEF WriteByte, Typed
<1> QED
  BY <1>2, <1>3, <1>4, <1>5, <1>6 DEF RealTime

LEMMA StepInv == IInv /\ [Next]_vars => IInv'
<1> SUFFICES ASSUME IInv, [Next]_vars PROVE IInv'
  OBVIOUS
<1>1. CASE UNCHANGED vars
  BY <1>1 DEF vars, IInv, Typed, FlagReal, AppPlace, Inactive
<1>2. CASE Next
  BY <1>2, CallsInv, StartInv, StopInv, RealTimeInv DEF Next
<1> QED
  BY <1>1, <1>2

(* A stream that was stopped has no cycle under way and no connection left,*)
(* even when its start had failed half way, so that the next start can     *)
(* connect every channel: snd_pcm_jack_stop and snd_pcm_jack_start.        *)
THEOREM StopUndoesStart == Spec => []StoppedIsInactive
<1>1. IInv => StoppedIsInactive
  BY DEF IInv, FlagReal, Inactive, StoppedIsInactive
<1> QED
  BY InitInv, StepInv, <1>1, PTL DEF Spec

-----------------------------------------------------------------------------
(***************************************************************************)
(* The ring buffer.  Three numbers say where the two threads are in it:    *)
(* the plugin's hw_ptr and alsa-lib's last copy of it, which come round,   *)
(* and the number of units moved, which does not.  Turning bounds the      *)
(* first two, Followed relates them to the third, Stored says what is in   *)
(* the places between the one who puts in and the one who takes out.       *)
(***************************************************************************)
Pointers == [state : {"setup", "prepared", "running"}, appl : Nat, hw : Nat,
             lastHw : 0 .. BufferSize]
Cycles == [pc : {"idle", "copy", "add", "wrap", "byte"}, xfer : Nat, frames : Nat]
Pipes == [in : Nat, out : Seq(Int), lost : BOOLEAN]

Counts ==
  /\ io \in Pointers /\ hw_ptr \in 0 .. BufferSize /\ rt \in Cycles /\ pipe \in Pipes
  /\ ring \in [Places -> Int] /\ env \in [playback : BOOLEAN, fails : BOOLEAN]

Turning ==
  /\ rt.pc = "copy" => rt.xfer < NFrames
  /\ rt.pc \in {"add", "wrap"} => rt.frames > 0
  /\ rt.pc \in {"idle", "copy", "byte"} => hw_ptr < BufferSize
  /\ rt.pc = "add" => hw_ptr + rt.frames <= BufferSize
  /\ io.hw % BufferSize = io.lastHw % BufferSize

Followed ==
  ~pipe.lost =>
    /\ hw_ptr % BufferSize = Moved % BufferSize /\ io.hw <= Moved
    /\ hw_ptr = BufferSize /\ io.lastHw = 0 => io.hw < Moved
    /\ io.appl = (IF env.playback THEN pipe.in ELSE Len(pipe.out))

Stored ==
  ~pipe.lost => \A k \in Len(pipe.out) + 1 .. pipe.in : ring[(k - 1) % BufferSize] = k

PipeInv == Counts /\ Turning /\ Followed /\ Stored

-----------------------------------------------------------------------------
(* Remainders by the size of the buffer.                                   *)
LEMMA ModRange ==
  ASSUME NEW M \in Nat \ {0}, NEW a \in Int
  PROVE  a % M \in 0 .. M - 1
OBVIOUS

LEMMA ModQuotient ==
  ASSUME NEW M \in Nat \ {0}, NEW a \in Int
  PROVE  \E q \in Int : a = (M * q) + (a % M)
<1>1. a = (M * (a \div M)) + (a % M) /\ a \div M \in Int
  OBVIOUS
<1> QED BY <1>1

LEMMA ModUnique ==
  ASSUME NEW M \in Nat \ {0}, NEW q \in Int, NEW r \in 0 .. M - 1, NEW a \in Int, a = M * q + r
  PROVE  a % M = r
OBVIOUS

LEMMA ModSmall ==
  ASSUME NEW M \in Nat \ {0}, NEW r \in 0 .. M - 1
  PROVE  r % M = r
OBVIOUS

LEMMA ModSame ==
  ASSUME NEW M \in Nat \ {0}, NEW a \in Int, NEW k \in Int, NEW b \in Int, b = a + (M * k)
  PROVE  b % M = a % M
<1> DEFINE r == a % M
<1>1. PICK q \in Int : a = (M * q) + r
  BY ModQuotient
<1>2. r \in 0 .. M - 1
  BY ModRange
<1> HIDE DEF r
<1>3. b = (M * (q + k)) + r /\ q + k \in Int
  BY <1>1, <1>2
<1> DEFINE n == q + k
<1>4. n \in Int /\ b = M * n + r
  BY <1>3
<1> HIDE DEF n
<1>5. b % M = r
  <2>1. M \in Nat \ {0} /\ n \in Int /\ r \in 0 .. M - 1 /\ b \in Int /\ b = M * n + r
    BY <1>2, <1>4
  <2> QED BY ONLY <2>1, ModUnique
<1> QED BY <1>5 DEF r

(* What is as far on from the same remainder comes to the same remainder.  *)
LEMMA ModShift ==
  ASSUME NEW M \in Nat \ {0}, NEW a \in Int, NEW b \in Int, a % M = b % M, NEW s \in Int
  PROVE  (a + s) % M = (b + s) % M
<1>1. PICK q \in Int : a = (M * q) + (a % M)
  BY ModQuotient
<1>2. PICK k \in Int : b = (M * k) + (b % M)
  BY ModQuotient
<1> DEFINE r == a % M
<1>3. r \in 0 .. M - 1 /\ a = (M * q) + r /\ b = (M * k) + r
  BY <1>1, <1>2, ModRange
<1> HIDE DEF r
<1>4. a + s = (b + s) + (M * (q - k)) /\ q - k \in Int /\ a + s \in Int /\ b + s \in Int
  BY <1>3
<1> DEFINE n == q - k
           x == a + s
           y == b + s
<1>5. n \in Int /\ x \in Int /\ y \in Int /\ x = y + (M * n)
  BY <1>4
<1> HIDE DEF n, x, y
<1>6. x % M = y % M
  <2>1. M \in Nat \ {0} /\ y \in Int /\ n \in Int /\ x \in Int /\ x = y + (M * n)
    BY <1>5
  <2> QED BY ONLY <2>1, ModSame, Zenon
<1> QED BY <1>6 DEF x, y

LEMMA ModClose ==
  ASSUME NEW M \in Nat \ {0}, NEW a \in Int, NEW b \in Int, a % M = b % M, b <= a, a - b < M
  PROVE  a = b
<1>1. PICK q \in Int : a = (M * q) + (a % M)
  BY ModQuotient
<1>2. PICK k \in Int : b = (M * k) + (b % M)
  BY ModQuotient
<1> DEFINE r == a % M
<1>3. r \in 0 .. M - 1 /\ a = (M * q) + r /\ b = (M * k) + r
  BY <1>1, <1>2, ModRange
<1> HIDE DEF r
<1>4. ~(q >= k + 1)
  <2> SUFFICES ASSUME q >= k + 1 PROVE FALSE
    OBVIOUS
  <2>1. M * q >= M * (k + 1)
    OBVIOUS
  <2>2. M * (k + 1) = (M * k) + M
    OBVIOUS
  <2> QED BY <1>3, <2>1, <2>2
<1>5. ~(k >= q + 1)
  <2> SUFFICES ASSUME k >= q + 1 PROVE FALSE
    OBVIOUS
  <2>1. M * k >= M * (q + 1)
    OBVIOUS
  <2>2. M * (q + 1) = (M * q) + M
    OBVIOUS
  <2> QED BY <1>3, <2>1, <2>2
<1>6. q = k
  BY <1>4, <1>5
<1> QED BY <1>3, <1>6

LEMMA ModShort ==
  ASSUME NEW M \in Nat \ {0}, NEW a \in Int, NEW s \in Nat, (a % M) + s < M
  PROVE  (a + s) % M = (a % M) + s
<1> DEFINE r == a % M
<1>1. r \in 0 .. M - 1
  BY ModRange
<1>2. r % M = a % M
  BY <1>1, ModSmall DEF r
<1> HIDE DEF r
<1>3. (r + s) % M = (a + s) % M
  <2>1. r \in Int /\ s \in Int
    BY <1>1
  <2> QED BY <1>2, <2>1, ModShift, Zenon
<1>4. r + s \in 0 .. M - 1
  BY <1>1 DEF r
<1>5. (r + s) % M = r + s
  BY <1>4, ModSmall
<1> QED BY <1>3, <1>5 DEF r

(* What alsa-lib adds to its pointer, from the last one it saw to the next.*)
Lead(M, last, next) == IF next >= last THEN next - last ELSE M + next - last

LEMMA LeadTurns ==
  ASSUME NEW M \in Nat \ {0}, NEW l \in 0 .. M, NEW w \in 0 .. M, NEW h \in Nat, h % M = l % M
  PROVE  /\ Lead(M, l, w) \in 0 .. M /\ h + Lead(M, l, w) \in Nat
         /\ (h + Lead(M, l, w)) % M = w % M
         /\ Lead(M, l, w) = M => w = M /\ l = 0
<1> DEFINE d == Lead(M, l, w)
<1>1. d \in 0 .. M /\ (d = M => w = M /\ l = 0) /\ (l + d = w \/ l + d = w + M)
  BY DEF Lead
<1> HIDE DEF d
<1>2. (h + d) % M = (l + d) % M
  <2>1. h \in Int /\ l \in Int /\ d \in Int
    BY <1>1
  <2> QED BY <2>1, ModShift, Zenon
<1>3. (l + d) % M = w % M
  <2>1. CASE l + d = w
    BY <2>1
  <2>2. CASE l + d = w + M
    <3>1. l + d = w + (M * 1) /\ l + d \in Int /\ 1 \in Int /\ w \in Int
      BY <1>1, <2>2
    <3> QED BY <3>1, ModSame
  <2> QED BY <1>1, <2>1, <2>2
<1> QED BY <1>1, <1>2, <1>3 DEF d

LEMMA LeadFollows ==
  ASSUME NEW M \in Nat \ {0}, NEW l \in 0 .. M, NEW w \in 0 .. M, NEW h \in Nat, h % M = l % M,
         NEW m \in Nat, h <= m, w % M = m % M, w = M /\ l = 0 => h < m
  PROVE  /\ h + Lead(M, l, w) <= m
         /\ m - h < M => h + Lead(M, l, w) = m
<1> DEFINE x == h + Lead(M, l, w)
<1>1. /\ x \in Nat /\ h <= x /\ x - h <= M /\ x % M = m % M
      /\ x - h = M => w = M /\ l = 0
  <2> DEFINE d == Lead(M, l, w)
  <2>1. d \in 0 .. M /\ h + d \in Nat /\ (h + d) % M = w % M /\ (d = M => w = M /\ l = 0)
    <3>1. M \in Nat \ {0} /\ l \in 0 .. M /\ w \in 0 .. M /\ h \in Nat /\ h % M = l % M
      OBVIOUS
    <3>2. /\ Lead(M, l, w) \in 0 .. M /\ h + Lead(M, l, w) \in Nat
          /\ (h + Lead(M, l, w)) % M = w % M
          /\ Lead(M, l, w) = M => w = M /\ l = 0
      BY ONLY <3>1, LeadTurns, Zenon
    <3> QED BY <3>2
  <2> HIDE DEF d
  <2>2. h + d \in Nat /\ h <= h + d /\ (h + d) - h = d
    BY <2>1
  <2> QED BY <2>1, <2>2 DEF d
<1> HIDE DEF x
<1>2. x <= m
  <2> SUFFICES ASSUME x > m PROVE FALSE
    BY <1>1
  <2>1. x - m # M
    BY <1>1
  <2>2. m <= x /\ x - m < M /\ x \in Int /\ m \in Int
    BY <1>1, <2>1
  <2>3. x = m
    BY <1>1, <2>2, ModClose
  <2> QED BY <2>2, <2>3
<1>3. ASSUME m - h < M PROVE x = m
  <2>1. x <= m /\ m - x < M /\ x \in Int /\ m \in Int
    BY <1>1, <1>2, <1>3
  <2> QED BY <1>1, <2>1, ModClose
<1> QED BY <1>2, <1>3 DEF x

(* The units moved are counted by numbers, and alsa-lib has not been told  *)
(* of more of them.                                                        *)
LEMMA MovedTyped ==
  ASSUME PipeInv
  PROVE  /\ Moved \in Int /\ (~pipe.lost => Moved \in Nat)
         /\ Moved <= (IF env.playback THEN Len(pipe.out) ELSE pipe.in)
<1>1. /\ pipe.in \in Nat /\ Len(pipe.out) \in Nat /\ rt.frames \in Nat /\ io.hw \in Nat
      /\ env.playback \in BOOLEAN
  BY DEF PipeInv, Counts, Pointers, Cycles, Pipes
<1>2. ~pipe.lost => io.hw <= Moved
  BY DEF PipeInv, Followed
<1>3. Moved \in Int /\ Moved <= (IF env.playback THEN Len(pipe.out) ELSE pipe.in)
  BY <1>1 DEF Moved
<1> QED
  BY <1>1, <1>2, <1>3

(* snd_pcm_ioplug_hw_ptr_update, whenever it asks for the pointer.         *)
LEMMA UpdatedReal ==
  ASSUME PipeInv
  PROVE  /\ Updated \in Pointers /\ Updated.state = io.state /\ Updated.appl = io.appl
         /\ Updated.lastHw = hw_ptr /\ Updated.hw % BufferSize = hw_ptr % BufferSize
         /\ ~pipe.lost => /\ Updated.hw <= Moved
                          /\ Moved - io.hw < BufferSize => Updated.hw = Moved
<1>1. /\ BufferSize \in Nat \ {0} /\ io.lastHw \in 0 .. BufferSize /\ hw_ptr \in 0 .. BufferSize
      /\ io.hw \in Nat /\ io.hw % BufferSize = io.lastHw % BufferSize
  BY JackSizes DEF PipeInv, Counts, Turning, Pointers
<1>2. Delta(Pointer) = Lead(BufferSize, io.lastHw, hw_ptr)
  BY DEF Delta, Lead, Pointer
<1>3. /\ io.hw + Lead(BufferSize, io.lastHw, hw_ptr) \in Nat
      /\ (io.hw + Lead(BufferSize, io.lastHw, hw_ptr)) % BufferSize = hw_ptr % BufferSize
  <2>1. \A l, w \in 0 .. BufferSize, h \in Nat : h % BufferSize = l % BufferSize =>
          /\ h + Lead(BufferSize, l, w) \in Nat
          /\ (h + Lead(BufferSize, l, w)) % BufferSize = w % BufferSize
    <3> SUFFICES ASSUME NEW l \in 0 .. BufferSize, NEW w \in 0 .. BufferSize, NEW h \in Nat,
                        h % BufferSize = l % BufferSize
                 PROVE  /\ h + Lead(BufferSize, l, w) \in Nat
                        /\ (h + Lead(BufferSize, l, w)) % BufferSize = w % BufferSize
      OBVIOUS
    <3>1. /\ BufferSize \in Nat \ {0} /\ l \in 0 .. BufferSize /\ w \in 0 .. BufferSize
          /\ h \in Nat /\ h % BufferSize = l % BufferSize
      BY <1>1
    <3>2. /\ Lead(BufferSize, l, w) \in 0 .. BufferSize /\ h + Lead(BufferSize, l, w) \in Nat
          /\ (h + Lead(BufferSize, l, w)) % BufferSize = w % BufferSize
          /\ Lead(BufferSize, l, w) = BufferSize => w = BufferSize /\ l = 0
      BY ONLY <3>1, LeadTurns, Zenon
    <3> QED
      BY <3>2
  <2> QED
    BY ONLY <1>1, <2>1, Zenon
<1> DEFINE to == io.hw + Lead(BufferSize, io.lastHw, hw_ptr)
<1>4. io \in Pointers
  BY DEF PipeInv, Counts
<1>5. Updated = [io EXCEPT !.hw = to, !.lastHw = hw_ptr]
  BY <1>2, <1>4 DEF Updated, Pointer, Pointers
<1>6. ~pipe.lost => to <= Moved /\ (Moved - io.hw < BufferSize => to = Moved)
  <2> SUFFICES ASSUME ~pipe.lost
               PROVE  to <= Moved /\ (Moved - io.hw < BufferSize => to = Moved)
    OBVIOUS
  <2>1. Moved \in Nat
    BY MovedTyped
  <2>2. /\ io.hw <= Moved /\ hw_ptr % BufferSize = Moved % BufferSize
        /\ hw_ptr = BufferSize /\ io.lastHw = 0 => io.hw < Moved
    BY DEF PipeInv, Followed
  <2> QED
    BY ONLY <1>1, <2>1, <2>2, LeadFollows, Zenon
<1>7. to \in Nat /\ to % BufferSize = hw_ptr % BufferSize
  BY <1>3
<1> HIDE DEF to
<1>8. /\ Updated \in Pointers /\ Updated.state = io.state /\ Updated.appl = io.appl
      /\ Updated.lastHw = hw_ptr /\ Updated.hw = to
  BY <1>1, <1>4, <1>5, <1>7 DEF Pointers
<1> QED
  BY <1>6, <1>7, <1>8

-----------------------------------------------------------------------------
(* A copy into the ring buffer, for snd_pcm_jack_process_cb's and for      *)
(* mmap_rw's: what is put in after the units that wait, and within a       *)
(* buffer of the ones taken out, spoils none of them.                      *)
LEMMA FilledStores ==
  ASSUME NEW o \in Nat, NEW c \in Nat, NEW n \in Nat, NEW place \in Places,
         place = c % BufferSize, n <= BufferSize - place, c + n <= o + BufferSize,
         \A k \in o + 1 .. c : ring[(k - 1) % BufferSize] = k
  PROVE  \A k \in o + 1 .. c + n : Filled(place, c + 1, n)[(k - 1) % BufferSize] = k
<1>0. BufferSize \in Nat \ {0}
  BY JackSizes
<1> SUFFICES ASSUME NEW k \in o + 1 .. c + n
             PROVE  Filled(place, c + 1, n)[(k - 1) % BufferSize] = k
  OBVIOUS
<1> DEFINE at == (k - 1) % BufferSize
<1>1. at \in Places
  <2>1. k - 1 \in Int
    OBVIOUS
  <2> QED
    BY <1>0, <2>1, ModRange DEF Places
<1>2. Filled(place, c + 1, n)[at] = IF at \in place .. place + n - 1 THEN (c + 1) + at - place
                                    ELSE ring[at]
  BY <1>1 DEF Filled
<1>3. CASE k > c
  <2>1. \E s \in Nat : k - 1 = c + s /\ s < n
    <3>1. (k - 1) - c \in Nat /\ k - 1 = c + ((k - 1) - c) /\ (k - 1) - c < n
      BY <1>3
    <3> QED
      BY <3>1
  <2>2. PICK s \in Nat : k - 1 = c + s /\ s < n
    BY <2>1
  <2>3. (c % BufferSize) + s < BufferSize
    BY <1>0, <2>2 DEF Places
  <2>4. (c + s) % BufferSize = (c % BufferSize) + s
    <3>1. BufferSize \in Nat \ {0} /\ c \in Int /\ s \in Nat
      BY <1>0
    <3> QED
      BY ONLY <2>3, <3>1, ModShort, Zenon
  <2>5. at = place + s
    BY <2>2, <2>4
  <2> HIDE DEF at
  <2>6. at \in place .. place + n - 1 /\ (c + 1) + at - place = k
    BY <2>2, <2>5 DEF Places
  <2> QED
    BY <1>2, <2>6 DEF at
<1>4. CASE k <= c
  <2>1. ring[at] = k
    BY <1>4
  <2>2. at \notin place .. place + n - 1
    <3> SUFFICES ASSUME at \in place .. place + n - 1 PROVE FALSE
      OBVIOUS
    <3>1. \E s \in Nat : at = place + s /\ s < n
      <4> HIDE DEF at
      <4>1. at - place \in Nat /\ at = place + (at - place) /\ at - place < n
        BY <1>1 DEF Places
      <4> QED
        BY <4>1
    <3>2. PICK s \in Nat : at = place + s /\ s < n
      BY <3>1
    <3>3. (c % BufferSize) + s < BufferSize
      BY <1>0, <3>2 DEF Places
    <3>4. (c + s) % BufferSize = (c % BufferSize) + s
      <4>1. BufferSize \in Nat \ {0} /\ c \in Int /\ s \in Nat
        BY <1>0
      <4> QED
        BY ONLY <3>3, <4>1, ModShort, Zenon
    <3>5. (c + s) % BufferSize = (k - 1) % BufferSize
      BY <3>2, <3>4
    <3>6. k - 1 <= c + s /\ (c + s) - (k - 1) < BufferSize /\ c + s \in Int /\ k - 1 \in Int
      BY <1>0, <1>4, <3>2
    <3>7. c + s = k - 1
      BY ONLY <1>0, <3>5, <3>6, ModClose, Zenon
    <3> QED
      BY <1>4, <3>7
  <2> QED
    BY <1>2, <2>1, <2>2
<1> QED
  BY <1>3, <1>4

(* A copy out of it takes the units that wait, from the first on.          *)
LEMMA TakenInOrder ==
  ASSUME NEW o \in Nat, NEW c \in Nat, NEW n \in Nat, NEW place \in Places,
         place = o % BufferSize, n <= BufferSize - place, o + n <= c,
         \A k \in o + 1 .. c : ring[(k - 1) % BufferSize] = k
  PROVE  \A i \in 1 .. n : ring[place + i - 1] = o + i
<1>0. BufferSize \in Nat \ {0}
  BY JackSizes
<1> SUFFICES ASSUME NEW i \in 1 .. n PROVE ring[place + i - 1] = o + i
  OBVIOUS
<1> DEFINE s == i - 1
<1>1. s \in Nat /\ (o % BufferSize) + s < BufferSize /\ i = s + 1
  BY <1>0 DEF Places
<1> HIDE DEF s
<1>2. (o + s) % BufferSize = (o % BufferSize) + s
  <2>1. BufferSize \in Nat \ {0} /\ o \in Int /\ s \in Nat
    BY <1>0, <1>1
  <2> QED
    BY ONLY <1>1, <2>1, ModShort, Zenon
<1>3. place + i - 1 = (o % BufferSize) + s
  BY <1>1 DEF Places
<1>4. o + i \in o + 1 .. c /\ (o + i) - 1 = o + s
  BY <1>1
<1>5. ring[((o + i) - 1) % BufferSize] = o + i
  BY <1>4
<1> QED
  BY <1>2, <1>3, <1>4, <1>5

-----------------------------------------------------------------------------
(* Steps that move neither a unit nor a pointer.                           *)
LEMMA StillStep ==
  ASSUME PipeInv, io' \in Pointers, io'.appl = io.appl, io'.hw = io.hw, io'.lastHw = io.lastHw,
         UNCHANGED <<hw_ptr, ring, rt, pipe, env>>
  PROVE  PipeInv'
<1>1. Counts' /\ Turning'
  BY DEF PipeInv, Counts, Turning, Places
<1>2. Followed'
  BY DEF PipeInv, Followed, Moved
<1>3. Stored'
  BY DEF PipeInv, Stored
<1> QED
  BY <1>1, <1>2, <1>3 DEF PipeInv

LEMMA StillInv ==
  ASSUME PipeInv,
         Poll \/ PollRevents \/ Start \/ Connect \/ ConnectFails \/ Stop \/ Deactivate
           \/ UNCHANGED vars
  PROVE  PipeInv'
<1>1. /\ io' = io \/ io' = [io EXCEPT !.state = "running"] \/ io' = [io EXCEPT !.state = "setup"]
      /\ UNCHANGED <<hw_ptr, ring, rt, pipe, env>>
  <2>1. CASE Connect
    BY <2>1 DEF Connect
  <2>2. CASE Deactivate
    BY <2>2 DEF Deactivate
  <2> QED
    BY <2>1, <2>2 DEF Poll, PollRevents, Start, ConnectFails, Stop, vars
<1>2. io \in Pointers
  BY DEF PipeInv, Counts
<1>3. io' \in Pointers /\ io'.appl = io.appl /\ io'.hw = io.hw /\ io'.lastHw = io.lastHw
  BY <1>1, <1>2 DEF Pointers
<1> QED
  BY <1>1, <1>3, StillStep

-----------------------------------------------------------------------------
(* Steps of the application that ask for the pointer, and may move units:  *)
(* they take none from the real-time thread and give it none.              *)
LEMMA AskStep ==
  ASSUME PipeInv, io' \in Pointers, io'.hw = Updated.hw, io'.lastHw = Updated.lastHw,
         UNCHANGED <<hw_ptr, rt, env>>, pipe' \in Pipes, ring' \in [Places -> Int],
         pipe'.lost = pipe.lost,
         ~pipe.lost => /\ IF env.playback THEN pipe'.out = pipe.out ELSE pipe'.in = pipe.in
                       /\ io'.appl = IF env.playback THEN pipe'.in ELSE Len(pipe'.out)
  PROVE  Counts' /\ Turning' /\ Followed'
<1>1. /\ hw_ptr \in 0 .. BufferSize /\ BufferSize \in Nat \ {0}
      /\ Updated.lastHw = hw_ptr /\ Updated.hw % BufferSize = hw_ptr % BufferSize
      /\ ~pipe.lost => Updated.hw <= Moved
  BY JackSizes, UpdatedReal DEF PipeInv, Counts
<1>2. Counts'
  BY DEF PipeInv, Counts, Places
<1>3. Turning'
  BY <1>1 DEF PipeInv, Turning
<1>4. Followed'
  <2> SUFFICES ASSUME ~pipe'.lost PROVE Followed'
    BY DEF Followed
  <2>1. Moved' = Moved
    BY DEF Moved
  <2>2. hw_ptr' % BufferSize = Moved' % BufferSize
    BY <2>1 DEF PipeInv, Followed
  <2>3. io'.hw <= Moved' /\ ~(hw_ptr' = BufferSize /\ io'.lastHw = 0)
    BY <1>1, <2>1
  <2>4. env' = env /\ io'.appl = (IF env.playback THEN pipe'.in ELSE Len(pipe'.out))
    OBVIOUS
  <2> QED
    BY <2>2, <2>3, <2>4 DEF Followed
<1> QED
  BY <1>2, <1>3, <1>4

LEMMA HwPtrUpdateInv ==
  ASSUME PipeInv, HwPtrUpdate
  PROVE  PipeInv'
<1>1. io' = Updated /\ UNCHANGED <<hw_ptr, ring, rt, pipe, env>>
  BY DEF HwPtrUpdate
<1>2. Updated \in Pointers /\ Updated.appl = io.appl
  BY UpdatedReal
<1>3. pipe \in Pipes /\ ring \in [Places -> Int]
  BY DEF PipeInv, Counts
<1>4. ~pipe.lost => io.appl = (IF env.playback THEN pipe.in ELSE Len(pipe.out))
  BY DEF PipeInv, Followed
<1>5. Counts' /\ Turning' /\ Followed'
  BY <1>1, <1>2, <1>3, <1>4, AskStep
<1>6. Stored'
  BY <1>1 DEF PipeInv, Stored
<1> QED
  BY <1>5, <1>6 DEF PipeInv

(* What a transfer of the application's may move, and where.               *)
LEMMA TransferBounds ==
  ASSUME PipeInv, NEW n \in 1 .. Lesser(Avail, BufferSize - Place)
  PROVE  /\ n \in Nat /\ n > 0 /\ Place \in Places /\ n <= BufferSize - Place
         /\ ~pipe.lost => IF env.playback THEN pipe.in + n <= Len(pipe.out) + BufferSize
                                          ELSE Len(pipe.out) + n <= pipe.in
<1>1. /\ BufferSize \in Nat \ {0} /\ io.appl \in Nat /\ pipe.in \in Nat /\ Len(pipe.out) \in Nat
      /\ env.playback \in BOOLEAN
  BY JackSizes DEF PipeInv, Counts, Pointers, Pipes
<1>2. Updated.hw \in Nat /\ (~pipe.lost => Updated.hw <= Moved)
  BY UpdatedReal DEF Pointers
<1>3. Place \in Places
  <2>1. BufferSize \in Nat \ {0} /\ io.appl \in Int
    BY <1>1
  <2>2. io.appl % BufferSize \in 0 .. BufferSize - 1
    BY ONLY <2>1, ModRange
  <2> QED
    BY <2>2 DEF Place, Places
<1>4. Avail \in Int
  BY <1>1, <1>2 DEF Avail
<1>5. n \in Nat /\ n > 0 /\ n <= Avail /\ n <= BufferSize - Place
  BY <1>1, <1>3, <1>4 DEF Lesser, Places
<1>6. ASSUME ~pipe.lost
      PROVE  IF env.playback THEN pipe.in + n <= Len(pipe.out) + BufferSize
                             ELSE Len(pipe.out) + n <= pipe.in
  <2>1. /\ Updated.hw <= Moved /\ Moved \in Int
        /\ Moved <= (IF env.playback THEN Len(pipe.out) ELSE pipe.in)
    BY <1>2, <1>6, MovedTyped
  <2>2. io.appl = (IF env.playback THEN pipe.in ELSE Len(pipe.out))
    BY <1>6 DEF PipeInv, Followed
  <2>3. Avail = IF env.playback THEN Updated.hw + BufferSize - io.appl ELSE Updated.hw - io.appl
    BY DEF Avail
  <2>4. Updated.hw \in Int /\ n \in Int /\ n <= Avail
    BY <1>2, <1>5
  <2>5. CASE env.playback
    BY ONLY <1>1, <2>1, <2>2, <2>3, <2>4, <2>5
  <2>6. CASE ~env.playback
    BY ONLY <1>1, <2>1, <2>2, <2>3, <2>4, <2>6
  <2> QED
    BY <2>5, <2>6
<1> QED
  BY <1>3, <1>5, <1>6

(* A copy leaves numbers in the ring buffer, and takes numbers out of it.  *)
LEMMA FilledTyped ==
  ASSUME ring \in [Places -> Int], NEW place \in Places, NEW first \in Int, NEW n \in Nat
  PROVE  Filled(place, first, n) \in [Places -> Int]
BY DEF Filled, Places

LEMMA TakenTyped ==
  ASSUME ring \in [Places -> Int], NEW place \in Places, NEW n \in Nat, n <= BufferSize - place
  PROVE  [i \in 1 .. n |-> ring[place + i - 1]] \in Seq(Int)
<1>1. \A i \in 1 .. n : ring[place + i - 1] \in Int
  <2> SUFFICES ASSUME NEW i \in 1 .. n PROVE ring[place + i - 1] \in Int
    OBVIOUS
  <2>1. place + i - 1 \in Places
    BY JackSizes DEF Places
  <2> QED
    BY <2>1
<1> QED
  BY <1>1

LEMMA Joined ==
  ASSUME NEW s \in Seq(Int), NEW g \in Seq(Int), NEW n \in Nat, DOMAIN g = 1 .. n
  PROVE  s \o g \in Seq(Int) /\ Len(s \o g) = Len(s) + n
<1>1. Len(g) = n
  OBVIOUS
<1> QED
  BY <1>1

(* A transfer moves on appl_ptr in what the update has left.               *)
LEMMA TransferMoves ==
  ASSUME PipeInv, NEW n \in Nat
  PROVE  LET to == [Updated EXCEPT !.appl = @ + n] IN
           /\ to \in Pointers /\ to.hw = Updated.hw /\ to.lastHw = Updated.lastHw
           /\ to.appl = io.appl + n
<1>1. Updated \in Pointers /\ Updated.appl = io.appl
  BY UpdatedReal
<1> HIDE DEF Updated
<1> QED
  BY <1>1 DEF Pointers

LEMMA WriteInv ==
  ASSUME PipeInv, Write
  PROVE  PipeInv'
<1>1. PICK n \in 1 .. Lesser(Avail, BufferSize - Place) :
        /\ io' = [Updated EXCEPT !.appl = @ + n] /\ ring' = Filled(Place, io.appl + 1, n)
        /\ pipe' = IF pipe.lost THEN pipe ELSE [pipe EXCEPT !.in = @ + n]
  BY DEF Write
<1>2. env.playback /\ UNCHANGED <<hw_ptr, rt, env>>
  BY DEF Write
<1>3. /\ n \in Nat /\ Place \in Places /\ n <= BufferSize - Place
      /\ ~pipe.lost => pipe.in + n <= Len(pipe.out) + BufferSize
  BY <1>2, TransferBounds
<1>4. /\ io \in Pointers /\ io.appl \in Nat /\ pipe \in Pipes /\ pipe.in \in Nat
      /\ ring \in [Places -> Int] /\ Len(pipe.out) \in Nat
  BY DEF PipeInv, Counts, Pointers, Pipes
<1>5. io' = [Updated EXCEPT !.appl = @ + n]
  BY <1>1
<1>6. /\ io' \in Pointers /\ io'.hw = Updated.hw /\ io'.lastHw = Updated.lastHw
      /\ io'.appl = io.appl + n
  BY <1>3, <1>5, TransferMoves
<1>7. ring' \in [Places -> Int]
  <2>1. io.appl + 1 \in Int /\ ring' = Filled(Place, io.appl + 1, n)
    BY <1>1, <1>4
  <2> QED
    BY <1>3, <1>4, <2>1, FilledTyped
<1>8. /\ pipe' \in Pipes /\ pipe'.lost = pipe.lost /\ pipe'.out = pipe.out
      /\ ~pipe.lost => pipe'.in = pipe.in + n
  <2>1. pipe' = IF pipe.lost THEN pipe ELSE [pipe EXCEPT !.in = pipe.in + n]
    BY <1>1
  <2>2. pipe \in Pipes /\ pipe.in + n \in Nat
    BY <1>3, <1>4
  <2>3. CASE pipe.lost
    BY ONLY <2>1, <2>2, <2>3
  <2>4. CASE ~pipe.lost
    BY ONLY <2>1, <2>2, <2>4 DEF Pipes
  <2> QED
    BY <2>3, <2>4
<1>9. ~pipe.lost => io.appl = pipe.in
  BY <1>2 DEF PipeInv, Followed
<1>10. Counts' /\ Turning' /\ Followed'
  BY <1>2, <1>6, <1>7, <1>8, <1>9, AskStep
<1>11. Stored'
  <2> SUFFICES ASSUME ~pipe.lost
               PROVE  \A k \in Len(pipe.out) + 1 .. pipe.in + n : ring'[(k - 1) % BufferSize] = k
    BY <1>8 DEF Stored
  <2>1. Place = pipe.in % BufferSize /\ pipe.in + n <= Len(pipe.out) + BufferSize
    BY <1>3, <1>9 DEF Place
  <2>2. \A k \in Len(pipe.out) + 1 .. pipe.in : ring[(k - 1) % BufferSize] = k
    BY DEF PipeInv, Stored
  <2>3. \A k \in Len(pipe.out) + 1 .. pipe.in + n :
          Filled(Place, pipe.in + 1, n)[(k - 1) % BufferSize] = k
    <3>1. /\ Len(pipe.out) \in Nat /\ pipe.in \in Nat /\ n \in Nat /\ Place \in Places
          /\ n <= BufferSize - Place
      BY <1>3, <1>4
    <3> QED
      BY ONLY <2>1, <2>2, <3>1, FilledStores, Zenon
  <2> QED
    BY <1>1, <1>9, <2>3
<1> QED
  BY <1>10, <1>11 DEF PipeInv

LEMMA ReadInv ==
  ASSUME PipeInv, Read
  PROVE  PipeInv'
<1>1. PICK n \in 1 .. Lesser(Avail, BufferSize - Place) :
        /\ io' = [Updated EXCEPT !.appl = @ + n]
        /\ pipe' = IF pipe.lost THEN pipe
                   ELSE [pipe EXCEPT !.out = @ \o [i \in 1 .. n |-> ring[Place + i - 1]]]
  BY DEF Read
<1>2. ~env.playback /\ UNCHANGED <<hw_ptr, rt, env, ring>>
  BY DEF Read
<1>3. n \in Nat /\ Place \in Places /\ n <= BufferSize - Place
  BY TransferBounds
<1>4. /\ io \in Pointers /\ io.appl \in Nat /\ pipe \in Pipes /\ pipe.in \in Nat
      /\ pipe.out \in Seq(Int) /\ ring \in [Places -> Int]
  BY DEF PipeInv, Counts, Pointers, Pipes
<1>5. io' = [Updated EXCEPT !.appl = @ + n]
  BY <1>1
<1>6. /\ io' \in Pointers /\ io'.hw = Updated.hw /\ io'.lastHw = Updated.lastHw
      /\ io'.appl = io.appl + n
  BY <1>3, <1>5, TransferMoves
<1> DEFINE f == [i \in 1 .. n |-> ring[Place + i - 1]]
<1>7. pipe.out \o f \in Seq(Int) /\ Len(pipe.out \o f) = Len(pipe.out) + n
  <2>1. f \in Seq(Int) /\ DOMAIN f = 1 .. n
    BY <1>3, <1>4, TakenTyped
  <2> HIDE DEF f
  <2> QED
    BY <1>3, <1>4, <2>1, Joined
<1>8. pipe' = IF pipe.lost THEN pipe ELSE [pipe EXCEPT !.out = pipe.out \o f]
  BY <1>1
<1> HIDE DEF f
<1>9. /\ pipe' \in Pipes /\ pipe'.lost = pipe.lost /\ pipe'.in = pipe.in
      /\ ~pipe.lost => Len(pipe'.out) = Len(pipe.out) + n
  BY <1>4, <1>7, <1>8 DEF Pipes
<1>10. ~pipe.lost => io.appl = Len(pipe.out)
  BY <1>2 DEF PipeInv, Followed
<1>11. Counts' /\ Turning' /\ Followed'
  BY <1>2, <1>4, <1>6, <1>9, <1>10, AskStep
<1>12. Stored'
  BY <1>2, <1>3, <1>4, <1>9 DEF PipeInv, Stored
<1> QED
  BY <1>11, <1>12 DEF PipeInv

-----------------------------------------------------------------------------
LEMMA CleanPipes ==
  /\ Empty \in Pipes /\ Empty.in = 0 /\ Empty.out = <<>> /\ ~Empty.lost /\ Len(<<>>) = 0
  /\ Lost \in Pipes /\ Lost.in = 0 /\ Lost.out = <<>> /\ Lost.lost
<1>1. Empty \in Pipes /\ Empty.in = 0 /\ Empty.out = <<>> /\ ~Empty.lost
  BY DEF Empty, Pipes
<1>2. Lost \in Pipes /\ Lost.in = 0 /\ Lost.out = <<>> /\ Lost.lost
  BY <1>1 DEF Lost, Pipes
<1> QED
  BY <1>1, <1>2

(* snd_pcm_prepare starts every count again, and gives up on the pipe when *)
(* the real-time thread has still to store a pointer it worked out before. *)
LEMMA PrepareInv ==
  ASSUME PipeInv, Prepare
  PROVE  PipeInv'
<1>1. /\ io' = [state |-> "prepared", appl |-> 0, hw |-> 0, lastHw |-> 0] /\ hw_ptr' = 0
      /\ UNCHANGED <<ring, rt, env>>
  BY DEF Prepare, HwPtrPrepared
<1>2. pipe' = IF rt.pc \in {"add", "wrap"} THEN Lost ELSE Empty
  BY DEF Prepare
<1>3. BufferSize \in Nat \ {0} /\ 0 \in 0 .. BufferSize - 1 /\ 0 % BufferSize = 0
  <2>1. BufferSize \in Nat \ {0} /\ 0 \in 0 .. BufferSize - 1
    BY JackSizes
  <2> QED
    BY <2>1, ModSmall
<1>4. pipe' \in Pipes /\ pipe'.in = 0 /\ pipe'.out = <<>> /\ Len(pipe'.out) = 0
  BY <1>2, CleanPipes
<1>5. ~pipe'.lost => rt.pc \notin {"add", "wrap"}
  BY <1>2 DEF Lost, Empty
<1>6. io' \in Pointers /\ io'.hw = 0 /\ io'.appl = 0 /\ io'.lastHw = 0
  BY <1>1, <1>3 DEF Pointers
<1>7. Counts'
  BY <1>1, <1>3, <1>4, <1>6 DEF PipeInv, Counts, Places
<1>8. Turning'
  BY <1>1, <1>3, <1>6 DEF PipeInv, Counts, Cycles, Turning
<1>9. Followed'
  <2> SUFFICES ASSUME ~pipe'.lost PROVE Followed'
    BY DEF Followed
  <2>1. Moved' = 0
    BY <1>1, <1>4, <1>5 DEF Moved
  <2> QED
    BY <1>1, <1>3, <1>4, <1>6, <2>1 DEF Followed
<1>10. Stored'
  BY <1>4 DEF Stored
<1> QED
  BY <1>7, <1>8, <1>9, <1>10 DEF PipeInv

-----------------------------------------------------------------------------
(* Steps of the real-time thread that move no unit.                        *)
LEMMA TurnStep ==
  ASSUME PipeInv, rt' \in Cycles, hw_ptr' \in 0 .. BufferSize, Turning',
         ~pipe.lost => /\ hw_ptr' % BufferSize = Moved' % BufferSize /\ io.hw <= Moved'
                       /\ hw_ptr' = BufferSize /\ io.lastHw = 0 => io.hw < Moved',
         UNCHANGED <<io, ring, pipe, env>>
  PROVE  PipeInv'
<1>1. Counts'
  BY DEF PipeInv, Counts, Places
<1>2. Followed'
  BY DEF PipeInv, Followed
<1>3. Stored'
  BY DEF PipeInv, Stored
<1> QED
  BY <1>1, <1>2, <1>3 DEF PipeInv

LEMMA CycleInv ==
  ASSUME PipeInv, Cycle \/ WriteByte
  PROVE  PipeInv'
<1>1. /\ rt.pc \in {"idle", "byte"} /\ UNCHANGED <<io, hw_ptr, ring, pipe, env>>
      /\ rt' \in {[pc |-> "copy", xfer |-> 0, frames |-> 0], [pc |-> "idle", xfer |-> 0, frames |-> 0]}
  BY DEF Cycle, WriteByte
<1>2. rt' \in Cycles /\ rt'.pc \in {"idle", "copy"} /\ rt'.xfer = 0
  BY <1>1 DEF Cycles
<1>3. Turning'
  BY <1>1, <1>2, JackSizes DEF PipeInv, Turning
<1>4. Moved' = Moved
  BY <1>1, <1>2 DEF Moved
<1>5. hw_ptr' \in 0 .. BufferSize
  BY <1>1 DEF PipeInv, Counts
<1> QED
  BY <1>1, <1>2, <1>3, <1>4, <1>5, TurnStep DEF PipeInv, Followed

(* hw_ptr += frames, seen whole or reduced.                                *)
LEMMA AddInv ==
  ASSUME PipeInv, Add
  PROVE  PipeInv'
<1>1. /\ rt.pc = "add" /\ UNCHANGED <<io, ring, pipe, env>>
      /\ hw_ptr' \in {hw_ptr + rt.frames, (hw_ptr + rt.frames) % BufferSize}
      /\ rt' = [rt EXCEPT !.pc = "wrap"]
  BY DEF Add
<1>2. /\ BufferSize \in Nat \ {0} /\ hw_ptr \in Nat /\ rt.frames \in Nat /\ rt.frames > 0
      /\ hw_ptr + rt.frames \in 0 .. BufferSize /\ rt \in Cycles
  BY <1>1, JackSizes DEF PipeInv, Counts, Cycles, Turning
<1>3. rt' \in Cycles /\ rt'.pc = "wrap" /\ rt'.frames = rt.frames
  BY <1>1, <1>2 DEF Cycles
<1> DEFINE sum == hw_ptr + rt.frames
<1>4. /\ sum \in 0 .. BufferSize /\ sum % BufferSize \in 0 .. BufferSize - 1
      /\ (sum % BufferSize) % BufferSize = sum % BufferSize
  <2>1. BufferSize \in Nat \ {0} /\ sum \in Int /\ sum \in 0 .. BufferSize
    BY <1>2
  <2> HIDE DEF sum
  <2>2. sum % BufferSize \in 0 .. BufferSize - 1
    BY ONLY <2>1, ModRange
  <2> DEFINE r == sum % BufferSize
  <2>3. BufferSize \in Nat \ {0} /\ r \in 0 .. BufferSize - 1
    BY <2>1, <2>2
  <2> HIDE DEF r
  <2>4. r % BufferSize = r
    BY ONLY <2>3, ModSmall
  <2> QED
    BY <2>1, <2>2, <2>4 DEF r
<1>5. hw_ptr' \in {sum, sum % BufferSize}
  BY <1>1
<1> HIDE DEF sum
<1>6. hw_ptr' \in 0 .. BufferSize /\ hw_ptr' % BufferSize = sum % BufferSize
  BY <1>2, <1>4, <1>5
<1>7. Turning'
  BY <1>1, <1>2, <1>3 DEF PipeInv, Turning
<1>8. Moved \in Int /\ Moved' = Moved + rt.frames
  <2>1. pipe.in \in Nat /\ Len(pipe.out) \in Nat /\ env.playback \in BOOLEAN
    BY DEF PipeInv, Counts, Pipes
  <2>2. rt'.pc # "add"
    BY <1>3
  <2> QED
    BY <1>1, <1>2, <2>1, <2>2 DEF Moved
<1>9. ASSUME ~pipe.lost
      PROVE  hw_ptr' % BufferSize = Moved' % BufferSize /\ io.hw < Moved' /\ io.hw <= Moved'
  <2>1. hw_ptr % BufferSize = Moved % BufferSize /\ io.hw <= Moved /\ io.hw \in Nat
    BY <1>9 DEF PipeInv, Followed, Counts, Pointers
  <2>2. (hw_ptr + rt.frames) % BufferSize = (Moved + rt.frames) % BufferSize
    <3>1. /\ BufferSize \in Nat \ {0} /\ hw_ptr \in Int /\ Moved \in Int /\ rt.frames \in Int
          /\ hw_ptr % BufferSize = Moved % BufferSize
      BY <1>2, <1>8, <2>1
    <3> QED
      BY ONLY <3>1, ModShift, Zenon
  <2>3. io.hw < Moved + rt.frames
    BY <1>2, <1>8, <2>1
  <2> QED
    BY <1>6, <1>8, <2>1, <2>2, <2>3, <1>2 DEF sum
<1> QED
  BY <1>1, <1>3, <1>6, <1>7, <1>9, TurnStep

(* hw_ptr %= buffer_size, and the next piece or the end of the cycle.      *)
LEMMA WrapInv ==
  ASSUME PipeInv, Wrap
  PROVE  PipeInv'
<1>1. /\ rt.pc = "wrap" /\ hw_ptr' = hw_ptr % BufferSize /\ UNCHANGED <<io, ring, pipe, env>>
      /\ rt' = [pc |-> IF rt.xfer + rt.frames < NFrames THEN "copy" ELSE "byte",
                xfer |-> rt.xfer + rt.frames, frames |-> 0]
  BY DEF Wrap
<1>2. /\ BufferSize \in Nat \ {0} /\ hw_ptr \in Int /\ rt.frames \in Nat /\ rt.xfer \in Nat
  BY JackSizes DEF PipeInv, Counts, Cycles
<1>3. /\ rt' \in Cycles /\ rt'.pc \in {"copy", "byte"}
      /\ rt'.pc = "copy" => rt'.xfer < NFrames
  <2> DEFINE xfer == rt.xfer + rt.frames
  <2>1. xfer \in Nat /\ rt' = [pc |-> IF xfer < NFrames THEN "copy" ELSE "byte",
                               xfer |-> xfer, frames |-> 0]
    BY <1>1, <1>2
  <2> HIDE DEF xfer
  <2> QED
    BY <2>1 DEF Cycles
<1>4. hw_ptr % BufferSize \in 0 .. BufferSize - 1
  BY ONLY <1>2, ModRange
<1> DEFINE r == hw_ptr % BufferSize
<1>5. r \in 0 .. BufferSize - 1 /\ hw_ptr' = r /\ BufferSize \in Nat \ {0}
  BY <1>1, <1>2, <1>4
<1>6. ~pipe.lost => r = Moved % BufferSize
  BY DEF PipeInv, Followed
<1> HIDE DEF r
<1>7. r % BufferSize = r
  BY ONLY <1>5, ModSmall
<1>8. Turning'
  BY <1>1, <1>3, <1>5 DEF PipeInv, Turning
<1>9. Moved' = Moved
  <2>1. rt.pc # "add" /\ rt'.pc # "add"
    BY <1>1, <1>3
  <2> QED
    BY <1>1, <2>1 DEF Moved
<1>10. ~pipe.lost => io.hw <= Moved
  BY DEF PipeInv, Followed
<1>11. hw_ptr' \in 0 .. BufferSize /\ hw_ptr' # BufferSize
  BY <1>5
<1> QED
  BY <1>1, <1>3, <1>5, <1>6, <1>7, <1>8, <1>9, <1>10, <1>11, TurnStep

(* The piece that snd_pcm_jack_process_cb copies: some frames, up to the   *)
(* end of the ring buffer, from where the real-time thread got to.         *)
Piece == Lesser(NFrames - rt.xfer, BufferSize - Offset)
Overtakes == IF env.playback THEN Len(pipe.out) + Piece > io.appl
                             ELSE pipe.in + Piece > io.appl + BufferSize
Taken == [i \in 1 .. Piece |-> ring[Offset + i - 1]]

LEMMA PieceBounds ==
  ASSUME PipeInv, rt.pc = "copy"
  PROVE  /\ Piece \in Nat /\ Piece > 0 /\ Offset \in Places /\ Piece <= BufferSize - Offset
         /\ ~pipe.lost => Offset = (IF env.playback THEN Len(pipe.out) ELSE pipe.in) % BufferSize
<1>1. /\ BufferSize \in Nat \ {0} /\ NFrames \in Nat /\ hw_ptr \in 0 .. BufferSize - 1
      /\ rt.xfer \in Nat /\ rt.xfer < NFrames
  BY JackSizes DEF PipeInv, Counts, Cycles, Turning
<1>2. Piece \in Nat /\ Piece > 0 /\ Piece <= BufferSize - Offset
  BY <1>1 DEF Piece, Lesser, Offset
<1>3. hw_ptr % BufferSize = hw_ptr
  BY ONLY <1>1, ModSmall
<1>4. ASSUME ~pipe.lost
      PROVE  Offset = (IF env.playback THEN Len(pipe.out) ELSE pipe.in) % BufferSize
  <2>1. Moved = IF env.playback THEN Len(pipe.out) ELSE pipe.in
    <3>1. pipe.in \in Nat /\ Len(pipe.out) \in Nat /\ \A a \in Nat : a - 0 = a
      BY DEF PipeInv, Counts, Pipes
    <3> QED
      BY <3>1 DEF Moved
  <2>2. hw_ptr % BufferSize = Moved % BufferSize
    BY <1>4 DEF PipeInv, Followed
  <2> QED
    BY <1>3, <2>1, <2>2 DEF Offset
<1> QED
  BY <1>1, <1>2, <1>4 DEF Offset, Places

LEMMA CopyIs ==
  ASSUME PipeInv, Copy
  PROVE  /\ rt.pc = "copy" /\ UNCHANGED <<io, hw_ptr, env>>
         /\ rt' \in Cycles /\ rt'.pc = "add" /\ rt'.frames = Piece /\ rt'.xfer = rt.xfer
         /\ ring' = IF env.playback THEN ring ELSE Filled(Offset, pipe.in + 1, Piece)
         /\ pipe' = IF pipe.lost \/ Overtakes THEN Lost
                    ELSE IF env.playback THEN [pipe EXCEPT !.out = pipe.out \o Taken]
                    ELSE [pipe EXCEPT !.in = pipe.in + Piece]
<1>1. rt.pc = "copy" /\ rt' = [rt EXCEPT !.pc = "add", !.frames = Piece]
  BY DEF Copy, Piece
<1>2. rt \in Cycles /\ Piece \in Nat
  BY <1>1, PieceBounds DEF PipeInv, Counts
<1> HIDE DEF Piece
<1>3. rt' \in Cycles /\ rt'.pc = "add" /\ rt'.frames = Piece /\ rt'.xfer = rt.xfer
  BY <1>1, <1>2 DEF Cycles
<1>4. /\ ring' = IF env.playback THEN ring ELSE Filled(Offset, pipe.in + 1, Piece)
      /\ UNCHANGED <<io, hw_ptr, env>>
  BY DEF Copy, Piece
<1>5. pipe' = IF pipe.lost \/ Overtakes THEN Lost
              ELSE IF env.playback THEN [pipe EXCEPT !.out = pipe.out \o Taken]
              ELSE [pipe EXCEPT !.in = pipe.in + Piece]
  BY DEF Copy, Piece, Overtakes, Taken
<1> QED
  BY <1>1, <1>3, <1>4, <1>5

LEMMA TakenIs ==
  ASSUME PipeInv, rt.pc = "copy"
  PROVE  Taken \in Seq(Int) /\ DOMAIN Taken = 1 .. Piece
<1>1. ring \in [Places -> Int]
  BY DEF PipeInv, Counts
<1>2. Piece \in Nat /\ Offset \in Places /\ Piece <= BufferSize - Offset
  BY PieceBounds
<1> HIDE DEF Piece, Offset
<1>3. [i \in 1 .. Piece |-> ring[Offset + i - 1]] \in Seq(Int)
  BY <1>1, <1>2, TakenTyped
<1> QED
  BY <1>3 DEF Taken

LEMMA CopyInv ==
  ASSUME PipeInv, Copy
  PROVE  PipeInv'
<1>1. /\ rt.pc = "copy" /\ UNCHANGED <<io, hw_ptr, env>>
      /\ rt' \in Cycles /\ rt'.pc = "add" /\ rt'.frames = Piece /\ rt'.xfer = rt.xfer
  BY CopyIs
<1>2. ring' = IF env.playback THEN ring ELSE Filled(Offset, pipe.in + 1, Piece)
  BY CopyIs
<1>3. pipe' = IF pipe.lost \/ Overtakes THEN Lost
              ELSE IF env.playback THEN [pipe EXCEPT !.out = pipe.out \o Taken]
              ELSE [pipe EXCEPT !.in = pipe.in + Piece]
  BY CopyIs
<1>4. /\ Piece \in Nat /\ Piece > 0 /\ Offset \in Places /\ Piece <= BufferSize - Offset
      /\ ~pipe.lost => Offset = (IF env.playback THEN Len(pipe.out) ELSE pipe.in) % BufferSize
  BY <1>1, PieceBounds
<1>5. /\ pipe \in Pipes /\ pipe.in \in Nat /\ pipe.out \in Seq(Int) /\ Len(pipe.out) \in Nat
      /\ ring \in [Places -> Int] /\ env.playback \in BOOLEAN /\ BufferSize \in Nat \ {0}
      /\ io.appl \in Nat
  BY JackSizes DEF PipeInv, Counts, Pipes, Pointers
<1>6. /\ pipe.out \o Taken \in Seq(Int) /\ Len(pipe.out \o Taken) = Len(pipe.out) + Piece
  BY <1>1, <1>4, <1>5, TakenIs, Joined
<1> HIDE DEF Piece, Taken
<1>7. ring' \in [Places -> Int]
  <2>1. pipe.in + 1 \in Int
    BY <1>5
  <2> QED
    BY <1>2, <1>4, <1>5, <2>1, FilledTyped
<1>8. /\ pipe' \in Pipes
      /\ ~pipe'.lost =>
           /\ ~pipe.lost /\ ~Overtakes
           /\ IF env.playback THEN pipe'.in = pipe.in /\ pipe'.out = pipe.out \o Taken
                              ELSE pipe'.in = pipe.in + Piece /\ pipe'.out = pipe.out
  <2>1. CASE pipe.lost \/ Overtakes
    BY <1>3, <2>1, CleanPipes
  <2>2. CASE ~(pipe.lost \/ Overtakes) /\ env.playback
    BY <1>3, <1>5, <1>6, <2>2 DEF Pipes
  <2>3. CASE ~(pipe.lost \/ Overtakes) /\ ~env.playback
    <3>1. pipe' = [pipe EXCEPT !.in = pipe.in + Piece] /\ pipe.in + Piece \in Nat
      BY <1>3, <1>4, <1>5, <2>3
    <3> QED
      BY ONLY <1>5, <2>3, <3>1 DEF Pipes
  <2> QED
    BY <2>1, <2>2, <2>3
<1>9. Counts'
  BY <1>1, <1>7, <1>8 DEF PipeInv, Counts, Places
<1>10. Turning'
  BY <1>1, <1>4, <1>5 DEF PipeInv, Turning, Offset, Places
<1>11. ASSUME ~pipe'.lost PROVE Followed' /\ Stored'
  <2>1. Moved' = Moved
    <3>1. /\ rt'.pc = "add" /\ rt'.frames = Piece /\ rt.pc = "copy" /\ env' = env
          /\ Len(pipe.out) \in Nat /\ pipe.in \in Nat /\ Piece \in Nat
      BY <1>1, <1>4, <1>5
    <3>2. CASE env.playback
      <4>1. Len(pipe'.out) = Len(pipe.out) + Piece
        BY <1>6, <1>8, <1>11, <3>2
      <4> QED
        BY ONLY <3>1, <3>2, <4>1 DEF Moved
    <3>3. CASE ~env.playback
      <4>1. pipe'.in = pipe.in + Piece
        BY <1>8, <1>11, <3>3
      <4> QED
        BY ONLY <3>1, <3>3, <4>1 DEF Moved
    <3> QED
      BY <3>2, <3>3
  <2>2. io.appl = IF env.playback THEN pipe.in ELSE Len(pipe.out)
    BY <1>8, <1>11 DEF PipeInv, Followed
  <2>3. io'.appl = IF env'.playback THEN pipe'.in ELSE Len(pipe'.out)
    BY <1>1, <1>8, <1>11, <2>2
  <2>4. Followed'
    BY <1>1, <1>8, <1>11, <2>1, <2>3 DEF PipeInv, Followed
  <2>5. \A k \in Len(pipe.out) + 1 .. pipe.in : ring[(k - 1) % BufferSize] = k
    BY <1>8, <1>11 DEF PipeInv, Stored
  <2>6. CASE env.playback
    <3>1. pipe'.in = pipe.in /\ Len(pipe'.out) = Len(pipe.out) + Piece /\ ring' = ring
      BY <1>2, <1>6, <1>8, <1>11, <2>6
    <3>2. \A k \in Len(pipe'.out) + 1 .. pipe'.in : k \in Len(pipe.out) + 1 .. pipe.in
      BY <1>4, <1>5, <3>1
    <3> QED
      BY <2>4, <2>5, <3>1, <3>2 DEF Stored
  <2>7. CASE ~env.playback
    <3>1. /\ pipe'.in = pipe.in + Piece /\ pipe'.out = pipe.out
          /\ ring' = Filled(Offset, pipe.in + 1, Piece)
      BY <1>2, <1>8, <1>11, <2>7
    <3>2. pipe.in + Piece <= Len(pipe.out) + BufferSize /\ Offset = pipe.in % BufferSize
      BY <1>4, <1>5, <1>8, <1>11, <2>2, <2>7 DEF Overtakes
    <3>3. /\ Len(pipe.out) \in Nat /\ pipe.in \in Nat /\ Piece \in Nat /\ Offset \in Places
          /\ Piece <= BufferSize - Offset
      BY <1>4, <1>5
    <3>4. \A k \in Len(pipe.out) + 1 .. pipe.in + Piece :
            Filled(Offset, pipe.in + 1, Piece)[(k - 1) % BufferSize] = k
      BY ONLY <2>5, <3>2, <3>3, FilledStores, Zenon
    <3> QED
      BY <2>4, <3>1, <3>4 DEF Stored
  <2> QED
    BY <2>6, <2>7
<1> QED
  BY <1>9, <1>10, <1>11 DEF PipeInv, Followed, Stored

-----------------------------------------------------------------------------
LEMMA InitPipe == Init => PipeInv
<1> SUFFICES ASSUME Init PROVE PipeInv
  OBVIOUS
<1>1. BufferSize \in Nat \ {0} /\ 0 \in 0 .. BufferSize - 1 /\ 0 % BufferSize = 0
  <2>1. BufferSize \in Nat \ {0} /\ 0 \in 0 .. BufferSize - 1
    BY JackSizes
  <2> QED
    BY <2>1, ModSmall
<1>2. io \in Pointers /\ io.hw = 0 /\ io.lastHw = 0 /\ io.appl = 0
  BY <1>1 DEF Init, Pointers
<1>3. rt \in Cycles /\ rt.pc = "idle"
  BY DEF Init, Cycles
<1>4. /\ pipe \in Pipes /\ pipe.in = 0 /\ pipe.out = <<>> /\ Len(pipe.out) = 0
  BY CleanPipes DEF Init
<1>5. ring \in [Places -> Int] /\ hw_ptr = 0 /\ env \in [playback : BOOLEAN, fails : BOOLEAN]
  BY JackEnvs DEF Init
<1>6. Moved = 0
  BY <1>3, <1>4 DEF Moved
<1>7. Counts
  BY <1>1, <1>2, <1>3, <1>4, <1>5 DEF Counts
<1>8. Turning
  BY <1>1, <1>2, <1>3, <1>5 DEF Turning
<1>9. Followed
  BY <1>1, <1>2, <1>4, <1>5, <1>6 DEF Followed
<1>10. Stored
  BY <1>4 DEF Stored
<1> QED
  BY <1>7, <1>8, <1>9, <1>10 DEF PipeInv

LEMMA StepPipe == PipeInv /\ [Next]_vars => PipeInv'
<1> SUFFICES ASSUME PipeInv, [Next]_vars PROVE PipeInv'
  OBVIOUS
<1>1. CASE HwPtrUpdate \/ Write \/ Read
  BY <1>1, HwPtrUpdateInv, WriteInv, ReadInv
<1>2. CASE \/ Poll \/ PollRevents \/ Start \/ Connect \/ ConnectFails \/ Stop \/ Deactivate
           \/ UNCHANGED vars
  BY <1>2, StillInv
<1>3. CASE Prepare
  BY <1>3, PrepareInv
<1>4. CASE RealTime
  BY <1>4, CycleInv, CopyInv, AddInv, WrapInv DEF RealTime
<1> QED
  BY <1>1, <1>2, <1>3, <1>4 DEF Next

(* The state of the ring buffer between any two steps of the two threads.  *)
THEOREM RingInvariant == Spec => []PipeInv
  BY InitPipe, StepPipe, PTL DEF Spec

(* Asked at any moment of a cycle, snd_pcm_jack_pointer tells alsa-lib of  *)
(* every unit that snd_pcm_jack_process_cb moved, less the piece it is     *)
(* moving, unless a whole buffer was moved since it was last asked.        *)
THEOREM PointerFollowsRing == Spec => []PointerReal
<1>1. PipeInv => PointerReal
  BY UpdatedReal DEF PointerReal
<1> QED
  BY RingInvariant, <1>1, PTL

-----------------------------------------------------------------------------
(* The ring buffer implements the pipe: what one side copies in, the other *)
(* side copies out, each unit once and in order.                           *)
LEMMA Deliver ==
  ASSUME PipeInv, NEW n \in Nat, n > 0, NEW g, g \in Seq(Int), DOMAIN g = 1 .. n,
         Len(pipe.out) + n <= pipe.in, \A i \in 1 .. n : g[i] = Len(pipe.out) + i,
         pipe'.out = pipe.out \o g, pipe'.in = pipe.in
  PROVE  AudioPipe!Deliver
<1>1. pipe.out \in Seq(Int) /\ Len(pipe.out) \in Nat /\ pipe.in \in Nat
  BY DEF PipeInv, Counts, Pipes
<1>2. g = [i \in 1 .. n |-> Len(pipe.out) + i]
  OBVIOUS
<1>3. n \in 1 .. pipe.in - Len(pipe.out)
  BY <1>1
<1> QED
  BY <1>2, <1>3 DEF AudioPipe!Deliver

LEMMA Submit ==
  ASSUME PipeInv, NEW n \in Nat, n > 0, n <= BufferSize,
         pipe.in + n <= Len(pipe.out) + BufferSize,
         pipe'.in = pipe.in + n, pipe'.out = pipe.out
  PROVE  AudioPipe!Submit
<1>1. Len(pipe.out) \in Nat /\ pipe.in \in Nat /\ BufferSize \in Nat
  BY JackSizes DEF PipeInv, Counts, Pipes
<1>2. n \in 1 .. BufferSize /\ pipe'.in - Len(pipe'.out) <= BufferSize
  BY <1>1
<1> QED
  BY <1>2 DEF AudioPipe!Submit

LEMMA WritePipe ==
  ASSUME PipeInv, Write, ~pipe.lost
  PROVE  AudioPipe!Submit
<1>1. PICK n \in 1 .. Lesser(Avail, BufferSize - Place) : pipe' = [pipe EXCEPT !.in = @ + n]
  BY DEF Write
<1>2. /\ n \in Nat /\ n > 0 /\ Place \in Places /\ n <= BufferSize - Place
      /\ pipe.in + n <= Len(pipe.out) + BufferSize
  BY TransferBounds DEF Write
<1>3. n <= BufferSize
  BY <1>2, JackSizes DEF Places
<1>4. pipe'.in = pipe.in + n /\ pipe'.out = pipe.out
  <2>1. pipe \in Pipes
    BY DEF PipeInv, Counts
  <2> QED
    BY <1>1, <2>1 DEF Pipes
<1> QED
  BY <1>2, <1>3, <1>4, Submit

LEMMA ReadPipe ==
  ASSUME PipeInv, Read, ~pipe.lost
  PROVE  AudioPipe!Deliver
<1>1. PICK n \in 1 .. Lesser(Avail, BufferSize - Place) :
        pipe' = [pipe EXCEPT !.out = @ \o [i \in 1 .. n |-> ring[Place + i - 1]]]
  BY DEF Read
<1>2. /\ n \in Nat /\ n > 0 /\ Place \in Places /\ n <= BufferSize - Place
      /\ Len(pipe.out) + n <= pipe.in
  BY TransferBounds DEF Read
<1> DEFINE g == [i \in 1 .. n |-> ring[Place + i - 1]]
<1>3. g \in Seq(Int) /\ DOMAIN g = 1 .. n
  <2>1. ring \in [Places -> Int]
    BY DEF PipeInv, Counts
  <2> QED
    BY <1>2, <2>1, TakenTyped
<1>4. \A i \in 1 .. n : g[i] = Len(pipe.out) + i
  <2>1. Place = Len(pipe.out) % BufferSize
    BY DEF Read, PipeInv, Followed, Place
  <2>2. \A k \in Len(pipe.out) + 1 .. pipe.in : ring[(k - 1) % BufferSize] = k
    BY DEF PipeInv, Stored
  <2>3. /\ Len(pipe.out) \in Nat /\ pipe.in \in Nat /\ n \in Nat /\ Place \in Places
        /\ n <= BufferSize - Place /\ Len(pipe.out) + n <= pipe.in
    BY <1>2 DEF PipeInv, Counts, Pipes
  <2>4. \A i \in 1 .. n : ring[Place + i - 1] = Len(pipe.out) + i
    BY ONLY <2>1, <2>2, <2>3, TakenInOrder
  <2> QED
    BY <2>4
<1>5. pipe'.out = pipe.out \o g /\ pipe'.in = pipe.in
  <2>1. pipe \in Pipes /\ pipe' = [pipe EXCEPT !.out = pipe.out \o g]
    BY <1>1 DEF PipeInv, Counts
  <2> HIDE DEF g
  <2> QED
    BY <2>1 DEF Pipes
<1> HIDE DEF g
<1> QED
  BY <1>2, <1>3, <1>4, <1>5, Deliver

LEMMA CopyPipe ==
  ASSUME PipeInv, Copy
  PROVE  AudioPipe!Next \/ UNCHANGED <<pipe.in, pipe.out>>
<1>1. rt.pc = "copy"
  BY CopyIs
<1>2. pipe' = IF pipe.lost \/ Overtakes THEN Lost
              ELSE IF env.playback THEN [pipe EXCEPT !.out = pipe.out \o Taken]
              ELSE [pipe EXCEPT !.in = pipe.in + Piece]
  BY CopyIs
<1>3. /\ Piece \in Nat /\ Piece > 0 /\ Offset \in Places /\ Piece <= BufferSize - Offset
      /\ ~pipe.lost => Offset = (IF env.playback THEN Len(pipe.out) ELSE pipe.in) % BufferSize
  BY <1>1, PieceBounds
<1>4. /\ pipe \in Pipes /\ pipe.in \in Nat /\ Len(pipe.out) \in Nat /\ BufferSize \in Nat \ {0}
      /\ env.playback \in BOOLEAN
  BY JackSizes DEF PipeInv, Counts, Pipes
<1>5. Taken \in Seq(Int) /\ DOMAIN Taken = 1 .. Piece
  BY <1>1, TakenIs
<1>6. \A i \in 1 .. Piece : Taken[i] = ring[Offset + i - 1]
  BY <1>3 DEF Taken
<1> HIDE DEF Piece, Taken
<1>7. CASE pipe.lost \/ Overtakes
  BY <1>2, <1>7, CleanPipes DEF AudioPipe!Next, AudioPipe!Open
<1>8. CASE ~(pipe.lost \/ Overtakes) /\ env.playback
  <2>1. pipe'.out = pipe.out \o Taken /\ pipe'.in = pipe.in
    BY <1>2, <1>4, <1>8 DEF Pipes
  <2>2. Len(pipe.out) + Piece <= pipe.in
    BY <1>3, <1>4, <1>8 DEF Overtakes, PipeInv, Followed
  <2>3. Offset = Len(pipe.out) % BufferSize
    BY <1>3, <1>8
  <2>4. \A k \in Len(pipe.out) + 1 .. pipe.in : ring[(k - 1) % BufferSize] = k
    BY <1>8 DEF PipeInv, Stored
  <2>5. \A i \in 1 .. Piece : ring[Offset + i - 1] = Len(pipe.out) + i
    <3>1. /\ Len(pipe.out) \in Nat /\ pipe.in \in Nat /\ Piece \in Nat /\ Offset \in Places
          /\ Piece <= BufferSize - Offset /\ Len(pipe.out) + Piece <= pipe.in
      BY <1>3, <1>4, <2>2
    <3> QED
      BY ONLY <2>3, <2>4, <3>1, TakenInOrder
  <2>6. \A i \in 1 .. Piece : Taken[i] = Len(pipe.out) + i
    BY <1>6, <2>5
  <2>7. AudioPipe!Deliver
    BY <1>3, <1>5, <2>1, <2>2, <2>6, Deliver
  <2> QED
    BY <2>7 DEF AudioPipe!Next
<1>9. CASE ~(pipe.lost \/ Overtakes) /\ ~env.playback
  <2>1. pipe'.in = pipe.in + Piece /\ pipe'.out = pipe.out
    BY <1>2, <1>4, <1>9 DEF Pipes
  <2>2. pipe.in + Piece <= Len(pipe.out) + BufferSize
    <3>1. ~(pipe.in + Piece > io.appl + BufferSize)
      BY <1>9 DEF Overtakes
    <3>2. io.appl = Len(pipe.out)
      BY <1>9 DEF PipeInv, Followed
    <3> QED
      BY ONLY <1>3, <1>4, <3>1, <3>2
  <2>3. Piece <= BufferSize
    BY <1>3, <1>4 DEF Places
  <2>4. AudioPipe!Submit
    BY <1>3, <2>1, <2>2, <2>3, Submit
  <2> QED
    BY <2>4 DEF AudioPipe!Next
<1> QED
  BY <1>7, <1>8, <1>9

LEMMA StepsOfPipe ==
  PipeInv /\ [Next]_vars => [AudioPipe!Next]_<<pipe.in, pipe.out>>
<1> SUFFICES ASSUME PipeInv, [Next]_vars
             PROVE  AudioPipe!Next \/ UNCHANGED <<pipe.in, pipe.out>>
  OBVIOUS
<1>1. CASE Write
  <2>1. CASE pipe.lost
    BY <1>1, <2>1 DEF Write
  <2>2. CASE ~pipe.lost
    BY <1>1, <2>2, WritePipe DEF AudioPipe!Next
  <2> QED
    BY <2>1, <2>2
<1>2. CASE Read
  <2>1. CASE pipe.lost
    BY <1>2, <2>1 DEF Read
  <2>2. CASE ~pipe.lost
    BY <1>2, <2>2, ReadPipe DEF AudioPipe!Next
  <2> QED
    BY <2>1, <2>2
<1>3. CASE Prepare
  <2>1. pipe' \in {Lost, Empty}
    BY <1>3 DEF Prepare
  <2> QED
    BY <2>1, CleanPipes DEF AudioPipe!Next, AudioPipe!Open
<1>4. CASE Copy
  BY <1>4, CopyPipe
<1>5. CASE UNCHANGED pipe
  BY <1>5
<1>6. ~(Write \/ Read \/ Prepare \/ Copy) => UNCHANGED pipe
  BY DEF Next, RealTime, HwPtrUpdate, Poll, PollRevents, Start, Connect, ConnectFails, Stop,
         Deactivate, Cycle, Add, Wrap, WriteByte, vars
<1> QED
  BY <1>1, <1>2, <1>3, <1>4, <1>5, <1>6

(* The units that one thread puts into the ring buffer are the ones the    *)
(* other takes out, each once and in order, and no more than a buffer of   *)
(* them wait: snd_pcm_jack_process_cb's copies and the pointers by which   *)
(* alsa-lib finds the free room implement the abstract pipe.               *)
THEOREM RingImplementsPipe == Spec => ImplementsPipe
<1>1. Init => AudioPipe!Init
  BY CleanPipes DEF Init, AudioPipe!Init
<1> QED
  BY RingInvariant, StepsOfPipe, <1>1, PTL DEF Spec, ImplementsPipe, AudioPipe!Spec
=============================================================================
