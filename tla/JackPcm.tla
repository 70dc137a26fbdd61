------------------------------- MODULE JackPcm -------------------------------
(***************************************************************************)
(* The JACK PCM plugin: jack/pcm_jack.c.                                   *)
(*                                                                         *)
(* JACK's real-time thread calls snd_pcm_jack_process_cb, once a cycle,    *)
(* while the client is active; the application's thread makes every other  *)
(* call.  They share hw_ptr, the ring buffer and alsa-lib's PCM state with *)
(* no lock, and a socket pair the application waits on.                    *)
(*                                                                         *)
(* A unit is a frame.  The units that enter the ring buffer since the last *)
(* prepare are numbered from 1, by the application or, on capture, by JACK.*)
(***************************************************************************)
EXTENDS Integers, Sequences

CONSTANTS
  BufferSize,   \* io->buffer_size
  NFrames,      \* frames of a JACK cycle
  Channels,     \* channels, each with a port to connect
  SockCap,      \* one-byte writes the socket pair holds
  MaxUnits,     \* bound: units submitted, or read, between two prepares
  MaxHw,        \* bound: alsa-lib's hw_ptr when it is updated once more
  MaxPrepares,  \* bound: prepares
  Envs          \* the environments a behaviour may run in, see env

ASSUME JackSizes ==
  /\ BufferSize \in Nat \ {0} /\ NFrames \in Nat \ {0} /\ Channels \in Nat \ {0}
  /\ SockCap \in Nat \ {0} /\ MaxUnits \in Nat /\ MaxHw \in Nat /\ MaxPrepares \in Nat
ASSUME JackEnvs == Envs \subseteq [playback : BOOLEAN, fails : BOOLEAN]

VARIABLES
  io,         \* alsa-lib's side: PCM state, appl_ptr, hw_ptr, last_hw
  hw_ptr,     \* struct snd_pcm_jack: hw_ptr
  activated,  \* struct snd_pcm_jack: activated
  client,     \* JACK's side: the client is active; its connected channels
  ring,       \* the mmap area: the number of the unit in each place
  sock,       \* bytes written for the poll descriptor and not read
  app,        \* where the application's thread is; the channel it connects
  rt,         \* where the real-time thread is in its cycle: xfer, and frames
              \* of the piece it moves
  pipe,       \* units put in, the units taken out; lost once the two threads
              \* have overtaken each other, until the next prepare
  prepares,   \* prepares so far
  env         \* fixed: the direction; whether a port may fail to connect

vars == <<io, hw_ptr, activated, client, ring, sock, app, rt, pipe, prepares, env>>

Places == 0 .. BufferSize - 1
Empty == [in |-> 0, out |-> <<>>, lost |-> FALSE]
Lost == [Empty EXCEPT !.lost = TRUE]

Init ==
  /\ io = [state |-> "setup", appl |-> 0, hw |-> 0, lastHw |-> 0]
  /\ hw_ptr = 0 /\ activated = FALSE
  /\ client = [active |-> FALSE, connected |-> {}]
  /\ ring = [i \in Places |-> 0] /\ sock = 0
  /\ app = [pc |-> "idle", channel |-> 1]
  /\ rt = [pc |-> "idle", xfer |-> 0, frames |-> 0]
  /\ pipe = Empty /\ prepares = 0 /\ env \in Envs

Idle == app.pc = "idle"
Lesser(a, b) == IF a < b THEN a ELSE b
Numbers(first, n) == [i \in 1 .. n |-> first + i - 1]

(* The ring after that many units were copied to a place: [n] are numbered *)
(* from [first], and the copy does not go past the end.                    *)
Filled(place, first, n) ==
  [i \in Places |-> IF i \in place .. place + n - 1 THEN first + i - place ELSE ring[i]]

-----------------------------------------------------------------------------
(* alsa-lib's snd_pcm_ioplug_hw_ptr_update: the pointer the plugin returns *)
(* has moved on by less than a buffer since it was last asked.             *)
Delta(hw) == IF hw >= io.lastHw THEN hw - io.lastHw ELSE BufferSize + hw - io.lastHw

(* snd_pcm_jack_pointer                                                    *)
Pointer == hw_ptr

Updated == [io EXCEPT !.hw = @ + Delta(Pointer), !.lastHw = Pointer]

HwPtrUpdate ==
  /\ Idle /\ io.state \in {"prepared", "running"} /\ io.hw < MaxHw
  /\ io' = Updated
  /\ UNCHANGED <<hw_ptr, activated, client, ring, sock, app, rt, pipe, prepares, env>>

(* Where the application is in the buffer, and how far it may go.          *)
Place == io.appl % BufferSize
Avail == IF env.playback THEN Updated.hw + BufferSize - io.appl ELSE Updated.hw - io.appl

(* snd_pcm_writei copies into the mmap area (mmap_rw), up to its end.      *)
Write ==
  /\ Idle /\ env.playback /\ io.state \in {"prepared", "running"} /\ io.hw < MaxHw
  /\ \E n \in 1 .. Lesser(Avail, BufferSize - Place) :
       /\ io.appl + n <= MaxUnits
       /\ io' = [Updated EXCEPT !.appl = @ + n]
       /\ ring' = Filled(Place, io.appl + 1, n)
       /\ pipe' = IF pipe.lost THEN pipe ELSE [pipe EXCEPT !.in = @ + n]
  /\ UNCHANGED <<hw_ptr, activated, client, sock, app, rt, prepares, env>>

(* snd_pcm_readi copies out of it.                                         *)
Read ==
  /\ Idle /\ ~env.playback /\ io.state = "running" /\ io.hw < MaxHw
  /\ \E n \in 1 .. Lesser(Avail, BufferSize - Place) :
       /\ io.appl + n <= MaxUnits
       /\ io' = [Updated EXCEPT !.appl = @ + n]
       /\ pipe' = IF pipe.lost THEN pipe
                  ELSE [pipe EXCEPT
                         !.out = @ \o [i \in 1 .. n |-> ring[Place + i - 1]]]
  /\ UNCHANGED <<hw_ptr, activated, client, ring, sock, app, rt, prepares, env>>

(* poll, and snd_pcm_jack_poll_revents, whose read of the socket waits for *)
(* a byte even when poll gave up waiting for one.                          *)
Poll ==
  /\ Idle /\ io.state \in {"prepared", "running"}
  /\ app' = [app EXCEPT !.pc = "wait"]
  /\ UNCHANGED <<io, hw_ptr, activated, client, ring, sock, rt, pipe, prepares, env>>

PollRevents ==
  /\ app.pc = "wait" /\ sock > 0
  /\ sock' = sock - 1
  /\ app' = [app EXCEPT !.pc = "idle"]
  /\ UNCHANGED <<io, hw_ptr, activated, client, ring, rt, pipe, prepares, env>>

-----------------------------------------------------------------------------
HwPtrKept == hw_ptr                                                \* mutant
HwPtrPrepared == 0

(* snd_pcm_prepare, in any state, resets the pointers of alsa-lib and calls*)
(* snd_pcm_jack_prepare, which registers the ports the first time.  If it  *)
(* comes between the moves of the real-time thread that make up            *)
(* hw_ptr += frames, the pointer is off until the next prepare.            *)
Prepare ==
  /\ Idle /\ prepares < MaxPrepares
  /\ io' = [state |-> "prepared", appl |-> 0, hw |-> 0, lastHw |-> 0]
  /\ hw_ptr' = HwPtrPrepared
  /\ pipe' = IF rt.pc \in {"add", "wrap"} THEN Lost ELSE Empty
  /\ prepares' = prepares + 1
  /\ UNCHANGED <<activated, client, ring, sock, app, rt, env>>

(* snd_pcm_jack_start: activate the client, then connect channel after     *)
(* channel.  A connection that exists already cannot be made.  (When the   *)
(* client cannot be activated, nothing changes.)                           *)
Start ==
  /\ Idle /\ io.state = "prepared"
  /\ client' = [client EXCEPT !.active = TRUE]
  /\ activated' = TRUE
  /\ app' = [pc |-> "connect", channel |-> 1]
  /\ UNCHANGED <<io, hw_ptr, ring, sock, rt, pipe, prepares, env>>

Connect ==
  /\ app.pc = "connect" /\ app.channel \notin client.connected
  /\ client' = [client EXCEPT !.connected = @ \cup {app.channel}]
  /\ IF app.channel < Channels
       THEN app' = [app EXCEPT !.channel = @ + 1] /\ UNCHANGED io
       ELSE /\ app' = [pc |-> "idle", channel |-> 1]
            /\ io' = [io EXCEPT !.state = "running"]
  /\ UNCHANGED <<hw_ptr, activated, ring, sock, rt, pipe, prepares, env>>

(* start returns -EIO: alsa-lib stays in PREPARED, the client active.      *)
ConnectFails ==
  /\ app.pc = "connect" /\ (env.fails \/ app.channel \in client.connected)
  /\ app' = [pc |-> "idle", channel |-> 1]
  /\ UNCHANGED <<io, hw_ptr, activated, client, ring, sock, rt, pipe, prepares, env>>

(* snd_pcm_drop and snd_pcm_drain call snd_pcm_jack_stop, then leave SETUP *)
(* to the application.  jack_deactivate waits for the cycle under way and  *)
(* undoes the connections.                                                 *)
Stop ==
  /\ Idle /\ io.state \in {"prepared", "running"}
  /\ app' = [app EXCEPT !.pc = "stop"]
  /\ UNCHANGED <<io, hw_ptr, activated, client, ring, sock, rt, pipe, prepares, env>>

OnlyWhenRunning == activated /\ io.state = "running"                \* mutant
ToDeactivate == activated

Deactivate ==
  /\ app.pc = "stop"
  /\ IF ToDeactivate
       THEN /\ rt.pc = "idle"
            /\ client' = [active |-> FALSE, connected |-> {}]
            /\ activated' = FALSE
       ELSE UNCHANGED <<client, activated>>
  /\ io' = [io EXCEPT !.state = "setup"]
  /\ app' = [app EXCEPT !.pc = "idle"]
  /\ UNCHANGED <<hw_ptr, ring, sock, rt, pipe, prepares, env>>

-----------------------------------------------------------------------------
(* snd_pcm_jack_process_cb.  A playback cycle outside RUNNING is silent and*)
(* changes nothing; a capture cycle moves its frames in any state.         *)
Cycle ==
  /\ rt.pc = "idle" /\ client.active
  /\ io.state = "running" \/ ~env.playback
  /\ rt' = [pc |-> "copy", xfer |-> 0, frames |-> 0]
  /\ UNCHANGED <<io, hw_ptr, activated, client, ring, sock, app, pipe, prepares, env>>

FromXfer == rt.xfer                                                \* mutant
Offset == hw_ptr

(* Copy the piece up to the end of the ring buffer.                        *)
Copy ==
  /\ rt.pc = "copy"
  /\ LET frames == Lesser(NFrames - rt.xfer, BufferSize - Offset)
         overtakes == IF env.playback THEN Len(pipe.out) + frames > io.appl
                      ELSE pipe.in + frames > io.appl + BufferSize
     IN /\ rt' = [rt EXCEPT !.pc = "add", !.frames = frames]
        /\ ring' = IF env.playback THEN ring ELSE Filled(Offset, pipe.in + 1, frames)
        /\ pipe' = IF pipe.lost \/ overtakes THEN Lost
                   ELSE IF env.playback
                     THEN [pipe EXCEPT !.out = @ \o [i \in 1 .. frames |-> ring[Offset + i - 1]]]
                     ELSE [pipe EXCEPT !.in = @ + frames]
  /\ UNCHANGED <<io, hw_ptr, activated, client, sock, app, prepares, env>>

(* hw_ptr += frames; hw_ptr %= buffer_size: the sum may be visible, or only*)
(* the remainder.                                                          *)
Add ==
  /\ rt.pc = "add"
  /\ hw_ptr' \in {hw_ptr + rt.frames, (hw_ptr + rt.frames) % BufferSize}
  /\ rt' = [rt EXCEPT !.pc = "wrap"]
  /\ UNCHANGED <<io, activated, client, ring, sock, app, pipe, prepares, env>>

Wrap ==
  /\ rt.pc = "wrap"
  /\ hw_ptr' = hw_ptr % BufferSize
  /\ LET xfer == rt.xfer + rt.frames IN
     rt' = [pc |-> IF xfer < NFrames THEN "copy" ELSE "byte", xfer |-> xfer, frames |-> 0]
  /\ UNCHANGED <<io, activated, client, ring, sock, app, pipe, prepares, env>>

ByteOfPlayback(n) == IF env.playback THEN n + 1 ELSE n             \* mutant
WithByte(n) == n + 1

(* The write for polling waits while the socket is full.                   *)
WriteByte ==
  /\ rt.pc = "byte" /\ sock < SockCap
  /\ sock' = WithByte(sock)
  /\ rt' = [pc |-> "idle", xfer |-> 0, frames |-> 0]
  /\ UNCHANGED <<io, hw_ptr, activated, client, ring, app, pipe, prepares, env>>

-----------------------------------------------------------------------------
RealTime == Cycle \/ Copy \/ Add \/ Wrap \/ WriteByte

Next ==
  \/ HwPtrUpdate \/ Write \/ Read \/ Poll \/ PollRevents
  \/ Prepare \/ Start \/ Connect \/ ConnectFails \/ Stop \/ Deactivate
  \/ RealTime

Spec == Init /\ [][Next]_vars

(* JACK keeps calling an active client, and a thread whose read the socket *)
(* can serve gets to run.                                                  *)
FairSpec == Spec /\ WF_vars(RealTime) /\ WF_vars(PollRevents)

-----------------------------------------------------------------------------
(* The ring buffer is a pipe: what one side puts in, the other takes out,  *)
(* each unit once and in order, whatever the sizes of the pieces, as long  *)
(* as the application keeps up.  snd_pcm_jack_process_cb's copies, and the *)
(* pointer alsa-lib derives the free room from.                            *)
AudioPipe == INSTANCE AudioPipe
               WITH Cap <- BufferSize, submitted <- pipe.in, received <- pipe.out
ImplementsPipe == AudioPipe!Spec

(* Asked at any moment of a cycle, snd_pcm_jack_pointer tells alsa-lib of  *)
(* every unit the real-time thread moved, less the piece it is moving,     *)
(* unless it moved a whole buffer since it was last asked.                 *)
Moved == (IF env.playback THEN Len(pipe.out) ELSE pipe.in)
         - (IF rt.pc = "add" THEN rt.frames ELSE 0)

PointerReal ==
  ~pipe.lost /\ Moved - io.hw < BufferSize => Updated.hw = Moved

(* A stream that was stopped has no cycle under way and no connection left,*)
(* even when its start had failed half way: the next start can connect     *)
(* every channel.                                                          *)
StoppedIsInactive ==
  io.state = "setup" => ~client.active /\ client.connected = {} /\ rt.pc = "idle"

(* An application that waits for a running stream is woken: the cycles     *)
(* leave a byte for it.                                                    *)
PollWakes == (app.pc = "wait" /\ io.state = "running") ~> (app.pc = "idle")
=============================================================================
