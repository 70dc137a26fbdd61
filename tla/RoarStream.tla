----------------------------- MODULE RoarStream -----------------------------
(***************************************************************************)
(* The RoarAudio playback plugin: roar/pcm_roar.c (the ioplug callbacks,   *)
(* run by the application's thread) and roar/thread.c (the FIFO, and the   *)
(* background thread that drains it into libroar).                         *)
(*                                                                         *)
(* A step is one access to the fields the two threads share, so that the   *)
(* accesses made without self->lock interleave as they do in the code.     *)
(* cond_lock protects no data: the only thing done while it is held is the *)
(* atomic release-and-sleep of pthread_cond_wait, so acquiring it and      *)
(* falling asleep are one step here and it is not a variable.              *)
(*                                                                         *)
(* One unit stands for one byte.  The k-th unit that enters the FIFO since *)
(* the stream was opened carries the value k; 0 is memory nobody wrote.    *)
(* alsa-lib's pointers count frames, of env.frame units each.              *)
(***************************************************************************)
EXTENDS Integers, Sequences

CONSTANTS
  BufSize,      \* self->bufsize
  Chunk,        \* CHUNK_SIZE
  SizeMod,      \* one more than the largest size_t
  MaxThreads,   \* bound: background threads started in one behaviour
  Envs          \* the environments a behaviour may run in, see env

ASSUME SizesAssumption ==
  /\ BufSize \in Nat /\ Chunk \in Nat \ {0} /\ Chunk <= BufSize
  /\ SizeMod \in Nat /\ 2 * BufSize < SizeMod
  /\ MaxThreads \in Nat \ {0}
ASSUME EnvsAssumption ==
  /\ Envs \subseteq [gate : BOOLEAN, vioFails : BOOLEAN, createFails : BOOLEAN,
                     rehw : BOOLEAN, frame : Nat \ {0}, units : Nat,
                     threads : 1 .. MaxThreads]
  /\ \A e \in Envs : BufSize % e.frame = 0

App == 0                       \* the application's thread
Threads == 1 .. MaxThreads     \* the background threads, in creation order
Free == -1                     \* nobody holds self->lock

VARIABLES
  self,      \* struct roar_alsa_pcm
  buffer,    \* self->buffer
  lock,      \* self->lock: App, a thread, or Free
  asleep,    \* the threads blocked in pthread_cond_wait(cond)
  io,        \* the PCM state and the appl_ptr alsa-lib keeps
  call,      \* the application's thread: pc, where roar_pcm_stop/_start return
             \* to, size of the transfer in progress, value of bufptr loaded
  thr,       \* the background threads: pc, rc, value of bufptr loaded,
             \* whether pthread_detach was called
  vio,       \* stream_vio is open
  server,    \* the units the server received on the open stream
  entered,   \* units that entered the FIFO since the stream was opened
  accepted,  \* units roar_pcm_transfer reported as written since then
  delay,     \* the last value of bytes_in_buffer, before the timer
  env        \* fixed in a behaviour: gate, transfer is called for at most the
             \* avail alsa-lib computes; vioFails, roar_vio_write and opening the
             \* stream may fail; createFails, pthread_create may; rehw,
             \* hw_params may come without a stop before it; frame, the units
             \* of a frame; and two bounds: units, on the units handed over in
             \* one stream, and threads, on the threads created

counts == <<entered, accepted, delay, env>>
vars == <<self, buffer, lock, asleep, io, call, thr, vio, server, counts>>

SizeT(n) == n % SizeMod
Signed(n) == IF 2 * n >= SizeMod THEN n - SizeMod ELSE n   \* ssize_t

Init ==
  /\ self = [opened |-> FALSE, active |-> FALSE, bufptr |-> 0, total |-> 0,
             begun |-> FALSE, lastPtr |-> 0, thread |-> 0]
  /\ buffer = [i \in 0 .. BufSize - 1 |-> 0]
  /\ lock = Free /\ asleep = {}
  /\ io = [state |-> "open", appl |-> 0]
  /\ call = [pc |-> "idle", ret |-> "idle", size |-> 0, loaded |-> 0]
  /\ thr = [t \in Threads |-> [pc |-> "none", rc |-> 0, loaded |-> 0, detached |-> FALSE]]
  /\ vio = FALSE /\ server = <<>>
  /\ entered = 0 /\ accepted = 0 /\ delay = 0
  /\ env \in Envs

AppGoto(q) == call' = [call EXCEPT !.pc = q]
ThrGoto(t, q) == thr' = [thr EXCEPT ![t].pc = q]

(* A thread is left for roar_pcm_start to create.                          *)
Spare == thr[env.threads].pc = "none"

-----------------------------------------------------------------------------
(* pthread_cond_signal(cond): wakes one of the sleepers, if there is one.  *)
Signal ==
  IF asleep = {} THEN UNCHANGED asleep
                 ELSE \E p \in asleep : asleep' = asleep \ {p}

(* pthread_cond_wait may return without a signal.                          *)
Spurious ==
  /\ \E p \in asleep : asleep' = asleep \ {p}
  /\ UNCHANGED <<self, buffer, lock, io, call, thr, vio, server, counts>>

-----------------------------------------------------------------------------
(* The calls of alsa-lib, and the callback each leads to.                  *)

(* snd_pcm_hw_params, which alsa-lib passes on in any state: a new buffer  *)
(* of the same size, in memory nobody wrote, and an empty FIFO, in two     *)
(* stores without the lock.  The old buffer is never freed.  A caller that *)
(* drops the stream first finds it closed.                                 *)
HwParams ==
  /\ call.pc = "idle" /\ io.state # "closed"
  /\ ~env.rehw => io.state \in {"open", "setup"} /\ ~self.opened
  /\ AppGoto("hw_bufptr")
  /\ io' = IF io.state = "open" THEN [io EXCEPT !.state = "setup"] ELSE io
  /\ buffer' = [i \in DOMAIN buffer |-> 0]
  /\ UNCHANGED <<self, lock, asleep, thr, vio, server, counts>>

HwBufptr ==
  /\ call.pc = "hw_bufptr" /\ AppGoto("idle")
  /\ self' = [self EXCEPT !.bufptr = 0]
  /\ UNCHANGED <<buffer, lock, asleep, io, thr, vio, server, counts>>

(* snd_pcm_prepare resets the pointers, then calls roar_pcm_prepare.       *)
Prepare ==
  /\ call.pc = "idle" /\ io.state \in {"setup", "prepared", "running", "xrun"} /\ Spare
  /\ io' = [state |-> "prepared", appl |-> 0]
  /\ call' = [call EXCEPT !.pc = "start", !.ret = "idle"]
  /\ UNCHANGED <<self, buffer, lock, asleep, thr, vio, server, counts>>

(* snd_pcm_start                                                           *)
Start ==
  /\ call.pc = "idle" /\ io.state = "prepared" /\ Spare
  /\ io' = [io EXCEPT !.state = "running"]
  /\ call' = [call EXCEPT !.pc = "start", !.ret = "idle"]
  /\ UNCHANGED <<self, buffer, lock, asleep, thr, vio, server, counts>>

(* snd_pcm_drop                                                            *)
Drop ==
  /\ call.pc = "idle" /\ io.state \in {"prepared", "running", "xrun"}
  /\ io' = [io EXCEPT !.state = "setup"]
  /\ call' = [call EXCEPT !.pc = "stop", !.ret = "idle"]
  /\ UNCHANGED <<self, buffer, lock, asleep, thr, vio, server, counts>>

(* snd_pcm_writei: pointer first, then the transfer of the frames that fit. *)
Write ==
  /\ call.pc = "idle" /\ io.state \in {"prepared", "running"}
  /\ io.appl >= self.lastPtr \/ Spare
  /\ \E n \in 1 .. BufSize :
       /\ n % env.frame = 0
       /\ entered + n <= env.units /\ accepted + n <= env.units
       /\ call' = [call EXCEPT !.pc = "pointer", !.size = n]
  /\ UNCHANGED <<self, buffer, lock, asleep, io, thr, vio, server, counts>>

(* snd_pcm_delay, roar_drain without the time since start_tv.              *)
Delay ==
  /\ call.pc = "idle" /\ io.state \in {"prepared", "running"} /\ lock = Free
  /\ delay' = IF self.begun THEN self.total + self.bufptr ELSE self.bufptr
  /\ UNCHANGED <<self, buffer, lock, asleep, io, call, thr, vio, server, entered, accepted, env>>

(* snd_pcm_close drops the stream first, then frees the structure.         *)
Close ==
  /\ call.pc = "idle" /\ io.state \in {"open", "setup"}
  /\ io' = [io EXCEPT !.state = "closed"]
  /\ UNCHANGED <<self, buffer, lock, asleep, call, thr, vio, server, counts>>

-----------------------------------------------------------------------------
(* roar_pcm_start: a second start of an open stream is ignored.            *)
StartIgnored ==
  /\ call.pc = "start" /\ self.opened /\ AppGoto(call.ret)
  /\ UNCHANGED <<self, buffer, lock, asleep, io, thr, vio, server, counts>>

(* A start the server refuses: the application gives the stream up, but    *)
(* roar_pcm_pointer ignores the error.                                     *)
StartRefused ==
  /\ call.pc = "start" /\ ~self.opened /\ env.vioFails /\ AppGoto(call.ret)
  /\ io' = IF call.ret = "idle" THEN [io EXCEPT !.state = "setup"] ELSE io
  /\ UNCHANGED <<self, buffer, lock, asleep, thr, vio, server, counts>>

(* A new stream object, and with it an empty one at the server.            *)
StartNewStream ==
  /\ call.pc = "start" /\ ~self.opened
  /\ vio' = TRUE /\ server' = <<>> /\ accepted' = 0 /\ entered' = 0
  /\ AppGoto("start_opened")
  /\ UNCHANGED <<self, buffer, lock, asleep, io, thr, delay, env>>

(* Its three unlocked stores.                                              *)
StartStore ==
  /\ \/ /\ call.pc = "start_opened" /\ AppGoto("start_bufptr")
        /\ self' = [self EXCEPT !.opened = TRUE]
     \/ /\ call.pc = "start_bufptr" /\ AppGoto("start_active")
        /\ self' = [self EXCEPT !.bufptr = 0]
     \/ /\ call.pc = "start_active" /\ AppGoto("start_create")
        /\ self' = [self EXCEPT !.active = TRUE]
  /\ UNCHANGED <<buffer, lock, asleep, io, thr, vio, server, counts>>

StartThread ==
  /\ call.pc = "start_create"
  /\ \E t \in Threads :
       /\ thr[t].pc = "none" /\ \A u \in 1 .. t - 1 : thr[u].pc # "none"
       /\ ThrGoto(t, "top")
       /\ self' = [self EXCEPT !.thread = t]
  /\ AppGoto(call.ret)
  /\ UNCHANGED <<buffer, lock, asleep, io, vio, server, counts>>

(* pthread_create reports an error as a positive number, so the test for a *)
(* negative one lets it pass: the stream stays active with no thread.      *)
StartThreadFails ==
  /\ call.pc = "start_create" /\ env.createFails
  /\ self' = [self EXCEPT !.thread = 0]
  /\ AppGoto(call.ret)
  /\ UNCHANGED <<buffer, lock, asleep, io, thr, vio, server, counts>>

-----------------------------------------------------------------------------
(* roar_reset, one store at a time, by a thread whose program counter is   *)
(* at and becomes next.                                                    *)
ResetRestWithoutTotal == [self EXCEPT !.lastPtr = 0, !.begun = FALSE]  \* mutant
ResetRest == [self EXCEPT !.lastPtr = 0, !.total = 0, !.begun = FALSE]
ResetActiveForgotten == self                                       \* mutant
ResetActive == [self EXCEPT !.active = FALSE]

ResetPcs == {"reset", "reset_opened", "reset_active", "reset_bufptr", "reset_rest"}

Reset(at, next) ==
  \/ /\ at = "reset" /\ ~self.opened /\ next = "reset_done"
     /\ UNCHANGED <<self, vio>>
  \/ /\ at = "reset" /\ self.opened /\ next = "reset_opened"
     /\ vio' = FALSE /\ UNCHANGED self
  \/ /\ at = "reset_opened" /\ next = "reset_active"
     /\ self' = [self EXCEPT !.opened = FALSE] /\ UNCHANGED vio
  \/ /\ at = "reset_active" /\ next = "reset_bufptr"
     /\ self' = ResetActive /\ UNCHANGED vio
  \/ /\ at = "reset_bufptr" /\ next = "reset_rest"
     /\ self' = [self EXCEPT !.bufptr = 0] /\ UNCHANGED vio
  \/ /\ at = "reset_rest" /\ next = "reset_done"
     /\ self' = ResetRest /\ UNCHANGED vio

(* roar_pcm_stop                                                           *)
StopTest ==
  /\ call.pc = "stop"
  /\ AppGoto(IF self.active THEN "stop_clear" ELSE "reset")
  /\ UNCHANGED <<self, buffer, lock, asleep, io, thr, vio, server, counts>>

StopClear ==
  /\ call.pc = "stop_clear" /\ AppGoto("stop_signal")
  /\ self' = [self EXCEPT !.active = FALSE]
  /\ UNCHANGED <<buffer, lock, asleep, io, thr, vio, server, counts>>

StopSignal ==
  /\ call.pc = "stop_signal" /\ AppGoto("stop_join")
  /\ Signal
  /\ UNCHANGED <<self, buffer, lock, io, thr, vio, server, counts>>

(* pthread_join; joining a thread that detached itself, or no thread at    *)
(* all, is undefined and taken to return at once.                          *)
NotJoined == TRUE                                                  \* mutant
Joined ==
  \A t \in Threads : t = self.thread /\ ~thr[t].detached => thr[t].pc = "exited"

StopJoin ==
  /\ call.pc = "stop_join" /\ AppGoto("reset")
  /\ Joined
  /\ UNCHANGED <<self, buffer, lock, asleep, io, thr, vio, server, counts>>

StopReset ==
  /\ \E q \in ResetPcs \cup {"reset_done"} : Reset(call.pc, q) /\ AppGoto(q)
  /\ UNCHANGED <<buffer, lock, asleep, io, thr, server, counts>>

StopReturn ==
  /\ call.pc = "reset_done"
  /\ AppGoto(IF call.ret = "pointer_lock" THEN "start" ELSE call.ret)
  /\ UNCHANGED <<self, buffer, lock, asleep, io, thr, vio, server, counts>>

-----------------------------------------------------------------------------
(* roar_pcm_pointer: a smaller appl_ptr than last time means alsa-lib has  *)
(* reset the stream, which is then stopped and started.                    *)
Pointer ==
  /\ call.pc = "pointer"
  /\ IF io.appl < self.lastPtr
     THEN call' = [call EXCEPT !.pc = "stop", !.ret = "pointer_lock"]
     ELSE AppGoto("pointer_lock")
  /\ UNCHANGED <<self, buffer, lock, asleep, io, thr, vio, server, counts>>

RememberedHw == io.appl - self.bufptr                              \* mutant
Remembered == io.appl

(* snd_pcm_bytes_to_frames: C's division drops the part of a frame.        *)
Frames(units) == IF units < 0 THEN -((-units) \div env.frame) ELSE units \div env.frame

(* It returns appl_ptr less the frames of bufptr, from which alsa-lib      *)
(* computes that the rest of the buffer is available; a negative value     *)
(* means XRUN.                                                             *)
PointerLocked ==
  LET queued == Frames(Signed(self.bufptr))
      avail == IF env.gate THEN BufSize - env.frame * queued ELSE BufSize
      n == IF call.size <= avail THEN call.size ELSE avail IN
  /\ call.pc = "pointer_lock" /\ lock = Free
  /\ self' = [self EXCEPT !.lastPtr = Remembered]
  /\ IF io.appl - queued < 0
     THEN /\ io' = [io EXCEPT !.state = "xrun"]
          /\ call' = [call EXCEPT !.pc = "idle", !.ret = "idle", !.size = 0]
     ELSE /\ UNCHANGED io
          /\ call' = [call EXCEPT !.pc = IF n > 0 THEN "write" ELSE "idle",
                                  !.ret = "idle", !.size = IF n > 0 THEN n ELSE 0]
  /\ UNCHANGED <<buffer, lock, asleep, thr, vio, server, counts>>

-----------------------------------------------------------------------------
(* roar_pcm_transfer, and the roar_write it calls.                         *)

(* alsa-lib moves appl_ptr by what the transfer returns, which is size     *)
(* whatever roar_write returned, for it never returns the -1 tested for.   *)
TransferReturns ==
  /\ io' = [io EXCEPT !.appl = @ + Frames(call.size)]
  /\ accepted' = accepted + call.size
  /\ call' = [call EXCEPT !.pc = "idle", !.size = 0]

WriteTest ==
  /\ call.pc = "write"
  /\ IF self.active THEN AppGoto("write_room") /\ UNCHANGED <<io, accepted>>
                    ELSE TransferReturns
  /\ UNCHANGED <<self, buffer, lock, asleep, thr, vio, server, entered, delay, env>>

RoomWithoutLast == SizeT(self.bufptr + call.size) < BufSize        \* mutant
Room == SizeT(self.bufptr + call.size) <= BufSize

WriteRoomDrops ==                                                  \* mutant
  /\ call.pc = "write_room" /\ lock = Free
  /\ AppGoto(IF Room THEN "write_copy" ELSE "write_signal")
  /\ UNCHANGED <<self, buffer, lock, asleep, io, thr, vio, server, counts>>
WriteRoom ==
  /\ call.pc = "write_room" /\ lock = Free
  /\ AppGoto(IF Room THEN "write_copy" ELSE "write_full")
  /\ UNCHANGED <<self, buffer, lock, asleep, io, thr, vio, server, counts>>

WriteFull ==
  /\ call.pc = "write_full" /\ AppGoto("write_wait")
  /\ Signal
  /\ UNCHANGED <<self, buffer, lock, io, thr, vio, server, counts>>

WriteWait ==
  /\ call.pc = "write_wait" /\ AppGoto("write_asleep")
  /\ asleep' = asleep \cup {App}
  /\ UNCHANGED <<self, buffer, lock, io, thr, vio, server, counts>>

WriteAwake ==
  /\ call.pc = "write_asleep" /\ App \notin asleep
  /\ AppGoto("write")
  /\ UNCHANGED <<self, buffer, lock, asleep, io, thr, vio, server, counts>>

(* The memcpy: only the bytes that fall inside the buffer are modelled.    *)
WriteCopy ==
  /\ call.pc = "write_copy" /\ lock = Free
  /\ lock' = App /\ AppGoto("write_load")
  /\ buffer' = [i \in DOMAIN buffer |->
                  IF i \in self.bufptr .. self.bufptr + call.size - 1
                  THEN entered + 1 + i - self.bufptr ELSE buffer[i]]
  /\ UNCHANGED <<self, asleep, io, thr, vio, server, counts>>

(* self->bufptr += size is a load and a store.                             *)
WriteLoad ==
  /\ call.pc = "write_load"
  /\ call' = [call EXCEPT !.pc = "write_store", !.loaded = self.bufptr]
  /\ UNCHANGED <<self, buffer, lock, asleep, io, thr, vio, server, counts>>

WriteStore ==
  /\ call.pc = "write_store" /\ AppGoto("write_signal")
  /\ self' = [self EXCEPT !.bufptr = SizeT(call.loaded + call.size)]
  /\ entered' = entered + call.size
  /\ lock' = Free
  /\ UNCHANGED <<buffer, asleep, io, thr, vio, server, accepted, delay, env>>

WriteSignal ==
  /\ call.pc = "write_signal"
  /\ Signal /\ TransferReturns
  /\ UNCHANGED <<self, buffer, lock, thr, vio, server, entered, delay, env>>

-----------------------------------------------------------------------------
(* roar_thread                                                             *)
ThreadTest(t) ==
  /\ thr[t].pc = "top"
  /\ ThrGoto(t, IF self.active THEN "check" ELSE "quit")
  /\ UNCHANGED <<self, buffer, lock, asleep, io, call, vio, server, counts>>

AnyData == self.bufptr > 0                                         \* mutant
FullChunk == self.bufptr >= Chunk

ThreadCheck(t) ==
  /\ thr[t].pc = "check" /\ lock = Free
  /\ ThrGoto(t, IF FullChunk THEN "vio_write" ELSE "quit")
  /\ UNCHANGED <<self, buffer, lock, asleep, io, call, vio, server, counts>>

(* roar_vio_write takes any nonempty prefix of the chunk, or fails; on a   *)
(* closed stream it can only fail.  What a server is sent beyond twice the *)
(* bound is cut off.                                                       *)
ThreadWrite(t) ==
  /\ thr[t].pc = "vio_write"
  /\ \/ /\ vio /\ Len(server) < 2 * env.units
        /\ \E n \in 1 .. Chunk :
             /\ thr' = [thr EXCEPT ![t].rc = n, ![t].pc = "mark"]
             /\ server' = server \o [i \in 1 .. n |-> buffer[i - 1]]
     \/ /\ env.vioFails \/ ~vio
        /\ ThrGoto(t, "cancel") /\ UNCHANGED server
  /\ UNCHANGED <<self, buffer, lock, asleep, io, call, vio, counts>>

ThreadMark(t) ==
  /\ thr[t].pc = "mark" /\ lock = Free /\ ThrGoto(t, "total")
  /\ self' = [self EXCEPT !.begun = TRUE]
  /\ UNCHANGED <<buffer, lock, asleep, io, call, vio, server, counts>>

ThreadTotal(t) ==
  /\ thr[t].pc = "total" /\ lock = Free /\ ThrGoto(t, "move")
  /\ self' = [self EXCEPT !.total = @ + thr[t].rc]
  /\ UNCHANGED <<buffer, lock, asleep, io, call, vio, server, counts>>

(* memmove(buffer, buffer + rc, bufsize - rc)                              *)
WholeChunk(t) == Chunk                                             \* mutant
Consumed(t) == thr[t].rc

ThreadMove(t) ==
  /\ thr[t].pc = "move" /\ lock = Free
  /\ lock' = t /\ ThrGoto(t, "load")
  /\ buffer' = [i \in DOMAIN buffer |->
                  buffer[IF i + Consumed(t) < BufSize THEN i + Consumed(t) ELSE i]]
  /\ UNCHANGED <<self, asleep, io, call, vio, server, counts>>

(* self->bufptr -= rc is a load and a store.                               *)
ThreadLoad(t) ==
  /\ thr[t].pc = "load"
  /\ thr' = [thr EXCEPT ![t].pc = "store", ![t].loaded = self.bufptr]
  /\ UNCHANGED <<self, buffer, lock, asleep, io, call, vio, server, counts>>

ThreadStore(t) ==
  /\ thr[t].pc = "store"
  /\ self' = [self EXCEPT !.bufptr = SizeT(thr[t].loaded - thr[t].rc)]
  /\ thr' = [thr EXCEPT ![t].pc = "signal"]
  /\ lock' = Free
  /\ UNCHANGED <<buffer, asleep, io, call, vio, server, counts>>

(* The signal after draining, and the two at the end of the inner loop.    *)
ThreadSignal(t) ==
  /\ Signal
  /\ \/ thr[t].pc = "signal" /\ ThrGoto(t, "top")
     \/ thr[t].pc = "quit" /\ ThrGoto(t, IF self.active THEN "wait" ELSE "exited")
  /\ UNCHANGED <<self, buffer, lock, io, call, vio, server, counts>>

ThreadWait(t) ==
  /\ thr[t].pc = "wait" /\ ThrGoto(t, "asleep")
  /\ asleep' = asleep \cup {t}
  /\ UNCHANGED <<self, buffer, lock, io, call, vio, server, counts>>

ThreadAwake(t) ==
  /\ thr[t].pc = "asleep" /\ t \notin asleep /\ ThrGoto(t, "top")
  /\ UNCHANGED <<self, buffer, lock, asleep, io, call, vio, server, counts>>

(* After a failed write: quit if cancelled, else roar_reset, signal, and   *)
(* exit detached.                                                          *)
ThreadCancelTest(t) ==
  /\ thr[t].pc = "cancel"
  /\ ThrGoto(t, IF self.active THEN "reset" ELSE "quit")
  /\ UNCHANGED <<self, buffer, lock, asleep, io, call, vio, server, counts>>

ThreadReset(t) ==
  /\ \E q \in ResetPcs \cup {"reset_done"} : Reset(thr[t].pc, q) /\ ThrGoto(t, q)
  /\ UNCHANGED <<buffer, lock, asleep, io, call, server, counts>>

ThreadFailSignal(t) ==
  /\ thr[t].pc = "reset_done" /\ ThrGoto(t, "detach")
  /\ Signal
  /\ UNCHANGED <<self, buffer, lock, io, call, vio, server, counts>>

ThreadDetach(t) ==
  /\ thr[t].pc = "detach"
  /\ thr' = [thr EXCEPT ![t].pc = "exited", ![t].detached = TRUE]
  /\ UNCHANGED <<self, buffer, lock, asleep, io, call, vio, server, counts>>

-----------------------------------------------------------------------------
AppCall == HwParams \/ Prepare \/ Start \/ Drop \/ Write \/ Delay \/ Close

AppStep ==
  \/ HwBufptr
  \/ StartIgnored \/ StartRefused \/ StartNewStream \/ StartStore \/ StartThread \/ StartThreadFails
  \/ StopTest \/ StopClear \/ StopSignal \/ StopJoin \/ StopReset \/ StopReturn
  \/ Pointer \/ PointerLocked
  \/ WriteTest \/ WriteRoom \/ WriteFull \/ WriteWait \/ WriteAwake
  \/ WriteCopy \/ WriteLoad \/ WriteStore \/ WriteSignal

ThreadStep(t) ==
  \/ ThreadTest(t) \/ ThreadCheck(t) \/ ThreadWrite(t) \/ ThreadMark(t)
  \/ ThreadTotal(t) \/ ThreadMove(t) \/ ThreadLoad(t) \/ ThreadStore(t)
  \/ ThreadSignal(t) \/ ThreadWait(t) \/ ThreadAwake(t) \/ ThreadCancelTest(t)
  \/ ThreadReset(t) \/ ThreadFailSignal(t) \/ ThreadDetach(t)

Next ==
  \/ AppCall \/ AppStep \/ Spurious
  \/ \E t \in Threads : ThreadStep(t)

Spec == Init /\ [][Next]_vars

(* Every thread keeps being scheduled; nobody has to call the plugin, and  *)
(* nothing has to wake a sleeper but a signal.                             *)
FairSpec == Spec /\ WF_vars(AppStep) /\ \A t \in Threads : WF_vars(ThreadStep(t))

-----------------------------------------------------------------------------
AppPcs ==
  {"idle", "hw_bufptr", "start", "start_opened", "start_bufptr", "start_active", "start_create",
   "stop", "stop_clear", "stop_signal", "stop_join", "reset_done", "pointer",
   "pointer_lock", "write", "write_room", "write_full", "write_wait",
   "write_asleep", "write_copy", "write_load", "write_store", "write_signal"} \cup ResetPcs
ThreadPcs ==
  {"none", "top", "check", "vio_write", "mark", "total", "move", "load", "store",
   "signal", "quit", "wait", "asleep", "cancel", "reset_done", "detach", "exited"}
  \cup ResetPcs

SizeTs == 0 .. SizeMod - 1
SelfType == [opened : BOOLEAN, active : BOOLEAN, bufptr : SizeTs, total : Nat,
             begun : BOOLEAN, lastPtr : Nat, thread : {0} \cup Threads]
IoType == [state : {"open", "setup", "prepared", "running", "xrun", "closed"}, appl : Nat]
CallType == [pc : AppPcs, ret : {"idle", "pointer_lock"}, size : 0 .. BufSize, loaded : SizeTs]
ThrType == [pc : ThreadPcs, rc : 0 .. Chunk, loaded : SizeTs, detached : BOOLEAN]

(* Every field keeps its type; bufptr and what was loaded from it fit in   *)
(* a size_t.                                                               *)
TypeOK ==
  /\ self \in SelfType /\ io \in IoType /\ call \in CallType
  /\ thr \in [Threads -> ThrType]
  /\ buffer \in [0 .. BufSize - 1 -> Int]
  /\ lock \in {Free, App} \cup Threads
  /\ asleep \subseteq {App} \cup Threads
  /\ vio \in BOOLEAN /\ server \in Seq(Int)
  /\ entered \in Nat /\ accepted \in Nat /\ delay \in Nat /\ env \in Envs

-----------------------------------------------------------------------------
(* No more than the first n background threads have been created.          *)
Created(n) == \A t \in Threads : t > n => thr[t].pc = "none"

(* The thread is between the roar_vio_write that took rc units and the     *)
(* moment bufptr gives them up; from "load" on the buffer has been moved.  *)
Unstored(t) == thr[t].pc \in {"mark", "total", "move", "load", "store"}
Live(t) == thr[t].pc \notin {"none", "exited"}

(* The FIFO never reaches past the buffer: the room roar_write found is    *)
(* still there when it takes the lock a second time to copy, and the       *)
(* thread never takes more out than is in.  Not so where hw_params comes   *)
(* while a thread drains the stream: the thread may then take its chunk    *)
(* out of an empty FIFO.  (Nor of a stream that was started again after    *)
(* roar_vio_write failed.)                                                 *)
BufferAlwaysBounded ==
  /\ self.bufptr <= BufSize
  /\ call.pc \in {"write_copy", "write_load"} => self.bufptr + call.size <= BufSize
BufferBounded == ~env.rehw => BufferAlwaysBounded

StartPcs == {"start_opened", "start_bufptr", "start_active", "start_create"}
QuietPcs == ResetPcs \cup {"reset_done"} \cup StartPcs

(* The unlocked stores of roar_pcm_start and of the roar_reset roar_pcm_   *)
(* stop calls run while no background thread is there to race with, two    *)
(* threads never drain one FIFO, and none is left when roar_pcm_close      *)
(* frees the structure: as long as roar_vio_write does not fail.           *)
NoThreadAtReset ==
  ~env.vioFails =>
  /\ \A t, u \in Threads : Live(t) /\ Live(u) => t = u
  /\ call.pc \in QuietPcs \/ io.state = "closed" => \A t \in Threads : ~Live(t)

(* A stream that accepts data has a thread to drain it: not true however   *)
(* often a stream is started again after roar_vio_write has failed.  A     *)
(* first thread between two stores of roar_reset clears thread_active of a *)
(* second stream; roar_pcm_stop then joins nobody, and the second thread,  *)
(* in its own roar_reset, clears stream_opened of a third, whose thread    *)
(* finds nothing to reset and leaves it active.                            *)
ActiveAlwaysHasThread ==
  call.pc = "idle" /\ self.active /\ ~env.createFails => \E t \in Threads : Live(t)

(* A stream that accepts data has a thread to drain it, also after         *)
(* roar_vio_write has failed and the stream was started again, unless      *)
(* pthread_create failed: where writes fail, up to the second thread.      *)
ActiveHasThread == (env.vioFails => Created(2)) => ActiveAlwaysHasThread

(* Every unit roar_pcm_transfer reported as written has entered the FIFO,  *)
(* unless roar_vio_write failed in between.                                *)
ReportedIsQueued == call.pc = "idle" /\ ~env.vioFails => accepted = entered

(* The delay exceeds what was written by no more than the one chunk whose  *)
(* units are in total_written already and in bufptr still; unless hw_params *)
(* emptied the FIFO under the thread.                                      *)
DelayOffByAChunk == [][~env.rehw /\ delay' # delay => delay' <= entered + Chunk]_vars

(* roar_thread drains the buffer at all times: a full chunk does not stay  *)
(* in the FIFO.                                                            *)
ChunkDrained == self.bufptr >= Chunk ~> self.bufptr < Chunk

(* A transfer returns, whatever the background thread does: the pointer    *)
(* roar_pcm_pointer invents keeps alsa-lib from handing over more than     *)
(* fits, so roar_write never sleeps.  Where a frame has several bytes that *)
(* is not true: the server may take a part of one, roar_pcm_pointer counts *)
(* the rest for nothing, and roar_write waits for room the thread, which   *)
(* has less than a chunk, will not make.                                   *)
FramesReturn == call.pc = "write" /\ env.gate ~> call.pc = "idle"
WriteReturns ==
  call.pc = "write" /\ env.gate /\ env.frame = 1 /\ ~env.rehw ~> call.pc = "idle"

(* The plugin is a pipe, see AudioPipe.  Of a stream whose FIFO hw_params  *)
(* may empty while it is open nothing is shown.                            *)
Shown(value, nothing) == IF env.rehw THEN nothing ELSE value
Pipe == INSTANCE AudioPipe WITH
          Cap <- BufSize, submitted <- Shown(entered, 0), received <- Shown(server, <<>>)
ImplementsPipe == Pipe!Spec

-----------------------------------------------------------------------------
(* The inductive invariant behind BufferBounded and NoThreadAtReset, in an *)
(* environment where roar_vio_write does not fail.                         *)
FailPcs == {"cancel", "reset_done", "detach"} \cup ResetPcs

(* A live thread is the one roar_pcm_stop will join, on an open stream;    *)
(* only roar_pcm_stop takes thread_active from under it.  It holds the     *)
(* lock where the code says; and unless hw_params empties the FIFO under   *)
(* it, that holds the chunk it gives roar_vio_write, and then what that    *)
(* took.                                                                   *)
ThreadInv(t) ==
  /\ thr[t].pc \notin FailPcs /\ ~thr[t].detached
  /\ Live(t) => /\ t = self.thread /\ self.opened /\ vio
                /\ self.active \/ call.pc \in {"stop_signal", "stop_join"}
  /\ lock = t <=> thr[t].pc \in {"load", "store"}
  /\ ~env.rehw => /\ thr[t].pc = "store" => thr[t].loaded = self.bufptr
                  /\ thr[t].pc = "vio_write" => self.bufptr >= Chunk
                  /\ Unstored(t) => thr[t].rc <= self.bufptr

(* What roar_pcm_start has done at each of its stores, alone; and so is    *)
(* hw_params where it follows a stop.                                      *)
QuietStart ==
  /\ call.pc \in QuietPcs \/ (call.pc = "hw_bufptr" /\ ~env.rehw) => \A t \in Threads : ~Live(t)
  /\ call.pc \in StartPcs => vio
  /\ call.pc \in StartPcs \ {"start_opened"} => self.opened
  /\ call.pc = "start_create" => self.active

(* A stream alsa-lib has stopped has no thread, or is about to join it.    *)
Stopped ==
  io.state \in {"open", "setup", "closed"} =>
    /\ call.ret = "idle"
    /\ \/ call.pc \in {"stop", "stop_clear", "stop_signal", "stop_join", "reset_done"} \cup ResetPcs
       \/ call.pc \in {"idle", "hw_bufptr"} /\ \A t \in Threads : ~Live(t)
    /\ io.state = "closed" => call.pc = "idle"

(* The application's thread: the lock, the value it loaded under it, and   *)
(* the room it found.                                                      *)
AppLocking ==
  /\ lock = App <=> call.pc \in {"write_load", "write_store"}
  /\ call.pc = "write_store" => call.loaded = self.bufptr

Fitting ==
  ~env.rehw => /\ self.bufptr <= BufSize
               /\ call.pc \in {"write_copy", "write_load", "write_store"} =>
                    self.bufptr + call.size <= BufSize

IInv ==
  ~env.vioFails => /\ \A t \in Threads : ThreadInv(t)
                   /\ QuietStart /\ Stopped /\ AppLocking /\ Fitting

=============================================================================
