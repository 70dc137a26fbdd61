------------------------------ MODULE PulsePcm ------------------------------
(***************************************************************************)
(* The PulseAudio PCM plugin: pulse/pcm_pulse.c over pulse/pulse.c.        *)
(*                                                                         *)
(* The application's thread calls the ioplug callbacks; libpulse's         *)
(* mainloop thread runs the plugin's own callbacks when the server answers.*)
(* Both work under the mainloop lock, which only a wait for a signal gives *)
(* up: a step here is what happens from taking the lock (or waking) to     *)
(* giving it back (or falling asleep).  The one loop worth splitting, over *)
(* the fragments of a read, keeps the lock between its steps.              *)
(*                                                                         *)
(* A unit is a frame.  The units a capture stream delivers are numbered.   *)
(***************************************************************************)
EXTENDS Integers, Sequences, SequencesExt

CONSTANTS
  TLength,      \* buffer_attr.tlength: io->buffer_size
  MinReq,       \* buffer_attr.minreq and fragsize: io->period_size
  MaxUnits,     \* bound: units written to, or captured by, one stream
  MaxStreams,   \* bound: streams created in one behaviour
  MaxHw,        \* bound: hw_ptr when the application pauses, see AvailIsReal
  Envs          \* the environments a behaviour may run in, see env

ASSUME SizesAssumption ==
  /\ TLength \in Nat \ {0} /\ MinReq \in 1 .. TLength
  /\ MaxUnits \in Nat /\ MaxStreams \in Nat /\ MaxHw \in Nat
ASSUME EnvsAssumption ==
  Envs \subseteq [playback : BOOLEAN, fails : BOOLEAN, refuses : BOOLEAN, pauses : BOOLEAN,
                  streams : 1 .. MaxStreams]

VARIABLES
  io,        \* alsa-lib's side: PCM state, appl_ptr, hw_ptr, last_hw
  pcm,       \* struct snd_pcm_pulse: ptr, last_size, underrun, offset
  ctx,       \* state of the context
  stream,    \* state of the stream; "none" is a NULL pointer, "closing" a
             \* stream that was disconnected and has not terminated yet
  ops,       \* operations the server has not answered
  call,      \* where the application's thread is, the units it still has to
             \* transfer, and whether libpulse refused what it asked for
  awake,     \* it is not waiting for a signal of the mainloop
  poll,      \* the poll pipe is readable
  room,      \* playback: what the server asked for, less what was written
  queue,     \* capture: fragments not dropped yet, as sequences of units
  sent,      \* capture: units the server sent on this stream
  got,       \* capture: units the application received from it
  latency,   \* the server has told its latency
  prepared,  \* the last pulse_prepare returned success
  streams,   \* streams created
  env        \* fixed in a behaviour: the direction; whether the connection and
             \* the stream may fail; whether libpulse may refuse a call; whether
             \* the application pauses; the bound on streams

server == <<room, queue, sent, got>>
history == <<prepared, streams, env>>
vars == <<io, pcm, ctx, stream, ops, call, awake, poll, server, latency, history>>

Init ==
  /\ io = [state |-> "opening", appl |-> 0, hw |-> 0, lastHw |-> 0]
  /\ pcm = [ptr |-> 0, lastSize |-> 0, underrun |-> FALSE, offset |-> 0]
  /\ ctx = "connecting" /\ stream = "none" /\ ops = {}
  /\ call = [pc |-> "connect", size |-> 0, err |-> FALSE]
  /\ awake = TRUE /\ poll = FALSE
  /\ room = 0 /\ queue = <<>> /\ sent = 0 /\ got = <<>>
  /\ latency = FALSE /\ prepared = FALSE /\ streams = 0
  /\ env \in Envs

Goto(q) == call' = [call EXCEPT !.pc = q]
Idle == call.pc = "idle"
Wait == awake' = FALSE
Signal == awake' = TRUE

CtxGood == ctx \in {"connecting", "ready"}
StreamGood == stream \in {"creating", "ready", "closing"}
(* check_stream                                                            *)
Usable == CtxGood /\ StreamGood

Readable == Len(FlattenSeq(queue))
Writable == IF room > 0 THEN room ELSE 0
(* What update_ptr takes for the free or filled part of the ring buffer.   *)
Size == IF env.playback THEN Writable ELSE Readable - pcm.offset

-----------------------------------------------------------------------------
(* update_ptr: how far the pointer into the ring buffer alsa-lib believes  *)
(* in has moved is what the size grew by.                                  *)
GrownOrShrunk(p, size) == (p.ptr + size - p.lastSize) % TLength    \* mutant
Grown(p, size) ==
  IF size > p.lastSize THEN (p.ptr + size - p.lastSize) % TLength ELSE p.ptr

UpdatedPtr(p, size) == [p EXCEPT !.ptr = Grown(p, size), !.lastSize = size]

(* check_active, with that much asked for or that queue                    *)
ActiveAboveMin(r, q) ==                                            \* mutant
  IF env.playback THEN r > MinReq ELSE Len(FlattenSeq(q)) > MinReq
Active(r, q) == IF env.playback THEN r >= MinReq ELSE Len(FlattenSeq(q)) >= MinReq

(* update_active: the pipe is drained unless there is something to do or   *)
(* to complain about.                                                      *)
UpdateActive == poll' = (~Usable \/ Active(room', queue'))

-----------------------------------------------------------------------------
(* pulse_connect, called while the plugin is being opened                  *)
Connect ==
  /\ call.pc = "connect" /\ awake
  /\ \/ /\ ctx = "connecting" /\ Wait /\ UNCHANGED <<io, call>>
     \/ /\ ctx = "ready" /\ Goto("idle")
        /\ io' = [io EXCEPT !.state = "open"] /\ UNCHANGED awake
     \/ /\ ~CtxGood /\ Goto("idle")
        /\ io' = [io EXCEPT !.state = "closed"] /\ UNCHANGED awake
  /\ UNCHANGED <<pcm, ctx, stream, ops, poll, server, latency, history>>

HwParams ==
  /\ Idle /\ io.state \in {"open", "setup"}
  /\ io' = [io EXCEPT !.state = "setup"]
  /\ UNCHANGED <<pcm, ctx, stream, ops, call, awake, poll, server, latency, history>>

(* snd_pcm_prepare resets the pointers of alsa-lib, then calls             *)
(* pulse_prepare, which first gets rid of the stream there may be.         *)
Prepare ==
  /\ Idle /\ io.state \in {"setup", "prepared", "running", "xrun", "paused"}
  /\ streams < env.streams
  /\ io' = [state |-> "prepared", appl |-> 0, hw |-> 0, lastHw |-> 0]
  /\ stream' = IF CtxGood /\ StreamGood THEN "closing" ELSE stream
  /\ Goto(IF stream = "none" THEN "prepare_new" ELSE "prepare_close")
  /\ UNCHANGED <<pcm, ctx, ops, awake, poll, server, latency, history>>

(* wait_stream_state(TERMINATED); the error it may return is ignored.      *)
PrepareClose ==
  /\ call.pc = "prepare_close" /\ awake
  /\ IF Usable THEN Wait /\ UNCHANGED <<stream, ops, call>>
     ELSE stream' = "none" /\ ops' = {} /\ Goto("prepare_new") /\ UNCHANGED awake
  /\ UNCHANGED <<io, pcm, ctx, poll, server, latency, history>>

(* What is returned for a negative error of pulse_check_connection or      *)
(* wait_stream_state.                                                      *)
ErrorDropped == TRUE                                               \* mutant
ErrorReturned == FALSE

PrepareFails(ok) == stream' = "none" /\ Goto("idle") /\ prepared' = ok

(* A refused pa_stream_connect sets r, but it is err that is returned.     *)
PrepareNew ==
  /\ call.pc = "prepare_new"
  /\ \/ ~CtxGood /\ PrepareFails(ErrorReturned) /\ UNCHANGED <<server, latency, streams>>
     \/ CtxGood /\ env.refuses /\ PrepareFails(FALSE) /\ UNCHANGED <<server, latency, streams>>
     \/ CtxGood /\ env.refuses /\ PrepareFails(TRUE) /\ UNCHANGED <<server, latency, streams>>
     \/ /\ CtxGood
        /\ stream' = "creating" /\ Goto("prepare_ready") /\ streams' = streams + 1
        /\ room' = 0 /\ queue' = <<>> /\ sent' = 0 /\ got' = <<>> /\ latency' = FALSE
        /\ UNCHANGED prepared
  /\ UNCHANGED <<io, pcm, ctx, ops, awake, poll, env>>

(* wait_stream_state(READY); ptr and last_size keep their values.          *)
PrepareReady ==
  /\ call.pc = "prepare_ready" /\ awake
  /\ \/ Usable /\ stream # "ready" /\ Wait /\ UNCHANGED <<pcm, stream, call, prepared>>
     \/ ~Usable /\ PrepareFails(ErrorReturned) /\ UNCHANGED <<pcm, awake>>
     \/ /\ CtxGood /\ stream = "ready" /\ Goto("idle") /\ prepared' = TRUE
        /\ pcm' = [pcm EXCEPT !.offset = 0, !.underrun = FALSE]
        /\ UNCHANGED <<stream, awake>>
  /\ UNCHANGED <<io, ctx, ops, poll, server, latency, streams, env>>

-----------------------------------------------------------------------------
(* The calls that ask the server for something and wait for the answer:    *)
(* pulse_start, pulse_stop and pulse_drain, from snd_pcm_start, _drop and  *)
(* _drain, which drains and then drops.  A call on a dead stream, or one   *)
(* libpulse refuses, has nothing to wait for.                              *)
Ask(pc, asked) ==
  /\ \E err \in {~Usable, env.refuses} :
       /\ Usable \/ err
       /\ call' = [call EXCEPT !.pc = pc, !.err = err]
       /\ ops' = IF err THEN ops ELSE ops \cup asked
  /\ UNCHANGED <<io, ctx, stream, awake, poll, server, latency, history>>

Start ==
  /\ Idle /\ io.state = "prepared" /\ Ask("start", {"uncork", "trigger"})
  /\ pcm' = [pcm EXCEPT !.underrun = @ /\ call'.err]

Drop ==
  /\ Idle /\ io.state \in {"prepared", "running", "xrun", "paused"}
  /\ Ask("stop", {"cork", "flush"}) /\ UNCHANGED pcm

DropDrained ==
  /\ call.pc = "drained"
  /\ Ask("stop", {"cork", "flush"}) /\ UNCHANGED pcm

Drain ==
  /\ Idle /\ env.playback /\ io.state \in {"prepared", "running"}
  /\ Ask("drain", {"drain"}) /\ UNCHANGED pcm

Asked == [start |-> {"uncork", "trigger"}, stop |-> {"cork", "flush"}, drain |-> {"drain"}]

(* pulse_wait_operation                                                    *)
WaitOperation ==
  /\ call.pc \in DOMAIN Asked /\ awake
  /\ ~call.err /\ CtxGood /\ ops \cap Asked[call.pc] # {}
  /\ Wait
  /\ UNCHANGED <<io, pcm, ctx, stream, ops, call, poll, server, latency, history>>

(* snd_pcm_start only succeeds with pulse_start, the others regardless.    *)
OpsDone ==
  /\ call.pc \in DOMAIN Asked /\ awake
  /\ call.err \/ ~CtxGood \/ ops \cap Asked[call.pc] = {}
  /\ call' = [call EXCEPT !.pc = IF @ = "drain" THEN "drained" ELSE "idle", !.err = FALSE]
  /\ io' = IF call.pc = "stop" THEN [io EXCEPT !.state = "setup"]
           ELSE IF call.pc = "start" /\ ~call.err /\ CtxGood THEN [io EXCEPT !.state = "running"] ELSE io
  /\ UNCHANGED <<pcm, ctx, stream, ops, awake, poll, server, latency, history>>

(* snd_pcm_pause; pulse_pause does not wait for the server.                *)
Pause ==
  /\ Idle /\ env.playback /\ env.pauses /\ Usable
  /\ \/ io.state = "running" /\ io.hw <= MaxHw /\ io' = [io EXCEPT !.state = "paused"]
     \/ io.state = "paused" /\ io' = [io EXCEPT !.state = "running"]
  /\ UNCHANGED <<pcm, ctx, stream, ops, call, awake, poll, server, latency, history>>

(* pulse_delay waits until the server has told its latency; either way it  *)
(* then turns an underrun into XRUN.                                       *)
Delay ==
  /\ Idle /\ io.state \in {"prepared", "running"} /\ Goto("delay")
  /\ UNCHANGED <<io, pcm, ctx, stream, ops, awake, poll, server, latency, history>>

DelayLoop ==
  /\ call.pc = "delay" /\ awake
  /\ IF Usable /\ ~latency THEN Wait /\ UNCHANGED <<io, call>>
     ELSE /\ Goto("idle") /\ UNCHANGED awake
          /\ io' = IF pcm.underrun /\ io.state = "running" THEN [io EXCEPT !.state = "xrun"] ELSE io
  /\ UNCHANGED <<pcm, ctx, stream, ops, poll, server, latency, history>>

-----------------------------------------------------------------------------
(* snd_pcm_writei and snd_pcm_readi: pulse_pointer, by which alsa-lib      *)
(* moves hw_ptr round its ring buffer, then the transfer of what is        *)
(* available.  snd_pcm_avail_update is the first half alone.               *)
Moved(hw) ==
  [io EXCEPT !.lastHw = hw,
             !.hw = @ + (IF hw >= io.lastHw THEN hw - io.lastHw ELSE TLength + hw - io.lastHw)]

Avail(i) == IF env.playback THEN TLength + i.hw - i.appl ELSE i.hw - i.appl

Transfer(i, n) ==
  IF n = 0 \/ Avail(i) <= 0 THEN UNCHANGED call
  ELSE call' = [call EXCEPT !.pc = IF env.playback THEN "write" ELSE "read",
                            !.size = IF n <= Avail(i) THEN n ELSE Avail(i)]

Pointer ==
  /\ Idle /\ io.state \in {"prepared", "running", "paused"}
  /\ \E n \in 0 .. TLength :
       /\ n > 0 => IF env.playback THEN io.state # "paused" /\ io.appl + n <= MaxUnits
                                   ELSE io.state = "running"
       /\ \/ /\ io.state # "running"
             /\ io' = Moved(0) /\ Transfer(io', n) /\ UNCHANGED pcm
          \/ /\ io.state = "running" /\ (~Usable \/ pcm.underrun)
             /\ io' = [io EXCEPT !.state = "xrun"] /\ UNCHANGED <<pcm, call>>
          \/ /\ io.state = "running" /\ Usable /\ ~pcm.underrun
             /\ pcm' = UpdatedPtr(pcm, Size)
             /\ io' = Moved(pcm'.ptr) /\ Transfer(io', n)
  /\ UNCHANGED <<ctx, stream, ops, awake, poll, server, latency, history>>

(* The end of a transfer of n units, of which alsa-lib takes note          *)
Transferred(n) ==
  /\ call' = [call EXCEPT !.pc = "idle", !.size = 0]
  /\ io' = [io EXCEPT !.appl = @ + n]

(* pulse_write                                                             *)
Write ==
  /\ call.pc = "write"
  /\ \/ /\ ~Usable \/ env.refuses
        /\ pcm' = IF Usable THEN UpdatedPtr(pcm, Size) ELSE pcm
        /\ Transferred(0) /\ UNCHANGED <<room, poll>>
     \/ /\ Usable
        /\ room' = room - call.size
        /\ pcm' = [UpdatedPtr(UpdatedPtr(pcm, Size), Writable') EXCEPT !.underrun = FALSE]
        /\ UpdateActive
        /\ Transferred(call.size)
  /\ UNCHANGED <<ctx, stream, ops, awake, queue, sent, got, latency, history>>

(* pulse_read, up to its loop                                              *)
Read ==
  /\ call.pc = "read"
  /\ IF Usable THEN Goto("read_loop") /\ pcm' = UpdatedPtr(pcm, Size) /\ UNCHANGED io
               ELSE Transferred(0) /\ UNCHANGED pcm
  /\ UNCHANGED <<ctx, stream, ops, awake, poll, server, latency, history>>

(* The part of the first fragment that is left, and what follows it.       *)
Left == SubSeq(queue[1], pcm.offset + 1, Len(queue[1]))
OffsetForgotten(left) == 0                                         \* mutant
NextOffset(left) == IF Len(left) > call.size THEN pcm.offset + call.size ELSE 0

(* One turn of it: peek, copy, drop the fragment when it is used up.  The  *)
(* units still to read are in call.size.                                   *)
ReadFragment ==
  /\ call.pc = "read_loop" /\ call.size > 0 /\ queue # <<>>
  /\ LET n == IF Len(Left) > call.size THEN call.size ELSE Len(Left) IN
     /\ got' = got \o SubSeq(Left, 1, n)
     /\ pcm' = [pcm EXCEPT !.offset = NextOffset(Left)]
     /\ queue' = IF pcm'.offset = 0 THEN Tail(queue) ELSE queue
     /\ call' = [call EXCEPT !.size = @ - n]
  /\ UNCHANGED <<io, ctx, stream, ops, awake, poll, room, sent, latency, history>>

ReadEnd ==
  /\ call.pc = "read_loop"
  /\ call.size = 0 \/ queue = <<>>
  /\ pcm' = UpdatedPtr(pcm, Size)
  /\ UNCHANGED <<queue, room>> /\ UpdateActive
  /\ Transferred(Len(got) - io.appl)
  /\ UNCHANGED <<ctx, stream, ops, awake, sent, got, latency, history>>

(* pulse_close and pulse_free                                              *)
Close ==
  /\ Idle /\ io.state \in {"open", "setup"}
  /\ io' = [io EXCEPT !.state = "closed"]
  /\ stream' = "none" /\ ctx' = "terminated" /\ ops' = {}
  /\ UNCHANGED <<pcm, call, awake, poll, server, latency, history>>

-----------------------------------------------------------------------------
(* The mainloop thread: an event from the server, and the plugin's         *)
(* callback for it.                                                        *)
Mainloop == io.state # "closed" /\ call.pc # "read_loop"

(* context_state_cb                                                        *)
ContextReady ==
  /\ Mainloop /\ ctx = "connecting"
  /\ ctx' = "ready" /\ Signal
  /\ UNCHANGED <<io, pcm, stream, ops, call, poll, server, latency, history>>

(* A context that fails takes its stream and operations with it:           *)
(* stream_state_cb, then context_state_cb.                                 *)
ContextFails ==
  /\ Mainloop /\ env.fails /\ CtxGood
  /\ ctx' = "failed" /\ stream' = IF StreamGood THEN "failed" ELSE stream
  /\ ops' = {} /\ poll' = TRUE /\ Signal
  /\ UNCHANGED <<io, pcm, call, server, latency, history>>

(* stream_state_cb                                                         *)
StreamSignalForgotten == UNCHANGED awake                           \* mutant
StreamSignal == Signal

StreamState(state) ==
  /\ stream' = state /\ ops' = {} /\ StreamSignal
  /\ UNCHANGED <<io, pcm, ctx, call, queue, sent, got, latency, history>>

(* A stream that becomes ready has its first request with it:              *)
(* stream_state_cb, then stream_request_cb.                                *)
StreamReady ==
  /\ Mainloop /\ stream = "creating" /\ CtxGood
  /\ StreamState("ready")
  /\ room' = IF env.playback THEN TLength ELSE 0
  /\ IF env.playback THEN UpdateActive ELSE UNCHANGED poll

StreamFails ==
  /\ Mainloop /\ env.fails /\ Usable
  /\ StreamState("failed") /\ poll' = TRUE /\ UNCHANGED room

StreamTerminates ==
  /\ Mainloop /\ stream = "closing" /\ CtxGood
  /\ StreamState("terminated") /\ poll' = TRUE /\ UNCHANGED room

Running == Mainloop /\ CtxGood /\ stream = "ready"

(* stream_success_cb; a flushed playback stream asks for a full buffer.    *)
OperationDone ==
  /\ Mainloop /\ Usable
  /\ \E o \in ops :
       /\ ops' = ops \ {o}
       /\ IF o = "flush" /\ env.playback
          THEN room' = TLength /\ UNCHANGED queue /\ UpdateActive
          ELSE UNCHANGED <<room, queue, poll>>
  /\ Signal
  /\ UNCHANGED <<io, pcm, ctx, stream, call, sent, got, latency, history>>

(* stream_request_cb: the server played n units, or captured a fragment.   *)
Request ==
  /\ Running
  /\ \/ /\ env.playback /\ \E n \in 1 .. TLength - room : room' = room + n
        /\ UNCHANGED <<queue, sent>>
     \/ /\ ~env.playback /\ \E n \in 1 .. MaxUnits - sent :
             /\ queue' = Append(queue, [i \in 1 .. n |-> sent + i])
             /\ sent' = sent + n
        /\ UNCHANGED room
  /\ UpdateActive
  /\ UNCHANGED <<io, pcm, ctx, stream, ops, call, awake, got, latency, history>>

(* stream_underrun_cb, when all that was written has been played           *)
Underflow ==
  /\ Running /\ env.playback /\ room = TLength
  /\ pcm' = [pcm EXCEPT !.underrun = TRUE]
  /\ UNCHANGED <<io, ctx, stream, ops, call, awake, poll, server, latency, history>>

(* stream_latency_cb                                                       *)
LatencyUpdate ==
  /\ Running /\ latency' = TRUE /\ Signal
  /\ UNCHANGED <<io, pcm, ctx, stream, ops, call, poll, server, history>>

-----------------------------------------------------------------------------
AppCall == HwParams \/ Prepare \/ Start \/ Drop \/ Drain \/ Pause \/ Delay \/ Pointer \/ Close

AppStep ==
  \/ Connect \/ PrepareClose \/ PrepareNew \/ PrepareReady \/ WaitOperation \/ OpsDone
  \/ DropDrained \/ DelayLoop \/ Write \/ Read \/ ReadFragment \/ ReadEnd

ServerAnswer == ContextReady \/ StreamReady \/ StreamTerminates \/ OperationDone
ServerEvent == ContextFails \/ StreamFails \/ Request \/ Underflow

Next == AppCall \/ AppStep \/ ServerAnswer \/ ServerEvent \/ LatencyUpdate

Spec == Init /\ [][Next]_vars

(* The application's thread runs, and the server answers what it is asked  *)
(* and keeps sending its latency: no callback has a timeout.               *)
FairSpec == Spec /\ WF_vars(AppStep) /\ WF_vars(ServerAnswer) /\ WF_vars(LatencyUpdate)

-----------------------------------------------------------------------------
Pcs == {"connect", "idle", "prepare_close", "prepare_new", "prepare_ready", "start", "stop",
        "drain", "drained", "delay", "write", "read", "read_loop"}

(* The pointer stays inside the ring buffer alsa-lib believes in, and the  *)
(* offset inside the first fragment: neither size_t ever wraps.            *)
TypeOK ==
  /\ io \in [state : {"opening", "open", "setup", "prepared", "running", "xrun", "paused", "closed"},
             appl : 0 .. MaxUnits, hw : Nat, lastHw : 0 .. TLength - 1]
  /\ pcm \in [ptr : 0 .. TLength - 1, lastSize : Nat, underrun : BOOLEAN, offset : Nat]
  /\ ctx \in {"connecting", "ready", "failed", "terminated"}
  /\ stream \in {"none", "creating", "ready", "closing", "failed", "terminated"}
  /\ ops \subseteq {"uncork", "trigger", "cork", "flush", "drain"}
  /\ call \in [pc : Pcs, size : 0 .. TLength, err : BOOLEAN]
  /\ awake \in BOOLEAN /\ poll \in BOOLEAN /\ latency \in BOOLEAN /\ prepared \in BOOLEAN
  /\ room \in Int /\ sent \in 0 .. MaxUnits /\ streams \in 0 .. MaxStreams /\ env \in Envs

(* An application that polls is not left asleep: the pipe is readable      *)
(* whenever a ready stream has a period to write or to read, and when the  *)
(* connection or the stream has failed.                                    *)
PollReady ==
  /\ CtxGood /\ stream = "ready" /\ call.pc # "read_loop" =>
       ((IF env.playback THEN room >= MinReq ELSE Readable >= MinReq) => poll)
  /\ ctx = "failed" \/ stream = "failed" => poll

(* What alsa-lib takes to be available is really there: the server asked   *)
(* for as much, or sent it.  (Holds for a stream that is not paused and is *)
(* the first one; see AvailIsReal.)                                        *)
AvailReal ==
  io.state = "running" /\ Usable /\ call.pc # "read_loop" =>
    Avail(io) <= IF env.playback THEN Writable ELSE Readable - pcm.offset
FirstAvailReal == streams = 1 /\ ~env.pauses => AvailReal

(* The voodoo of update_ptr gives alsa-lib the ring buffer it expects: the *)
(* same, of every stream.                                                  *)
AvailIsReal == AvailReal

(* The application reads what was captured, in order, nothing skipped and  *)
(* nothing twice, however reads and fragments are cut.                     *)
ReadInOrder == got = [i \in 1 .. Len(got) |-> i]

(* A pulse_prepare that returned success has left a stream.  (Unless       *)
(* libpulse refused to connect it, when success is returned all the same.) *)
PreparedHasStream == prepared /\ Idle /\ io.state = "prepared" /\ ~env.refuses => stream # "none"

(* Every call returns: whatever a callback waits for, the one who provides *)
(* it, or fails to, signals.                                               *)
CallsReturn == ~Idle ~> Idle
=============================================================================
