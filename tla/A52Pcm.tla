------------------------------- MODULE A52Pcm -------------------------------
(***************************************************************************)
(* The A/52 encoder plugin: a52/pcm_a52.c.                                 *)
(*                                                                         *)
(* Units the application transfers fill inbuf; a full inbuf is encoded into*)
(* outbuf, a frame of as many units (IEC958 at the rate of the input), and *)
(* what is pending of that frame goes to the slave PCM as the slave takes  *)
(* it.  One thread calls the plugin; the slave plays at any moment.        *)
(*                                                                         *)
(* A unit is a frame of samples, numbered from 1 since the last prepare; an*)
(* encoded frame stands for the units in it, padding for 0.                *)
(***************************************************************************)
EXTENDS Integers, Sequences

CONSTANTS
  FrameSize,    \* avctx->frame_size, the period of both PCMs
  BufferSize,   \* io->buffer_size
  SlaveSizes,   \* buffer sizes the slave may choose near to BufferSize
  Thresholds,   \* start thresholds the application may choose
  Envs,         \* the environments a behaviour may run in, see env
  MaxUnits,     \* bound: units the slave has and will have received when a
                \* transfer begins to wait, since it was last prepared
  MaxPrepares   \* bound: prepares

ASSUME A52Sizes ==
  /\ FrameSize \in Nat \ {0} /\ BufferSize \in Nat \ {0} /\ BufferSize % FrameSize = 0
  /\ SlaveSizes \subseteq Nat \ {0} /\ Thresholds \subseteq Nat \ {0}
  /\ Envs \subseteq [block : BOOLEAN, whole : BOOLEAN] /\ MaxUnits \in Nat /\ MaxPrepares \in Nat

VARIABLES
  io,        \* alsa-lib's side: PCM state, appl_ptr, hw_ptr, last_hw
  inbuf,     \* the units filled in
  outbuf,    \* the encoded frame, as its units
  remain,    \* units of it the slave has not taken
  slave,     \* the slave PCM: state, buffer size, start threshold, how many
             \* of the units it received it has played
  received,  \* the units it received since the last prepare
  call,      \* where the plugin is: pc, the label after write_out_pending, the
             \* units left of a transfer and its result, ofs, the units a
             \* blocking write has done, and the error returned
  padded,    \* the last frame was filled up with silence
  voided,    \* a prepare failed after it had thrown the buffers away
  drained,   \* a blocking drain returned success
  prepares,  \* prepares so far
  env        \* fixed: whether the slave was opened to block; whether the
             \* application transfers whole frames

vars == <<io, inbuf, outbuf, remain, slave, received, call, padded, voided, drained, prepares, env>>
encoder == <<inbuf, outbuf, remain>>
history == <<padded, voided, drained, prepares, env>>

NoCall == [pc |-> "idle", next |-> "idle", left |-> 0, result |-> 0, ofs |-> 0, done |-> 0,
           err |-> "none"]

Init ==
  /\ io = [state |-> "open", appl |-> 0, hw |-> 0, lastHw |-> 0]
  /\ inbuf = <<>> /\ outbuf = <<>> /\ remain = 0
  /\ slave = [state |-> "open", size |-> 0, threshold |-> 0, played |-> 0]
  /\ received = <<>> /\ call = NoCall
  /\ padded = FALSE /\ voided = FALSE /\ drained = FALSE /\ prepares = 0
  /\ env \in Envs

Idle == call.pc = "idle"
Lesser(a, b) == IF a < b THEN a ELSE b
filled == Len(inbuf)
Queued == Len(received) - slave.played
Room == slave.size - Queued

-----------------------------------------------------------------------------
(* a52_hw_params asks the slave for the sizes of the application's PCM, and*)
(* takes what it gets; a52_sw_params passes the threshold on.              *)
HwParams ==
  /\ Idle /\ io.state = "open"
  /\ io' = [io EXCEPT !.state = "setup"]
  /\ \E size \in SlaveSizes, threshold \in Thresholds :
       slave' = [slave EXCEPT !.state = "setup", !.size = size, !.threshold = threshold]
  /\ UNCHANGED <<encoder, received, call, history>>

(* alsa-lib resets its pointers, a52_prepare makes new buffers ...         *)
Prepare ==
  /\ Idle /\ io.state # "open" /\ prepares < MaxPrepares
  /\ slave.state \notin {"running", "draining"}
  /\ io' = [state |-> "prepared", appl |-> 0, hw |-> 0, lastHw |-> 0]
  /\ inbuf' = <<>> /\ outbuf' = <<>> /\ remain' = 0
  /\ slave' = [slave EXCEPT !.state = "prepared", !.played = 0]
  /\ received' = <<>> /\ padded' = FALSE /\ voided' = FALSE /\ drained' = FALSE
  /\ prepares' = prepares + 1
  /\ UNCHANGED <<call, env>>

(* ... and prepares the slave, which refuses (-EBUSY) while it runs.       *)
PrepareBusy ==
  /\ Idle /\ io.state # "open" /\ prepares < MaxPrepares
  /\ slave.state \in {"running", "draining"}
  /\ io' = [io EXCEPT !.appl = 0, !.hw = 0, !.lastHw = 0]
  /\ inbuf' = <<>> /\ outbuf' = <<>> /\ remain' = 0
  /\ voided' = TRUE
  /\ prepares' = prepares + 1
  /\ UNCHANGED <<slave, received, call, padded, drained, env>>

-----------------------------------------------------------------------------
(* a52_pointer; the delay of the slave is what it has queued.              *)
AllPlayed == io.appl % BufferSize                                  \* mutant
NonePlayed == 0

Behind(delay) ==
  LET d == io.appl - (IF delay >= slave.size THEN 0 ELSE delay)
      e == IF d < 0 THEN d + BufferSize ELSE d
  IN (IF e < 0 THEN 0 ELSE e) % BufferSize

Pointer == IF slave.state = "running" THEN Behind(Queued) ELSE NonePlayed

(* snd_pcm_ioplug_hw_ptr_update; the pointer is an error on an xrun.       *)
Updated ==
  IF slave.state = "xrun" THEN [io EXCEPT !.state = "xrun"]
  ELSE [io EXCEPT !.lastHw = Pointer,
                  !.hw = @ + (IF Pointer >= io.lastHw THEN Pointer - io.lastHw
                              ELSE BufferSize + Pointer - io.lastHw)]
Avail == Updated.hw + BufferSize - io.appl

HwPtrUpdate ==
  /\ Idle /\ io.state \in {"prepared", "running"}
  /\ io' = Updated
  /\ UNCHANGED <<encoder, slave, received, call, history>>

-----------------------------------------------------------------------------
(* write_out_pending, to go on at a label of its caller                    *)
Out(next, c) == [c EXCEPT !.pc = "pending", !.next = next, !.ofs = 0, !.done = 0,
                          !.err = "none"]
Return(err) == [call EXCEPT !.pc = call.next, !.ofs = 0, !.done = 0, !.err = err]

(* Where the rest of the frame is taken from after a partial write: the    *)
(* code adds what remains, not what was written.                           *)
NextOfs(err) == call.ofs + (remain - err)

(* Units of outbuf from there; outside it is whatever memory holds.        *)
From(ofs, n) == [i \in 1 .. n |-> IF ofs + i <= FrameSize THEN outbuf[ofs + i] ELSE -1]

Started(s, n) ==
  IF s.state = "prepared" /\ n >= s.threshold THEN [s EXCEPT !.state = "running"] ELSE s

(* snd_pcm_writei of the slave takes what there is room for ...            *)
Take(n) ==
  /\ received' = received \o From(call.ofs + call.done, n)
  /\ slave' = Started(slave, Queued + n)

(* ... and, if it does not block, returns that, or -EAGAIN.                *)
WritePart ==
  /\ call.pc = "pending" /\ ~env.block /\ slave.state # "xrun" /\ Room > 0
  /\ LET err == Lesser(Room, remain) IN
     /\ Take(err)
     /\ remain' = remain - err
     /\ call' = IF err < remain THEN [call EXCEPT !.ofs = NextOfs(err)] ELSE Return("none")
  /\ UNCHANGED <<io, inbuf, outbuf, history>>

WriteAgain ==
  /\ call.pc = "pending" /\ ~env.block /\ slave.state \notin {"prepared", "xrun"} /\ Room <= 0
  /\ call' = Return("again")
  /\ UNCHANGED <<io, encoder, slave, received, history>>

(* A blocking write goes on until the slave has taken everything.          *)
WriteBlocking ==
  /\ call.pc = "pending" /\ env.block /\ slave.state # "xrun" /\ Room > 0
  /\ LET n == Lesser(Room, remain - call.done) IN
     /\ Take(n)
     /\ IF call.done + n < remain
          THEN call' = [call EXCEPT !.done = @ + n] /\ UNCHANGED remain
          ELSE call' = Return("none") /\ remain' = 0
  /\ UNCHANGED <<io, inbuf, outbuf, history>>

(* A write that can go no further returns what it has done ...             *)
WriteEnds ==
  /\ call' = [call EXCEPT !.ofs = NextOfs(call.done), !.done = 0]
  /\ remain' = remain - call.done
  /\ UNCHANGED <<io, outbuf>>

(* ... and the next one -EPIPE on an xrun.                                 *)
WriteXrun ==
  /\ call.pc = "pending" /\ slave.state = "xrun"
  /\ IF call.done > 0 THEN WriteEnds
     ELSE /\ call' = Return("pipe")
          /\ io' = [io EXCEPT !.state = "xrun"] /\ UNCHANGED <<outbuf, remain>>
  /\ UNCHANGED <<inbuf, slave, received, history>>

(* snd_pcm_linear, the slave a52 puts in front of the device, waits for no *)
(* room before it has started: full, it takes nothing, blocking or not.    *)
(* write_out_pending moves the rest to the front and returns success.      *)
Fronted == [i \in 1 .. FrameSize |-> IF i <= remain THEN From(call.ofs, remain)[i] ELSE outbuf[i]]
WriteNothing ==
  /\ call.pc = "pending" /\ slave.state = "prepared" /\ Room <= 0
  /\ IF call.done > 0 THEN WriteEnds
     ELSE /\ call' = Return("none")
          /\ outbuf' = IF call.ofs > 0 THEN Fronted ELSE outbuf
          /\ UNCHANGED <<io, remain>>
  /\ UNCHANGED <<inbuf, slave, received, history>>

-----------------------------------------------------------------------------
(* convert_data                                                            *)
Unreset(units) == outbuf' = units /\ remain' = FrameSize /\ inbuf' = units     \* mutant
Convert(units) == outbuf' = units /\ remain' = FrameSize /\ inbuf' = <<>>

(* a52_transfer, called by snd_pcm_writei with the room alsa-lib computes  *)
Transfer ==
  /\ Idle /\ io.state \in {"prepared", "running"}
  /\ io' = Updated
  /\ IF Updated.state = "xrun" THEN UNCHANGED call
     ELSE \E n \in 1 .. Avail :
            /\ Len(received) + remain + filled + n <= MaxUnits /\ (env.whole => n % FrameSize = 0)
            /\ call' = [NoCall EXCEPT !.pc = IF remain > 0 THEN "pending" ELSE "fill",
                                      !.next = "fill", !.left = n]
  /\ UNCHANGED <<encoder, slave, received, history>>

PendingIgnored == FALSE                                            \* mutant
PendingFailed == call.err # "none"

(* snd_pcm_start is called once the application has written the threshold; *)
(* a52_start ignores that the slave cannot start with nothing in it.       *)
SlaveStart(s) ==
  IF s.state = "prepared" /\ Queued > 0 THEN [s EXCEPT !.state = "running"] ELSE s

Ends(result) ==
  /\ call' = NoCall
  /\ LET starts == io.state = "prepared" /\ io.appl - io.hw + result >= slave.threshold
     IN /\ io' = [io EXCEPT !.appl = @ + result, !.state = IF starts THEN "running" ELSE @]
        /\ slave' = IF starts THEN SlaveStart(slave) ELSE slave

(* The units copied come from offset, which a52_transfer moves on.         *)
Source(i) == io.appl + call.result + i

(* fill_data copies no more than what is missing of a frame.               *)
Fill ==
  /\ call.pc = "fill"
  /\ IF PendingFailed THEN Ends(call.result) /\ UNCHANGED encoder
     ELSE LET size == Lesser(call.left, FrameSize - filled)
              units == inbuf \o [i \in 1 .. size |-> Source(i)]
              rest == [call EXCEPT !.left = @ - size, !.result = @ + size]
          IN /\ IF Len(units) = FrameSize
                  THEN Convert(units) /\ call' = Out("filled", rest)
                  ELSE /\ inbuf' = units /\ call' = [rest EXCEPT !.pc = "filled"]
                       /\ UNCHANGED <<outbuf, remain>>
             /\ UNCHANGED <<io, slave>>
  /\ UNCHANGED <<received, history>>

(* The result of writing the new frame is ignored; the loop of             *)
(* a52_transfer comes to what is still pending before it fills more.       *)
Filled ==
  /\ call.pc = "filled"
  /\ IF call.left = 0 THEN Ends(call.result)
     ELSE call' = [call EXCEPT !.pc = IF remain > 0 THEN "pending" ELSE "fill",
                               !.next = "fill", !.ofs = 0, !.done = 0, !.err = "none"]
          /\ UNCHANGED <<io, slave>>
  /\ UNCHANGED <<encoder, received, history>>

-----------------------------------------------------------------------------
(* An application that starts the PCM itself has written a frame, or has a *)
(* threshold a frame reaches: nothing else would start the slave.          *)
Start ==
  /\ Idle /\ io.state = "prepared"
  /\ Queued > 0 \/ slave.threshold <= FrameSize
  /\ io' = [io EXCEPT !.state = "running"]
  /\ slave' = SlaveStart(slave)
  /\ UNCHANGED <<encoder, received, call, history>>

WithoutRest == "last"                                              \* mutant
ToDrain == IF filled > 0 THEN "convert" ELSE "last"

(* a52_drain                                                               *)
Drain ==
  /\ Idle /\ io.state \in {"prepared", "running", "xrun"}
  /\ LET next == ToDrain
     IN call' = [NoCall EXCEPT !.pc = IF remain > 0 THEN "pending" ELSE next, !.next = next]
  /\ UNCHANGED <<io, encoder, slave, received, history>>

(* What is in inbuf is filled up with silence and encoded ...              *)
DrainConvert ==
  /\ call.pc = "convert"
  /\ IF PendingFailed
       THEN call' = [call EXCEPT !.pc = "stop"] /\ UNCHANGED <<encoder, padded>>
       ELSE /\ Convert(inbuf \o [i \in 1 .. FrameSize - filled |-> 0])
            /\ padded' = TRUE
            /\ call' = Out("last", call)
  /\ UNCHANGED <<io, slave, received, voided, drained, prepares, env>>

(* ... then the slave drains, starting first if it has not.                *)
DrainSlave ==
  /\ call.pc = "last"
  /\ call' = [call EXCEPT !.pc = IF PendingFailed THEN "stop" ELSE "drain"]
  /\ slave' = IF PendingFailed \/ slave.state = "xrun" THEN slave
              ELSE [slave EXCEPT !.state = IF Queued > 0 THEN "draining" ELSE "setup"]
  /\ UNCHANGED <<io, encoder, received, history>>

(* snd_pcm_drain of the slave returns when it has played, or at once if it *)
(* does not block; alsa-lib stops the PCM next.                            *)
DrainReturns ==
  /\ call.pc = "drain" /\ (env.block => slave.state # "draining")
  /\ call' = [call EXCEPT !.pc = "stop"]
  /\ drained' = env.block
  /\ UNCHANGED <<io, encoder, slave, received, padded, voided, prepares, env>>

(* a52_stop drops the slave: from snd_pcm_drop and the end of              *)
(* snd_pcm_drain.                                                          *)
Stop ==
  /\ \/ Idle /\ io.state \in {"prepared", "running", "xrun"}
     \/ call.pc = "stop"
  /\ io' = [io EXCEPT !.state = "setup"]
  /\ slave' = [slave EXCEPT !.state = "setup"]
  /\ call' = NoCall
  /\ UNCHANGED <<encoder, received, history>>

-----------------------------------------------------------------------------
(* The slave plays; it is in xrun when it has nothing left, unless it was  *)
(* told to drain.                                                          *)
Play ==
  /\ slave.state \in {"running", "draining"}
  /\ \E n \in 1 .. Queued :
       slave' = [slave EXCEPT !.played = @ + n,
                              !.state = IF n < Queued THEN @
                                        ELSE IF @ = "running" THEN "xrun" ELSE "setup"]
  /\ UNCHANGED <<io, encoder, received, call, history>>

Steps ==
  \/ WritePart \/ WriteAgain \/ WriteBlocking \/ WriteXrun \/ WriteNothing \/ Fill
  \/ Filled \/ DrainConvert \/ DrainSlave \/ DrainReturns

Next ==
  \/ HwParams \/ Prepare \/ PrepareBusy \/ HwPtrUpdate \/ Transfer \/ Start \/ Drain \/ Stop
  \/ Steps \/ Play

Spec == Init /\ [][Next]_vars

(* A call of the application runs on when it can, and a running slave plays*)
FairSpec == Spec /\ WF_vars(Steps) /\ WF_vars(Play) /\ WF_vars(call.pc = "stop" /\ Stop)

-----------------------------------------------------------------------------
Accepted == io.appl + call.result
InOrder ==
  \A i \in 1 .. Len(received) : received[i] = IF i <= Accepted THEN i ELSE 0

(* The slave has started before its buffer is full: it holds all alsa-lib  *)
(* lets the application write before, or its threshold lies within it.     *)
(* Otherwise write_out_pending returns 0 with a frame pending, which       *)
(* fill_data and a52_drain take for success and encode over.               *)
StartsInTime == slave.size >= BufferSize \/ slave.threshold <= slave.size

(* No frame is overwritten before the slave took it, and none is sent for  *)
(* longer than it is: the slave has received as many units as went in, less*)
(* those in the two buffers, even when the result of fill_data's second    *)
(* write is ignored.                                                       *)
Conserved ==
  LET padding == IF padded THEN (-Accepted) % FrameSize ELSE 0
  IN Len(received) + (remain - call.done) + filled = Accepted + padding

(* The slave receives the units the application transferred, each once,    *)
(* then the silence the last frame is filled up with, across transfers cut *)
(* anywhere, write_out_pending and a52_drain; and a slave that blocks      *)
(* receives them in order.  It has to start in time, and a prepare that it *)
(* refuses (pcm_a52.c:470) has thrown units away.                          *)
SentInOrder == StartsInTime /\ ~voided => Conserved /\ (env.block => InOrder)

(* "Write pending encoded data to the slave pcm" (pcm_a52.c:75): what the  *)
(* slave is sent is what it has not taken, in order, in either mode.       *)
WritesPending == ~voided => InOrder

(* a52_pointer never makes alsa-lib see more room than the slave has, when *)
(* their buffers have the same size and the application writes periods: as *)
(* it counts what is in inbuf as played, a frame that is completed later   *)
(* would move it back.  Before the slave starts as well as while it plays. *)
RoomReal ==
  Idle /\ env.block /\ env.whole /\ slave.size = BufferSize /\ ~voided
       /\ io.state \in {"prepared", "running"} /\ slave.state \in {"prepared", "running"}
    => Avail <= Room

(* A blocking a52_drain that succeeds has played everything the application*)
(* wrote, the part of a frame in inbuf and a stream too short to have      *)
(* started included, on a slave that starts in time.                       *)
DrainedAll ==
  drained /\ Idle /\ StartsInTime /\ ~voided =>
    Accepted <= slave.played /\ slave.played = Len(received)

(* The same of every slave: "remaining data must be converted and sent out"*)
(* (pcm_a52.c:108).                                                        *)
DrainSendsAll == drained /\ Idle /\ ~voided => Accepted <= slave.played

(* Every transfer and every drain returns, whatever the slave's buffer and *)
(* threshold: a write never waits on a slave that nobody starts.           *)
CallsReturn == (call.pc # "idle") ~> (call.pc = "idle")
=============================================================================
