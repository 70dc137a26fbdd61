# alsa-plugins-rsound in TLA+

Formal models of the ALSA plugins of this repository: TLA+ modules, TLC
configurations that check them on small instances, and TLAPS proofs of what
matters most for every instance. Paths are relative to the repository.

## 1. The system

Every plugin is a shared object that alsa-lib loads into the application. PCM
plugins implement the callbacks of `snd_pcm_ioplug` (a sound device made of
software) or `snd_pcm_extplug` (a filter in front of another PCM), mixer plugins
those of `snd_ctl_ext`. Plugins share no code or state with one another; what
makes them hard is what each of them talks to. alsa-lib calls the callbacks of
one handle one at a time, in the thread of the application, and keeps the ring
buffer pointers (`appl_ptr`, `hw_ptr`), which the plugin must make sense of with
the number its `pointer` callback returns.

| component | source | state it keeps | operations | talks to | what is hard |
|---|---|---|---|---|---|
| RoarAudio playback | `roar/` | a FIFO and its fill, `thread_active`, counters for the delay | hw_params, prepare, start, stop, pointer, transfer, delay, close | a background thread that drains the FIFO into libroar | condition variable, stores without the lock, a thread that gives up by itself |
| PulseAudio connection | `pulse/pulse.c` | context, mainloop, poll pipe | connect, wait for an operation, poll | the mainloop's thread of libpulse | waits without a timeout, a pipe two threads fill and drain |
| PulseAudio PCM | `pulse/pcm_pulse.c` | stream, `ptr`, `last_size`, `offset`, `underrun` | all ioplug callbacks, both directions | the server, through libpulse's callbacks | imitating a ring buffer over a stream, failures at any point |
| PulseAudio mixer | `pulse/ctl_pulse.c` | a copy of volume and mute of a sink and a source, the set of changes to report | elem_list, get_attribute, read/write integer, subscribe, read_event | the server, whose answers and events come in between | stale answers, a write that stores before asking |
| Arcam server | `arcam-av/arcam_av.c` | who has the abstract socket, connections, a thread per handle | start, stop, the master's and the slaves' loops | other processes with the same mixer open | election by bind, one-byte events and stop messages in one stream, crashes |
| Arcam parser | `arcam-av/arcam_av.c` (`arcam_av_receive`) | position in the frame, fields read | one call per readiness of the port | the amplifier | input cut anywhere, noise |
| Arcam controls | `arcam-av/ctl_arcam_av.c` | shared memory state, a copy of it per handle | read, write, read_event | amplifier, front panel, other handles | writes judged by a state that is about to change |
| usb_stream PCM | `usb_stream/` | registry of shared mappings, period counters | open, prepare, start, stop, pointer, transfer, close | the driver and the card's other PCM | memory unmapped and mapped again under a second user, unsigned counters |
| Maemo DSP protocol, PCM, mixer | `maemo/` | state of a DSP task, its device node and semaphore | open, prepare, start, transfer, pause, stop, close; probe, read, write | tasks on a DSP, through a mailbox all openers of a node read | mutual exclusion of processes, answers meant for others, crashes |
| JACK PCM | `jack/` | `hw_ptr`, `activated`, the ring buffer alsa-lib maps, poll socket | prepare, start, stop, pointer, poll_revents, process callback | JACK's real-time thread | state shared without a lock, a start that fails half way, blocking reads and writes |
| A/52 encoder | `a52/` | frame being filled, encoded frame, what of it is pending | hw_params, prepare, start, stop, transfer, pointer, drain | libavcodec, a slave PCM | partial writes, errors between two buffers, a pointer computed from the slave's delay |
| Upmix, Speex, Downmix | `mix/`, `speex/` | a ring or a frame of samples of earlier transfers | init, transfer | – | delays kept however the stream is cut |
| rsound, OSS PCM and mixer | `rsound/`, `oss/` | next to none | one library call or ioctl each | librsound, OSS | – |
| configuration hook, rate converters, Speex resampler | `pulse/conf_pulse.c`, `rate/`, `rate-lavc/`, `pph/` | next to none, or vendored | – | libraries | – |

What makes each correct:

- **RoarAudio**: the listener gets what was written, once, in order; the FIFO
  stays in its buffer; no two threads work on it without the lock; transfers
  return; the FIFO is drained; the delay is near the truth.
- **PulseAudio PCM**: calls return whatever the server does; a poller is woken;
  what alsa-lib believes to be available is; captured data arrives in order.
- **PulseAudio mixer**: what is read is current; every change by others is
  reported; nobody sleeps on an operation that has ended.
- **Arcam**: one master at a time, and one again after any crash; close returns;
  nobody's thread is stopped for another; complete frames are understood; the
  shared state follows the amplifier; every handle hears of every change; the
  last write wins.
- **usb_stream**: memory in use is the driver's present memory; the pointer and
  the overruns agree with the driver's counter.
- **Maemo**: a device is used by one client at a time; a task has one owner; an
  answer goes to the one who asked; the recorded state is the task's.
- **JACK**: the ring buffer is a pipe between the application and JACK; the pointer
  is real whenever it is asked for; stopping undoes whatever starting did; a poll
  is woken.
- **A/52**: the slave receives every unit once and in order; alsa-lib is told of no
  room that is not there; a drain plays the last part of a frame; calls return.
- **Upmix, Speex, Downmix**: the output is the input, late by a fixed number of
  frames, or silence.

`PROJECT.json` lists the hazards of the code line by line, with the properties
that cover each.

## 2. Modules

| module | models | extended or used by |
|---|---|---|
| `AudioPipe` | what a plugin with a FIFO or a ring buffer promises (abstract) | refined by `RoarStream` and `JackPcm` |
| `RoarStream` | `roar/pcm_roar.c`, `roar/thread.c` | `MCRoarStream`, `RoarStreamProofs` |
| `PulsePcm` | `pulse/pcm_pulse.c` over `pulse/pulse.c` | `MCPulsePcm`, `PulsePcmProofs` |
| `PulseCtl` | `pulse/ctl_pulse.c` over `pulse/pulse.c` | `MCPulseCtl`, `PulseCtlProofs` |
| `ArcamHandles` | the constant `Handle`, which the next two share | `ArcamServer`, `ArcamCtl` |
| `ArcamServer` | threads and sockets of `arcam_av.c`, start and stop of handles | `MCArcamServer`, `ArcamProofs` |
| `ArcamCtl` | `ctl_arcam_av.c` and `arcam_av_update` | `MCArcamCtl`, `ArcamProofs` |
| `ArcamParser` | `arcam_av_receive` | `MCArcamParser`, `ArcamProofs` |
| `UsbStream` | `pcm_usb_stream.c` | `MCUsbStream`, `UsbAndDelayProofs` |
| `DspProtocol` | `dsp-protocol.c` as `alsa-dsp.c` and `dsp-ctl.c` use it | `MCDspProtocol`, `DspProtocolProofs` |
| `JackPcm` | `jack/pcm_jack.c` | `MCJackPcm`, `JackPcmProofs` |
| `A52Pcm` | `a52/pcm_a52.c` | `MCA52Pcm`, `A52PcmProofs` |
| `DelayLine` | what a delay promises (abstract) | refined by `DelayLines` |
| `DelayLines` | `mix/pcm_upmix.c`, `mix/pcm_vdownmix.c`, `speex/pcm_speex.c` | `MCDelayLines`, `UsbAndDelayProofs` |

`MC*` modules hold the values of constants for TLC. In each component module,
definitions marked *mutant* are plausible bugs of the code that some property
must catch; no specification uses them. A module of proofs that is about several
components extends all of them, which is why their specifications have names of their
own (`CtlSpec`, `ParserSpec`, `LineSpec`).

### RoarStream and AudioPipe

`self` is `struct roar_alsa_pcm`; `buffer`, `lock` and `asleep` (the condition
variable's sleepers) are what the two kinds of threads share; `io` is alsa-lib's
side; `call` is the program counter of the application's thread and `thr` those of
the background threads. A step is one access to shared memory or one section under
the lock, so that every store of `roar_reset` and `roar_pcm_start`, which take no
lock, can be overtaken. `bufptr` is a `size_t`: it wraps at `SizeMod`. A unit is a
byte with a number. `pthread_cond_wait` may return for no reason (`Spurious`).
The environment `env` is fixed per behaviour and says what may happen: the caller
respects the available room (`gate`) as alsa-lib does, or not; `roar_vio_write` and
opening a stream fail; `pthread_create` fails; `hw_params` comes without a stop before
it (`rehw`). It also has the bytes of a frame: the server takes any number of bytes, and
what `roar_pcm_pointer` counts are whole frames (`Frames`, the quotient C computes).

`roar_pcm_hw_params` replaces the buffer and empties the FIFO in two stores without the
lock, in whatever state the stream is. A caller that stops the stream first finds no thread
there (`~rehw`); any other takes the FIFO from under it. The new buffer is as long as the old one in the model, and the call does not fail: a
format that is refused, or memory that is not there, is left out.

`AudioPipe` is the promise: the units arrive each once and in order and at most
`Cap` wait. `RoarStream` implements it with `submitted <- entered, received <-
server` (`ImplementsPipe`): proved for streams whose writes do not fail and for a
stream that is started once and fails. A stream started again after a failure has two
threads on one FIFO and breaks the promise, and so does one whose FIFO `hw_params`
empties: of that nothing is shown (`Shown`).

*Fairness*: the application's thread finishes the calls it is in, and each
background thread runs. Nothing wakes a sleeper but a signal: spurious wakeups may
not be relied upon, and nobody is obliged to call the plugin.

### PulsePcm

Both threads hold the mainloop lock except while they wait, so a step is what
happens between two waits. `pcm` is the plugin's structure, `io` alsa-lib's
pointers as `snd_pcm_ioplug` computes them, `stream`, `ctx` and `ops` the objects
of libpulse, `room` and `queue` the server's side in each direction, `poll` the
pipe. Server steps: answers, requests for data, fragments, underruns, failures of
the stream or the connection at any time.

*Fairness*: the application's thread ends its calls, the server answers what it
was asked and keeps sending its latency (the plugin asks for automatic timing
updates); the code has no timeout, so a silent server blocks it by design.

### PulseCtl

From the moment the connection stands (its making is in `PulsePcm`). `ctl` is the
plugin's structure (copy, elements to report, subscribed), `toServer` and
`toClient` the requests and answers under way, each marked with whether a call
waits for it: requests made from the event callback are not waited for. `server`
holds the values in force, `view` what the application last read or wrote, and
`during` the values an element had while a read was under way. The server may
merge several changes into one event, and answer a request for information with an
error: libpulse then makes only the last call of the callback, the plugin takes it for
the end of a success, and `unheard` notes for the properties which elements the error
was about. No fairness: `Waits` is the safety form of
"no one sleeps for ever".

### ArcamServer, ArcamParser, ArcamCtl

`ArcamServer` has a thread and an application per handle. `owner`, `listening` and
`backlog` are the abstract socket; `conn` and `down` the connections (slave, client
and stop) and the bytes on their way to the client; a `pthread_t` is two bytes, so
that `recv` can cut it and an event, a NUL byte, can shift it or stand for one of them.
`id` says what the threads' are, which is one of `Ids` for the whole behaviour: a
`pthread_t` is unique in its process only, and the processes compare theirs with one
another's. `env` picks up to `MaxFaults` kinds of disturbance: crashes, a state segment that cannot be attached, reported changes,
more than one close, superfluous read_event calls. *Fairness*: every thread runs;
accepting and reading each descriptor are fair one by one, because a pass of the
select loop serves every descriptor that is ready.

`ArcamParser` examines one byte per step over all cuts of the input into reads.
*Fairness* on the only step there is: the parser's caller is woken while there is
input.

`ArcamCtl` has the amplifier with its two serial queues, the shared state, and each
handle's copy; `read_event` compares and takes a byte in two steps. Four of the nine
fields stand for all: volume, mute, and two that are listed in a different order in
the state and in the table of names. `excused` holds the handles that missed a
change in one of three known ways (next section); `disturbances` says whether the
amplifier may refuse, writes overlap, and the panel change settings. *Fairness*: the
amplifier answers, the master serves its port, the handles poll.

### UsbStream

All PCMs of a process on one card share an entry of the registry. A prepare is
three steps (the driver's ioctl, unmapping, mapping), which another thread may
separate when `"threads" \in env`. Counters are in periods and wrap at `Modulus`;
`rest` is what the application has committed of one more period, and with `"sizes" \in
env` it commits what it likes and starts when it likes; `real` counts what the driver
did since the start. No fairness, no liveness.

### DspProtocol

Handles in processes of their own. `sem` is the System V semaphore of a node,
`inbox`/`outbox` the mailbox, `task` the state on the DSP, `st` the client's record
of it. Each callback is the sequence of protocol functions it calls (`rest`), each
function the steps: look up or create the semaphore, lock, flush, write a command,
read the answer, unlock. A task may refuse a command, INIT as well, which
`dsp_protocol_open_node` does not notice. PLAY leaves messages in the mailbox that are no
answers: behind its own (`Trails`), which the flush of `dsp_protocol_send_play` takes out,
or after it (`TrailsLate`). `loose` marks nodes whose semaphore was raised by someone who
did not hold it; `InStep(n)` says that this did not happen to `n` and that no message was
late. After a late one no new call begins, which is a bound.

### JackPcm

Two threads: `app` is the program counter of the application's, `rt` that of JACK's.
`hw_ptr`, `activated` and the mmap area (`ring`, the number of the unit in each
place) are the plugin's, `io` is alsa-lib's side with its own pointers, `sock` the
bytes in the socket pair, which holds `SockCap`. A step of the real-time thread is
an access to what the application also uses: the state is read, a piece is copied,
`hw_ptr += frames` and `%=` are stored apart (or, as a compiler may, at once), the
byte is written. `snd_pcm_jack_start` activates, then connects channel after
channel and may fail at any of them; `jack_deactivate` waits for the cycle under way.
The application reads and writes pieces of any size, but only the room alsa-lib
derives from the pointer.

`pipe` follows the units for `AudioPipe` (`submitted <- pipe.in, received <-
pipe.out`). When one side has overtaken the other (the application did not keep up,
which in this code nothing detects) the promise is void, and `pipe.lost` says so until
the next prepare.

*Fairness*: JACK keeps calling an active client (the real-time thread runs when it
can), and a read the socket can serve returns.

### A52Pcm

One thread and the slave. `inbuf`, `outbuf` and `remain` are the plugin's buffers, as
the numbers of the units in them; `call` says where a transfer or drain stands between
two operations on the slave, with `ofs` of `write_out_pending`; `slave` is the slave
PCM with the buffer size it chose and the threshold `a52_sw_params` gave it. The
slave plays at any moment (`Play`), also between two steps of a call, and is in xrun
when it runs dry. `snd_pcm_linear`, which `SND_PCM_PLUGIN_DEFINE_FUNC(a52)` puts in front
of the device unless the configuration names a slave, does not wait for room before it
has started: a write to it takes nothing then, which `write_out_pending` takes for the
end of its work (`WriteNothing`). A slave named in the configuration may wait instead;
that one is not modelled. A prepare meets a slave that runs (`PrepareBusy`): the buffers
are gone, the slave refuses and goes on, and `voided` says so until a prepare succeeds.
`env` says whether the slave was opened to block and whether the application writes
whole periods.

*Fairness*: a call that can go on goes on, and a running slave plays.

### DelayLines and DelayLine

A behaviour follows one plugin and, of its output, one channel (upmix), the tap of a
filter (vdownmix) or the samples (speex). `line`, `curpos`, `processed` and `outbuf` are
the plugin's; frames have numbers, silence is 0, and `first` keeps the numbers of
an earlier stream apart. The routes of upmix are tables, one per function of
`do_upmix`. `DelayLine` is the promise: the i-th frame out is the (i - delay)-th in, or
silence. `ImplementsDelayLine` is the refinement with `delay <- Delay`, what the
documents say the delay is.

## 3. What the runs check

Bounds are the constants of the `.cfg` named after the run; all runs use
two workers.

| run | bounds | shows |
|---|---|---|
| `roar_stream` | buffer 3, chunk 2, 4 units per stream, 2 threads, `size_t` of 8 values; frames of 3 with 6 units; `hw_params` at any time with 2 | `TypeOK`, `BufferBounded`, `NoThreadAtReset`, `ActiveHasThread`, `ReportedIsQueued`, `DelayOffByAChunk`, `WriteReturns`, `ImplementsPipe` |
| `roar_wakeup` | the same, one stream | finding: `ChunkDrained` fails |
| `pulse_pcm` | buffer 3, period 2, 5 units, 2 streams | `PollReady`, `FirstAvailReal`, `ReadInOrder`, `PreparedHasStream`, `CallsReturn` |
| `pulse_ctl` | volumes 1–2, two of four elements, 1 foreign change, 1 write, 2 failures (refused writes, errors in answer) | `Noticed`, `ReadFresh`, `Waits` |
| `arcam_server` | 2 handles, 3 opens, ids distinct, equal or mixed with an event, any 2 kinds of disturbance | `PostWhileWaited`, `SomeMaster`, `StoppedOnRequest`, `CallsReturn` |
| `arcam_parser` | up to 3 items: frames, error answers, noise, cut frames | `ParserTypeOK`, `AllDelivered` |
| `arcam_ctl` | 2 handles, 2 writes, 1 change at the panel | `SharedSettles`, `LastWriteWins`, `UnmuteAtLastVolume`, `Noticed` |
| `usb_stream` | a playback and a capture PCM, periods of 2 frames, counter of 4 values, 3 periods per run | `MappedWhenUsed`, `PointerReal` |
| `dsp_protocol` | 2 PCMs and a mixer, 2 of them at a time, 2 nodes, 1 kind of fault | `OneOwner`, `OwnReply`, `Waits` |
| `jack_pcm` | buffer 4, cycles of 3 frames, 2 channels, a socket of 2 bytes, 7 units, 2 prepares, both directions | `ImplementsPipe`, `PointerReal`, `StoppedIsInactive`, `PollWakes` |
| `a52_pcm` | frames of 3, buffer 6, a slave of 4, 6 or 8, thresholds 1, 6 and 20, 9 units to the slave, 2 prepares | `SentInOrder`, `RoomReal`, `DrainedAll`, `CallsReturn` |
| `delay_lines` | lines of 0 to 4 frames, 9 frames, every row of `do_upmix` | `ImplementsDelayLine` |

Each property is stated in words above its definition. `TypeOK` and `ParserTypeOK` are
checked in the runs of `RoarStream` and `ArcamParser`; the proofs of the other modules
have types of their own in the inductive invariant, which a run need not repeat.

More configurations are run by hand; each shows a finding below, or a case a property
leaves out, with the `MC` module of its component: `PulseRing.cfg` (`MCPulsePcm`),
`PulseCtlErrors.cfg` (`MCPulseCtl`), `ArcamEvents.cfg` (`MCArcamCtl`), `ArcamIds.cfg`
(`MCArcamServer`, with `NulIds` or `SameIds`), `UsbCommits.cfg` (`MCUsbStream`),
`DspLock.cfg`, `DspLate.cfg` and `DspInit.cfg` (`MCDspProtocol`),
`A52ShortWrite.cfg` and `A52SmallSlave.cfg` (`MCA52Pcm`), `RoarThreads.cfg`,
`RoarHwParams.cfg` and `RoarFrames.cfg` (`MCRoarStream`).

**Why the bounds are enough.** *RoarAudio*: the buffer is no multiple of the chunk,
so a rest stays behind; `size_t` is just wide enough for the code's sums and wraps
when a failure, or `hw_params` under a thread, makes `bufptr` negative; two threads are
the fewest with which a restart can meet a predecessor; a frame of three, which is not a
whole number of chunks, is taken in parts. *PulseAudio PCM*: the period does not divide the
buffer, and the units let the pointer wrap. *PulseAudio mixer*: a foreign change and
a write are enough for an answer that comes behind what it knows nothing of, and two
failures for a call that is answered with nothing but errors; also run by hand with two
writes and one failure (16.8 million states).
*Arcam*: with two handles each is once the master and once a slave, three opens let a
successor appear; ids that clash count as a kind of disturbance. *usb_stream*: the counter wraps within a run. *Maemo*: three
clients, so that the third finds what the first two left; one node at a time has
clients in calls, since nodes share nothing but the state of handles; one
semaphore may become loose before calls stop, and one message may be late; one kind of
fault is met at a time; a crash is considered where it matters,
while a client holds or creates a semaphore, and nobody opens a device afterwards.
*JACK*: a cycle does not divide the buffer, so that it goes round the end of the ring
in two pieces; the socket is full after two cycles nobody polls for; the second
prepare meets the rest of a first stream. *A/52*: the slave's buffer is shorter than
the application's, the same or longer, and does not hold whole frames; the thresholds
are below a frame, a buffer, and more than will ever be written, so that the short slave
may be full before it starts; nine units are three frames, and the slave has room for
the third only after playing. *Delay lines*: transfers are shorter, as long, and
longer than the line, several times round it, with a second stream behind.

**What properties leave out, and why.** Where the code does not keep a promise in
some circumstances, the property names them instead of the model omitting them:

- RoarStream: `NoThreadAtReset` and `ReportedIsQueued` are for streams whose writes
  to libroar do not fail: after a failed write the thread runs `roar_reset` beside
  the application. `BufferBounded`, `DelayOffByAChunk` and `ImplementsPipe` survive that
  in a stream that is started once, and are checked and proved there; with a stream
  started again after a failure (`vioFails` and two threads) TLC finds them violated,
  because the old and the new thread drain one FIFO.
  `ActiveHasThread` leaves out a failed `pthread_create`, whose positive result
  `roar_pcm_start` does not recognise, and, where writes fail, a third thread (finding 6).
  `BufferBounded`, `DelayOffByAChunk`, `ImplementsPipe` and `WriteReturns` are for callers
  that stop a stream before `hw_params`; of others `BufferAlwaysBounded` is false, with
  `RoarHwParams.cfg` (finding 12). `WriteReturns` is for frames of one byte: `FramesReturn`
  is false of longer ones, with `RoarFrames.cfg` (finding 13). The other properties, the
  pipe among them, are for frames of any length, and `NoThreadAtReset`,
  `ActiveHasThread` and `ReportedIsQueued` for `hw_params` at any time.
- PulsePcm: `FirstAvailReal` is for the first stream (finding 2) that is not paused
  (`pulse_pointer` returns 0 then). `PreparedHasStream` leaves out a connection libpulse refuses:
  `pulse_prepare` returns 0.
- PulseCtl: `Noticed` is for behaviours without a refused write, since the copy
  keeps the refused value and no event corrects it. It and `ReadFresh` leave out an
  element whose last answer was an error, until the next answer about it that has values:
  `ReadFreshAlways` with `PulseCtlErrors.cfg` (finding 8).
- ArcamServer: `StoppedOnRequest` is for threads whose ids are distinct (`Distinct`), and
  none of which is the end of an event or a message with the beginning of the next
  (`Unambiguous`); nothing in the code sees to either (finding 11). The part of
  `CallsReturn` on closing is for distinct ids and a single close in quiet surroundings.
  A master that ends first, a slave between connections, or an event in front of the
  message lose the `pthread_t`, and `pthread_join` waits for ever.
- ArcamCtl: `LastWriteWins` and `UnmuteAtLastVolume` are for writes that wait for
  earlier answers; a write is otherwise compared with a state about to change.
  `Noticed` excuses a byte taken after the comparison, a refused command, and a
  volume noted on a muted amplifier by another handle.
- UsbStream: `MappedWhenUsed` is for a successful mmap and prepares that do not
  overlap other calls; `PointerReal` for a PCM whose stream nobody replaced and whose
  application commits period by period and starts with both filled. `snd_pcm_us_write`
  counts a period for every commit, of whatever size (`usb_stream/pcm_usb_stream.c:296`,
  the read side refuses other sizes at 334), so that otherwise a stream with data in it
  is called an overrun: `PointerRealAnySize` with `UsbCommits.cfg`.
- DspProtocol: all are for nodes whose semaphore is sound (finding 4) and until a message
  of PLAY comes behind its flush, which does not wait for one: `OwnReplyAlways` with
  `DspLate.cfg` (finding 9). `OneOwner` leaves out what follows a refused INIT:
  `StateAgreesAlways` with `DspInit.cfg` (finding 10). `Waits` excuses waits for a
  semaphore after a crash (no `SEM_UNDO`): the semaphore stays 0 for ever.
- JackPcm: a prepare between the two halves of `hw_ptr += frames`, or a reader or
  writer that does not keep up, puts the two threads out of step until the next
  prepare; the pipe and the pointer are stated until then. `PollWakes` is for a
  running stream: `poll_revents` reads a byte whether there is one or not, so that a
  poll with a timeout on a stream that does not run blocks. A full socket blocks
  JACK's thread until somebody polls.
- A52Pcm: `SentInOrder` and `DrainedAll` are for a slave that starts before its buffer is
  full (`StartsInTime`): one whose buffer is as large as the application's, or whose
  start threshold lies within it. Another takes nothing while it is prepared and full,
  `write_out_pending` returns 0 with a frame pending, and `fill_data` and `a52_drain`
  encode over it: `DrainSendsAll` with `A52SmallSlave.cfg` (finding 7). Nor do they, or
  `RoomReal`, speak of the time between a prepare the running slave refuses
  (`a52/pcm_a52.c:470`), with the buffers thrown away, and the next that succeeds.
  `CallsReturn` is for every slave.
  The order of what is sent is for a slave that blocks (finding 5); that each
  unit is sent once is for both. `RoomReal` is for writes of whole periods and a slave
  with a buffer of the same size: units in `inbuf` count as played, so that
  completing a frame moves the pointer back, which alsa-lib takes for a whole
  round. `DrainedAll` is for a slave that blocks. `a52_start` ignores that a
  slave with nothing in it cannot start, and the model starts one by hand only
  with something in it or a threshold that a frame reaches.
- DelayLines: the rows of `do_upmix` that write six channels to a slave of eight are
  left out of the values of `Plugins`; the other two channels get no data.

### Findings

1. `roar_wakeup`: `roar_thread` tests the FIFO under `lock`, then takes `cond_lock`
   and sleeps without testing again (`roar/thread.c:145`). A signal `roar_write`
   sends in between is lost; a full chunk stays in the FIFO until the application
   happens to call again, although `roar/thread.c:82` promises to drain at all
   times.
2. `AvailIsReal` with `PulseRing.cfg`: `pulse_prepare` (`pulse/pcm_pulse.c:730`) resets
   `offset` and `underrun` but neither `ptr` nor `last_size`; after a second prepare
   alsa-lib takes more room to be free than the server asked for.
3. `EventNamesChanged` with `ArcamEvents.cfg`: `read_event`
   (`arcam-av/ctl_arcam_av.c:826`) finds the name of a changed field in a table of a
   different order: the stereo effect and the multi-channel decoder are reported as
   each other.
4. `Exclusive` with `DspLock.cfg`: `dsp_protocol_close_node`
   (`maemo/dsp-protocol.c:598`) releases a semaphore it does not hold when the node was
   never initialised, which is what opening does with a node that is busy; two
   clients can then hold it at once.
5. `WritesPending` with `A52ShortWrite.cfg`: after a partial write `write_out_pending`
   (`a52/pcm_a52.c:92`) advances by what is left, not by what was written. A slave
   that does not block receives frames from the wrong place.
6. `ActiveAlwaysHasThread` with `RoarThreads.cfg`: after a failed write the thread runs
   `roar_reset` (`roar/pcm_roar.c:87`) without the lock, and with it the failure is meant
   to "make sure that subsequent and current calls to rsd_write() will fail"
   (`roar/thread.c:107`). With three starts it does the opposite: the first thread is
   between the stores of `stream_opened` and `thread_active` when a second stream starts,
   whose write fails too; the first thread's store deactivates the second stream, so that
   `roar_pcm_stop` joins nobody; a third stream starts, and the second thread clears
   `stream_opened` of that one before the application sets `thread_active`; the third
   thread's write fails, `roar_reset` finds nothing open and clears nothing. The stream is
   active without a thread: transfers succeed until the FIFO is full and nothing is played.

7. `DrainSendsAll` with `A52SmallSlave.cfg`: `write_out_pending` (`a52/pcm_a52.c:89-97`)
   leaves its loop and returns 0 when the slave takes nothing. A `snd_pcm_linear` that is
   prepared and full does that, and gets full before it starts if its buffer is shorter
   than the application's and the threshold above it (`a52_hw_params` takes what buffer
   it gets, `a52_sw_params` passes the threshold on). `fill_data` and `a52_drain` take the
   0 for success and encode over the frame, although "remaining data must be converted
   and sent out" (line 108).
8. `ReadFreshAlways` with `PulseCtlErrors.cfg`: when the server answers a request for
   information with an error, libpulse calls `sink_info_cb` once, with `is_last` below 0
   and no item (`pulse/ctl_pulse.c:66-69`, the source's at 97-100). The callback signals,
   the operation is done, and `pulse_update_volume`, which only looks at whether the wait
   was broken off, returns 0; `pulse_read_integer` hands out the old copy as a success.
9. `OwnReplyAlways` with `DspLate.cfg`: `dsp_protocol_send_play` flushes what PLAY leaves in
   the mailbox (`maemo/dsp-protocol.c:358-363`), but `dsp_protocol_flush` polls with a
   timeout of 0 (989). What the task sends a moment later is there when the next command
   is sent, and is read as its answer; the true answer stays behind for the one after.
10. `StateAgreesAlways` with `DspInit.cfg`: `dsp_protocol_open_node` takes the sizes from the
   answer to INIT without looking at its `init_status`, and sets `STATE_INITIALISED`
   (`maemo/dsp-protocol.c:176-199`); a PCM believes a task initialised that refused.
11. `StoppedOnRequestAlways` with `ArcamIds.cfg`, its `Ids` the same or clashing: the master and
   the slaves compare a `pthread_t` they receive with `pthread_self()`
   (`arcam-av/arcam_av.c:456` and 495), but the sender is another process, where a thread
   of its own may have the same value; the close of one mixer then ends the thread of
   another. And an event is a NUL byte in the same stream (435), which a `pthread_t` may
   begin or end with: an event and most of a message, or the end of one message and the
   beginning of the next, can be somebody else's.
12. `BufferAlwaysBounded` with `RoarHwParams.cfg`: the comment on `roar_pcm_hw_params`
   (`roar/pcm_roar.c:279-283`) is not sure whether it can be called "without stop() start()
   in between" and expects "a memory leak, and possibly breakage should the buffer size
   change". It breaks with the same size too: `self->buffer` and `self->bufptr` are stored
   without the lock (370, 373), so the thread that has just found a chunk in the FIFO writes
   one out of a buffer nobody wrote, and then takes it from a `bufptr` of 0, which wraps.
13. `FramesReturn` with `RoarFrames.cfg`: `roar_pcm_pointer` counts whole frames
   (`roar/pcm_roar.c:213`). Where the server took a part of one, alsa-lib hands over more
   than fits in bytes; `roar_write` (`roar/thread.c:53`) waits for room, the thread sleeps
   until there is a chunk (`roar/thread.c:99`), and with less than that in the FIFO neither
   wakes the other: the transfer never returns, although `roar_write` "Waits until there is
   room to write" (41) and the thread "Attemps to drain the buffer at all times" (82).

Seen while reading and outside the models: the maemo plugin's pause ignores its
argument, so that resuming returns an error; `send_command` reads an answer after a
failed write; `lock_dev` takes a busy trylock for success; `open_node` returns a
positive errno the caller takes for success; device nodes are tried in reverse
order of the list. Upmixing three to seven channels for a slave of eight never
writes the last two; `doc/upmix.txt` says centre and LFE are the average of left and
right, but from three or four channels they are copies, and that the delay is 15 ms by
default, where the code has 10. A JACK start that failed cannot be retried without a
stop in between, because channels already connected refuse to connect again.
`find_elem` of the PulseAudio mixer maps the first number to the
source even when there is none, while `elem_list` skips to the sink. The mono path
of the lavc rate converter copies into the array of pointers.

## 4. What is proved

`Spec => []Inv` unless the statement says otherwise; each theorem holds for all values of
the constants its module's assumptions admit.

| theorem | statement | of the code |
|---|---|---|
| `RoarStreamProofs!TypeCorrect` | `TypeOK`, failures included | `bufptr` stays a `size_t` |
| `RoarStreamProofs!Inductive` | `IInv` | who is where while writes succeed |
| `RoarStreamProofs!FifoBounded` | `Spec /\ FailsOnce => []BufferBounded` | the copy of `roar_write` fits, if `hw_params` comes after a stop |
| `RoarStreamProofs!QuietReset` | `NoThreadAtReset` | the unlocked stores race with nobody |
| `RoarStreamProofs!ActiveIsDrained` | `ActiveHasThread`, failures included | an active stream has a thread |
| `RoarStreamProofs!ReportsAreTrue` | `ReportedIsQueued` | what a transfer reports is queued |
| `RoarStreamProofs!DelayBounded` | `Spec /\ FailsOnce => DelayOffByAChunk` | the delay is off by a chunk at most, if `hw_params` comes after a stop |
| `RoarStreamProofs!FifoImplementsPipe` | `Spec /\ FailsOnce => ImplementsPipe` | nothing lost, doubled or out of order, if `hw_params` comes after a stop |
| `ArcamProofs!FrameNotOverrun` | `ParserSpec => []ParserTypeOK` | buffer and position stay within a frame |
| `ArcamProofs!ServerTyped` | `TypeOK` | one owner of the name, a backlog of live connections |
| `ArcamProofs!OnlyTheAskedStop` | `StoppedOnRequest` | a thread stops for `arcam_av_server_stop` alone, if ids do not clash |
| `ArcamProofs!PostsAreAwaited` | `Spec => PostWhileWaited` | no post to a semaphore that is gone |
| `ArcamProofs!ConnectionsAreServed` | `Served` | no connection outlives its server |
| `ArcamProofs!PostIsOwed` | `Waited` | who waits in `snd_ctl_open` has a thread that owes the post |
| `ArcamProofs!UnmutedAtTheVolumeAsked` | `CtlSpec => UnmuteAtLastVolume` | no unmuting at a stale volume |
| `ArcamProofs!ControlsTypeCorrect` | `CtlSpec => []CtlTypeOK` | commands and copies carry values of their fields |
| `JackPcmProofs!StopUndoesStart` | `StoppedIsInactive` | stop undoes a start that failed half way |
| `JackPcmProofs!RingInvariant` | `PipeInv` | pointers, `hw_ptr` and ring agree |
| `JackPcmProofs!PointerFollowsRing` | `PointerReal` | the pointer is real amid a cycle |
| `JackPcmProofs!RingImplementsPipe` | `Spec => ImplementsPipe` | the mmap area is a pipe |
| `DspProtocolProofs!MailboxInvariant` | `IInv` | semaphores, mailboxes, owners, of nodes in step |
| `DspProtocolProofs!TaskHasOneOwner` | `OneOwner` | a task has one owner, who knows its state, if no task refused INIT |
| `DspProtocolProofs!NobodyWaitsInVain` | `Waits` | who reads has an answer coming |
| `DspProtocolProofs!AnswersReachTheAsker` | `Spec => OwnReply` | nobody reads another's answer, nor what PLAY leaves before its flush |
| `UsbAndDelayProofs!CardInvariant` | `IInv` | registry, mappings, counters |
| `UsbAndDelayProofs!PreparedIsMapped` | `MappedWhenUsed` | memory in use is the driver's present one |
| `UsbAndDelayProofs!PointerIsReal` | `Spec => PointerReal` | pointer and overruns, counters wrapping |
| `UsbAndDelayProofs!LinesAreDelays` | `LineSpec => ImplementsDelayLine` where the route has the channel | upmix, downmix and Speex are delays |
| `PulseCtlProofs!MixerInvariant` | `IInv` | what is under way, and who waits for it |
| `PulseCtlProofs!NobodySleepsInVain` | `Waits` | no wait for an operation that has ended |
| `PulseCtlProofs!ReadsAreFresh` | `Spec => ReadFresh` | a value read was in force during the call, unless the answer was an error |
| `PulseCtlProofs!ChangesAreNoticed` | `Noticed` | no change by others is lost, unless writes are refused or the last answer was an error |
| `A52PcmProofs!EncoderInvariant` | `IInv` | where every unit is, at each step of a call, if the slave starts in time |
| `A52PcmProofs!UnitsAreSentInOrder` | `SentInOrder` | each unit is sent once and in order, if the slave starts in time |
| `A52PcmProofs!PointerShowsRoom` | `RoomReal` | no room that is not there |
| `A52PcmProofs!DrainPlaysAll` | `DrainedAll` | a drain plays the rest of a frame, if the slave starts in time |
| `PulsePcmProofs!StreamInvariant` | `IInv` | stream, pointers, queue, offset |
| `PulsePcmProofs!PollersAreWoken` | `PollReady` | the pipe is readable when it should be |
| `PulsePcmProofs!CapturedInOrder` | `ReadInOrder` | fragments are cut and joined in order |
| `PulsePcmProofs!SuccessLeavesAStream` | `PreparedHasStream` | a prepare that succeeded left a stream |
| `PulsePcmProofs!RoomIsReal` | `FirstAvailReal` | `update_ptr` promises no more than is there |

**Assumptions.** They are the named `ASSUME`s of the component modules, and TLC
evaluates them in every run. `RoarStream`: a chunk fits in the buffer, twice the buffer
in a `size_t`, and the buffer is a whole number of frames. `ArcamServer`: `None` is no handle, an id is two bytes. `ArcamCtl`: the
settings give every field one of its values, and the controls are for fields.
`ArcamParser`: the inputs are bytes. `JackPcm`: buffer, cycle, socket and
channels are positive. `DspProtocol`: PCMs and mixers are different handles and there is
a node. `UsbStream`: finitely many PCMs; a period has a frame; the counters wrap at an even number above 2
(they are unsigned, of 32 bits) and a stream is stopped before the driver has done a
whole turn of them. `DelayLines`: the channel followed is one of the slave's, the tap
is inside the ring; `LinesAreDelays` has the hypothesis that the route writes the
channel, which leaves out channels 6 and 7 of a slave of eight where `do_upmix` has a
row of six. `PulseCtl`: a volume above 0 exists. `A52Pcm`: the buffer is a whole
number of frames (`a52_set_hw_constraint` sees to that). `PulsePcm`: the buffer is not
empty and the server asks for at least a unit and at most the buffer. The bounds for TLC
(units, streams, writes, faults) are arbitrary numbers.

Apart from the types, none of the properties is inductive by itself. What each needed:

**RoarStream.** `roar_write` tests for room in one critical section and copies in
another, and the thread writes out a chunk without the lock. `IInv` (in the module
itself) has five parts. `ThreadInv(t)`: a live thread is the one `roar_pcm_stop` will
join, on an open and active stream (or one being stopped); it holds the lock exactly
where the code says; what it loaded of `bufptr` is still true; the FIFO holds the chunk
it is writing, and then what it wrote. `QuietStart`: at each unlocked store of
`roar_pcm_start` and `roar_reset` no thread lives. `Stopped`: a stream that alsa-lib has
stopped has no thread, or is about to join it. `AppLocking`: the same for the
application's thread. `Fitting`: the FIFO and the transfer under way fit. All of it
assumes that `roar_vio_write` does not fail. What it says of `bufptr` (the last three
conjuncts of `ThreadInv`, and `Fitting`) is for `hw_params` after a stop, which then
meets no thread (`QuietStart`); the rest, and so who is alive when, is for any.

`FifoInv` follows the units on top of it. `Serving`: a prepared stream is open, an open
one becomes active and gets its thread. `Fresh`: a new stream starts from nothing.
`Told`: what was reported is what entered, but for a transfer about to return. `Totals`
and `Counts`: `total_written` follows what libroar took, and what entered is with
libroar or in the FIFO, or, between `roar_vio_write` and the store of `bufptr`, the
written part in both; this is why the delay can be wrong by a chunk and by no more.
`Contents`: the FIFO holds the last units that entered, shifted between the thread's
`memmove` and its store, one transfer longer between the application's `memcpy` and its
store. `Received`: libroar has the units from the first on. The last four (`Flow`) are for
`hw_params` after a stop, the first three for any. The refinement then maps the
store of `roar_write` to a submission and `roar_vio_write` to a delivery.

`OnceInv` is for a stream that is started once and fails (`FailsOnce`: writes do not
fail, or the caller is alsa-lib, frames have one byte, `hw_params` comes after a stop and
there is one thread). Until the failure `AllInv`
(what `IInv` says) and `FifoInv` hold as above, or no stream is open (`Refused`), with
nothing in it. The failing `roar_vio_write` leads to `GivenUp`, which does not go back:
the thread is on its way through `roar_reset` and out, `NoRestart` says that no call
leads to `roar_pcm_start` again, not even the restart `roar_pcm_pointer` falls into, and
libroar gets no more. `roar_reset` may empty the FIFO under the application's hands, in
the middle of a `roar_write` or of its store of `bufptr`, so `bufptr` is no longer what
libroar is owed but at most that, and exactly that while the stream is active
(`ActiveIn` ties activity to the call). What keeps the transfer that is still under way
in the buffer is `Fits`: it was measured against what was owed when
`roar_pcm_pointer` was asked, and that has only shrunk. So nothing reaches past the
buffer, the delay counts nothing twice, and the store of `roar_write` is still a
submission that fits.

`Newest` is the part for writes that fail. `roar_reset` stores `stream_opened` and
`thread_active` apart, and a thread that fails runs it beside the application.
`FirstAlone`: until a second thread is created, only the first can still close the
stream and the one `roar_pcm_stop` joins is this one. `SecondAlone`: once there is a
second, the first is past its store of `stream_opened`; what it may still do is make the
second stream inactive, which is harmless. A third stream breaks the argument (finding
6).

**ArcamServer.** `ServerInv` holds in every surroundings, crashes included.
`OwnerExact`: the owner of the abstract name is the one thread that has bound it and not
closed it, and the socket listens from then on but for the moment between the two calls.
`BacklogExact` and `InUse`: the backlog has the connections that are not accepted yet,
each once, and a connection belongs to a thread or call that has made it and not closed
it; so `Served`, that closing the server ends every connection there is. `NoThreadLeft`:
a handle that is closed has no thread. `Waited`: a thread that holds the address of
`snd_ctl_open`'s semaphore has not posted it, has not come to its loop, and is waited for;
who waits has such a thread or the post. `StopAsked`: every connection ends with an event
or the end of a `pthread_t`; and if the ids are distinct and unambiguous, a thread's own
`pthread_t` stands somewhere on its connection, or was heard, only while
`arcam_av_server_stop` waits for it in `pthread_join`. It rests on a `pthread_t` being
sent by the handle that joins it, and on lemmas about two bytes that follow each other
(`FollowJoined`, `FollowCut`): a message that is added brings its own two together and
one with the last of what was there, and a read brings none. That `RemoveFirst` of a connection leaves the
others, each once, is a lemma (`LeaveOnce`).

**ArcamCtl.** `UnmuteAtLastVolume` is about the moment a command reaches the amplifier;
`VolumeFollows` says where the volume is on the way there. Commands and answers for it
carry the one last asked for; the amplifier has it, or a command for it is ahead of the
one that unmutes, also while `arcam_av_ctl_write_integer` is between the two; and the
shared state has it or will have it from an answer, because the code compares with the
shared state to decide whether the volume needs sending at all. All this is for
writes that wait for earlier answers (`disturbances` empty); `ControlsTyped` is for any.
TLC has checked `CtlInv` with three writes (3.08 million states) before it was proved.

**JackPcm.** `StoppedIsInactive` says nothing of a stream in PREPARED, where a start may
have activated the client, connected some channels and failed. Its strengthening adds
`FlagReal` (the plugin's `activated` follows the client, and a client that is not active
has no connection and no cycle under way), `AppPlace` (the application is inside start
or stop only in PREPARED or RUNNING, and inside start the client is active), `Inactive`
(what `activated` is in SETUP) and the types. It rests on `snd_pcm_jack_stop` testing
`activated` and not the state of the PCM. For the ring, `PipeInv` adds `Turning` (where
in a cycle the real-time thread is and what is left of it), `Followed` (while the
application keeps up, `hw_ptr` is congruent to the units moved and alsa-lib's `hw` is
not ahead of them, also in the moment where `hw_ptr` equals the size of the buffer) and
`Stored` (the places between the two pointers hold the units that are in the pipe).
Lemmas on remainders say that two numbers less than a buffer apart have different
places.

**DspProtocol.** `IInv` consists of the types, `Places` (what of its callback each
client still has to do, given where it is), and `NodeInv(n)` for the nodes in step. `LockSound`: one client at most holds the semaphore, and then its
value is 0; `Attended`: while nobody died, a value of 0 has a holder or a creator about
to raise it. `Mail`: the mailbox is empty, or the one client that reads has its command
in the one direction or the answer to it at the head of the other; behind the answer to
PLAY there may be any number of further messages, behind others none. `Known` and `Sole`:
the record of an owner is the state of its task, but for the command under way, and
there is one owner, unless a task refused INIT. A crash leaves messages in the mailbox and
the semaphore at 0, so that nobody comes to read them. `Mail` ends with the first message
that comes behind PLAY's flush: nothing in the code would restore it.

**UsbStream.** `Counted`: the `use` of an entry is the number of PCMs that hold it, and
only the entry in the list has any. `Preparing`: a PCM inside a prepare is not prepared
yet. `MapSound`, for prepares that do not overlap and an mmap that works: a PCM that
comes to map finds either nothing mapped or the present stream, and when no prepare is
under way every prepared PCM has all of it. `Steady(p)`: the difference of the driver's
wrapping counter and the value noted at the start is the number of periods done; what
the application has transferred, what alsa-lib has counted and what is done stay within
two periods of each other, so that the differences of unsigned counters mean what the
code takes them for.

**DelayLines.** `LineInv` has the types, `RingInv` and `SpeexInv`. `RingInv`: read from
`curpos` on, the ring has the last `Size` frames in order, silence where the stream has
not had so many; it holds for the plugins that work on the ring, whatever the lengths of
the transfers, and for upmix if the route delays a channel. `SpeexInv`: until the first
block is processed the output is as long as the block is full, and then `outbuf` has the
block before. The tables of `do_upmix` enter through `Routes`: from two and three
channels it delays the rear ones, from others none. `Wrapped`, `Distance`, `PlaceOf` and
`RingAdvances` are the lemmas about `curpos` modulo the size.

**PulseCtl.** `Waiting` and `Own`: of all requests under way one at most is waited for,
and it is that of the call in progress. `Reading`: whatever has values and comes with
that answer or after it was in force since the call began, and so is the copy once the
answer is there, if the last about the element was no error. `Telling` and `Believed`: an element to report
makes the pipe readable; what the application believes is the copy, or that element is
to be reported. `Noticing`: the last answer under way about an element carries the value
in force or is an error, or none is under way and the copy holds the value or came after
an error, or something is still to come that makes the plugin ask
again.

**A52Pcm.** `IInv` says two things. `Basics`, of every slave: what a call may be at, and
that a PCM that is not set up runs nothing; this is what a prepare starts from again.
`Flow` and `Unstarted`, of a slave that starts in time and until a prepare fails
(`Sound`). `Course`: between two operations on the slave, what of `inbuf`, `outbuf` and
`remain` each step of `write_out_pending`, `fill_data` and `a52_drain` has used up.
`States`: which states of the two PCMs go together. `Counted` and `Ordered`: every unit
transferred is with the slave, pending in `outbuf` or in `inbuf`, once, and in this
order when the slave blocks. `Pointed`: the pointer alsa-lib noted is not ahead of what
the slave has played. `Unstarted`: before the slave starts alsa-lib's pointer is 0, so
that what was transferred fits its buffer; with `Sound` the slave then has room for what
is pending (`PreparedRoom`, which rounds up to frames), and the loop of
`write_out_pending` is never left with a frame in hand.

**PulsePcm.** `Placed`, `Polled` and `Returned`: where the application's thread may be
with which stream, when the pipe is readable, and what a prepare that returned left.
`Captured`: the queue is a row of fragments of consecutive units, and the offset into
the first of them is where the application reads next. `Counted`: on the first stream
`last_size` lies between the room alsa-lib can see and the room there is, once the
pointer has been updated. It needs that `FlattenSeq` of a queue, the units in it,
changes as the queue does at either end; this induction over the length is done with the
least element of a set of numbers, because a theorem that takes an operator cannot be
used with the installed provers.

**Model-checked only.** Liveness and whatever needs `ENABLED`: `WriteReturns`,
`CallsReturn` of each plugin, `SomeMaster`, `SharedSettles`, `LastWriteWins`, `Noticed`
of `ArcamCtl`, `PollWakes` (TLAPS has no reasoning for fairness with the installed
provers), and `AllDelivered`, which is also an induction over what a parser computes.
`DelayLines` for the channels that no row of `do_upmix` writes has no promise and so nothing to check.

## 5. What is not modelled

- rsound (`rsound/pcm_rsound.c`): every callback is a call of librsound and a test of
  its result; the threads and the buffer are the library's, whose source is not here.
- OSS PCM and mixer (`oss/`): every callback is one or a few ioctls; the PCM keeps
  whether the fragments of the device are set, the mixer nothing.
- The configuration hook (`pulse/conf_pulse.c`) is one straight function.
- The rate converters wrap libraries and compute on samples; the Speex resampler is
  vendored.
- Zone 2 of the Arcam amplifier has the same code as zone 1 for fewer fields; the
  pointer of the Maemo PCM, which alternates between two values, and its tables of
  parameters are left out, and reads and writes of its mailbox do not fail.

Everywhere, sample formats, channel maps, element names, ranges, hardware
constraints, configuration parsing and error messages are data or wording and are
abstracted, and memory allocation succeeds.

## 6. Plan

Done, in this order: `AudioPipe`, `RoarStream` and its proofs; `PulsePcm`;
`ArcamServer`, `ArcamParser` and its proof, `ArcamCtl`; `UsbStream`; `DspProtocol`;
`PulseCtl`; `JackPcm`, `A52Pcm`, `DelayLine` and `DelayLines`.

The proofs of `RoarStream`, `ArcamParser`, `JackPcm`, `DspProtocol`, `UsbStream`,
`PulseCtl`, `A52Pcm`, `PulsePcm`, `ArcamServer`, `ArcamCtl` and `DelayLines` followed.
Every safety property that a run checks has a theorem.

Of the system, reads and writes of the DSP's mailbox that fail, and the reopening
of an OSS device by hw_params, are what is worth adding. An answer nobody waits for
puts every later answer of the mailbox one command behind, as a late message of PLAY
does, so the first of these needs a smaller instance of `DspProtocol` than the run's.

## 7. Running it

    tlc -workers 2 -config RoarStream.cfg MCRoarStream.tla
    tlapm RoarStreamProofs.tla      # and the other *Proofs modules

Every configuration of section 3 takes its `.cfg` and the `MC` module of its component.
`CHECK_DEADLOCK FALSE` stands where the application may stop calling or the plugin
may be closed for good.
