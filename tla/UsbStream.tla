------------------------------- MODULE UsbStream -------------------------------
(* The usb_stream PCM plugin (usb_stream/pcm_usb_stream.c).  All PCMs a process *)
(* opens on a card share one entry of a registry, and with it the memory the    *)
(* driver maps; the driver counts the periods it has done, and each PCM counts  *)
(* the periods it has transferred.  A PCM has two periods.                      *)
EXTENDS Integers, FiniteSets

CONSTANTS Pcm,         \* PCMs of one card in one process
          Playback,    \* those that play; the others capture
          Config,      \* configurations a PCM may ask the driver for
          Frames,      \* frames of a period
          Modulus,     \* periods_done is an unsigned: 2^32
          MaxRun       \* bound on the periods done between start and stop

ASSUME SizesAssumption ==
    /\ IsFiniteSet(Pcm) /\ Playback \subseteq Pcm /\ Frames \in Nat \ {0}
    /\ Modulus \in Nat /\ Modulus > 2 /\ Modulus % 2 = 0
    /\ MaxRun \in Nat /\ MaxRun < Modulus

VARIABLES uus,         \* entries of the registry, free ones included
          head,        \* the entry of the card, or 0
          held,        \* us->uus of every PCM, or 0
          state,       \* io->state of every PCM
          pc,          \* where snd_pcm_us_prepare stands
          config,      \* what a PCM was given by hw_params
          driver,      \* the driver's configuration (0: none yet) and its counter
          start, done, \* periods_start and periods_done of every PCM
          appl, hw,    \* alsa-lib's pointers, in periods,
          rest,        \* and the frames the application is past its own
          real,        \* periods the driver has done since the start
          replaced,    \* running PCMs whose stream the driver has given up
          env          \* what may go wrong

vars == <<uus, head, held, state, pc, config, driver, start, done, appl, hw, rest, real, replaced, env>>
entries == <<uus, head, held>>
counters == <<start, done, appl, hw, rest, real, replaced>>

\* What may go wrong: mmap fails; other threads call into PCMs during a prepare; the
\* application commits other than one period at a time, or starts with less than two.
Environment == {"mmap", "threads", "sizes"}

\* Memory of an entry: the whole of the driver's stream, its first page only, or
\* what is left of a stream the driver has given up.
Mapping == {"none", "failed", "header", "full", "stale"}
Entry == 1..Cardinality(Pcm)
NoEntry == [use |-> 0, s |-> "none", write |-> "none"]
Mapped(e) == uus[e].s # "none"

Init ==
    /\ uus = [e \in Entry |-> NoEntry] /\ head = 0 /\ held = [p \in Pcm |-> 0]
    /\ state = [p \in Pcm |-> "closed"] /\ pc = [p \in Pcm |-> "idle"]
    /\ config \in [Pcm -> Config]
    /\ driver = [config |-> 0, done |-> 0]
    /\ start = [p \in Pcm |-> 0] /\ done = start /\ appl = start /\ hw = start /\ rest = start /\ real = start
    /\ replaced = {}
    /\ env \in SUBSET Environment

\* The counters mean something while the PCM runs only: snd_pcm_us_start sets them.
Running == {p \in Pcm : state[p] = "running"}
Halt(p, to) == /\ state' = [state EXCEPT ![p] = to]
               /\ start' = [start EXCEPT ![p] = 0] /\ done' = [done EXCEPT ![p] = 0]
               /\ appl' = [appl EXCEPT ![p] = 0] /\ hw' = [hw EXCEPT ![p] = 0]
               /\ rest' = [rest EXCEPT ![p] = 0]
               /\ real' = [real EXCEPT ![p] = 0] /\ replaced' = replaced \ {p}

-----------------------------------------------------------------------------
\* A call may begin: alone, or while another thread is in a prepare.
Free(p) == pc[p] = "idle" /\ ("threads" \in env \/ \A q \in Pcm : pc[q] = "idle")

\* get_uus and snd_hwdep_open.
NewUse(e) == uus' = [uus EXCEPT ![e].use = @ + 1]
Open(p) ==
    /\ state[p] = "closed" /\ Free(p)
    /\ IF head # 0 THEN NewUse(head) /\ UNCHANGED head
       ELSE \E e \in Entry : /\ uus[e].use = 0 /\ \A d \in 1..e - 1 : uus[d].use > 0
                            /\ uus' = [uus EXCEPT ![e] = [NoEntry EXCEPT !.use = 1]] /\ head' = e
    /\ held' = [held EXCEPT ![p] = head']
    /\ state' = [state EXCEPT ![p] = "open"]
    /\ UNCHANGED <<pc, config, driver, counters, env>>

\* uus_free: the last user takes the entry out of the registry and unmaps it.
Close(p) ==
    /\ state[p] # "closed" /\ Free(p)
    /\ IF uus[held[p]].use = 1 THEN uus' = [uus EXCEPT ![held[p]] = NoEntry] /\ head' = 0
       ELSE uus' = [uus EXCEPT ![held[p]].use = @ - 1] /\ UNCHANGED head
    /\ held' = [held EXCEPT ![p] = 0]
    /\ Halt(p, "closed")
    /\ UNCHANGED <<pc, config, driver, env>>

-----------------------------------------------------------------------------
\* snd_pcm_us_prepare.  The driver makes a new stream unless it has this one already.
Preparable == {"open", "prepared", "xrun"}
Reopened(p) == /\ state' = [state EXCEPT ![p] = "open"]
               /\ appl' = [appl EXCEPT ![p] = 0] /\ rest' = [rest EXCEPT ![p] = 0]
SetParams(p) ==
    /\ state[p] \in Preparable /\ Free(p)
    /\ driver.config = config[p]
    /\ pc' = [pc EXCEPT ![p] = "map"]
    /\ Reopened(p)
    /\ UNCHANGED <<entries, config, driver, start, done, hw, real, replaced, env>>
Outdated(m) == IF m = "full" THEN "stale" ELSE m
SetNewParams(p) ==
    /\ state[p] \in Preparable /\ Free(p)
    /\ driver.config # config[p]
    /\ driver' = [config |-> config[p], done |-> 0]
    /\ replaced' = replaced \cup Running
    /\ uus' = [e \in Entry |-> [uus[e] EXCEPT !.s = Outdated(@), !.write = Outdated(@)]]
    /\ pc' = [pc EXCEPT ![p] = "unmap"]
    /\ Reopened(p)
    /\ UNCHANGED <<head, held, config, start, done, hw, real, env>>
SetParamsFails(p) ==
    /\ state[p] \in Preparable /\ Free(p)
    /\ Reopened(p)
    /\ UNCHANGED <<entries, pc, config, driver, start, done, hw, real, replaced, env>>

\* munmap of what any PCM of the card had mapped.
\* Mutant: us->s is left behind.
Remembered(e) == uus
Forgotten(e) == [uus EXCEPT ![e].s = "none"]
UnmapOld(p) ==
    /\ pc[p] = "unmap"
    /\ uus' = IF Mapped(held[p]) THEN Forgotten(held[p]) ELSE uus
    /\ pc' = [pc EXCEPT ![p] = "map"]
    /\ UNCHANGED <<head, held, state, config, driver, counters, env>>

Result(p, ok) == /\ pc' = [pc EXCEPT ![p] = "idle"]
                 /\ state' = [state EXCEPT ![p] = IF ok THEN "prepared" ELSE "open"]
\* Somebody has mapped it; the driver's stream is ready or is not.
MapThere(p) ==
    /\ pc[p] = "map" /\ Mapped(held[p])
    /\ \E ready \in BOOLEAN : Result(p, ready)
    /\ UNCHANGED <<entries, config, driver, counters, env>>
MapNew(p) ==
    /\ pc[p] = "map" /\ ~Mapped(held[p]) /\ driver.config = config[p]
    /\ uus' = [uus EXCEPT ![held[p]].s = "full", ![held[p]].write = "full"]
    /\ \E ready \in BOOLEAN : Result(p, ready)
    /\ UNCHANGED <<head, held, config, driver, counters, env>>
\* The driver has another configuration by now: the first mapping is left as it is.
MapOther(p) ==
    /\ pc[p] = "map" /\ ~Mapped(held[p]) /\ driver.config # config[p]
    /\ uus' = [uus EXCEPT ![held[p]].s = "header"]
    /\ Result(p, FALSE)
    /\ UNCHANGED <<head, held, config, driver, counters, env>>
\* The first mmap (or mremap) fails, or the second: s is not set back.
MapFails(p) ==
    /\ pc[p] = "map" /\ ~Mapped(held[p]) /\ "mmap" \in env
    /\ \/ uus' = [uus EXCEPT ![held[p]].s = "failed"]
       \/ uus' = [uus EXCEPT ![held[p]].s = "full", ![held[p]].write = "failed"]
    /\ Result(p, FALSE)
    /\ UNCHANGED <<head, held, config, driver, counters, env>>

-----------------------------------------------------------------------------
\* The driver completes a period.
Period ==
    /\ driver.config # 0 /\ \A p \in Pcm : real[p] < MaxRun
    /\ driver' = [driver EXCEPT !.done = (@ + 1) % Modulus]
    /\ real' = [p \in Pcm |-> IF p \in Running THEN real[p] + 1 ELSE real[p]]
    /\ UNCHANGED <<entries, state, pc, config, start, done, appl, hw, rest, replaced, env>>

\* snd_pcm_us_start
\* Mutant: periods_start is left alone.
NotRestarted(p) == start
Restarted(p) == [start EXCEPT ![p] = driver.done]
Start(p) ==
    /\ state[p] = "prepared" /\ Free(p)
    /\ p \in Playback /\ "sizes" \notin env => appl[p] = 2
    /\ start' = Restarted(p)
    /\ done' = [done EXCEPT ![p] = driver.done]
    /\ state' = [state EXCEPT ![p] = "running"]
    /\ UNCHANGED <<entries, pc, config, driver, appl, hw, rest, real, replaced, env>>

\* snd_pcm_us_pointer, and what alsa-lib makes of it.
Behind(p) == (driver.done - done[p]) % Modulus
LatePeriods == 1
Late(p) == Behind(p) > LatePeriods
Odd(p) == ((driver.done - start[p]) % Modulus) % 2
PointerRuns(p) ==
    /\ state[p] = "running" /\ Free(p) /\ ~Late(p)
    /\ hw' = [hw EXCEPT ![p] = @ + ((Odd(p) - @) % 2)]
    /\ UNCHANGED <<entries, state, pc, config, driver, start, done, appl, rest, real, replaced, env>>
PointerXrun(p) ==
    /\ state[p] = "running" /\ Free(p) /\ Late(p)
    /\ Halt(p, "xrun")
    /\ UNCHANGED <<entries, pc, config, driver, env>>

\* A transfer counts as a period, also before the start, which forgets it.
Transferred(p) == done' = [done EXCEPT ![p] = IF p \in Running THEN (@ + 1) % Modulus ELSE @]

\* A commit of any size completes some periods and leaves frames of the next one; it fits
\* in what is free, up to the end of the buffer.  snd_pcm_us_write does not look at the
\* size but for where to copy.
Sizes(p) == IF "sizes" \in env THEN [periods : 0..2, frames : 0..Frames - 1]
            ELSE {[periods |-> 1, frames |-> rest[p]]}
Begun(frames) == IF frames > 0 THEN 1 ELSE 0
Write(p) ==
    /\ p \in Playback /\ state[p] \in {"prepared", "running"} /\ Free(p)
    /\ \E size \in Sizes(p) :
          /\ size.periods > 0 \/ size.frames > rest[p]
          /\ appl[p] + size.periods + Begun(size.frames) <= hw[p] + 2
          /\ (appl[p] % 2) + size.periods + Begun(size.frames) <= 2
          /\ appl' = [appl EXCEPT ![p] = @ + size.periods]
          /\ rest' = [rest EXCEPT ![p] = size.frames]
    /\ Transferred(p)
    /\ UNCHANGED <<entries, state, pc, config, driver, start, hw, real, replaced, env>>

\* alsa-lib asks for what is available up to the end of the buffer.  Anything but a period
\* is refused with -EINVAL, and a period that is not due gives nothing: neither changes
\* anything.  The application commits the period it was given.
Read(p) ==
    /\ p \notin Playback /\ state[p] = "running" /\ Free(p)
    /\ hw[p] - appl[p] > 0 /\ Behind(p) = 1
    /\ Transferred(p)
    /\ appl' = [appl EXCEPT ![p] = @ + 1]
    /\ UNCHANGED <<entries, state, pc, config, driver, start, hw, rest, real, replaced, env>>

\* snd_pcm_us_stop clears the write area, if anything is mapped.
Stop(p) ==
    /\ state[p] = "running" /\ Free(p)
    /\ Halt(p, "open")
    /\ UNCHANGED <<entries, pc, config, driver, env>>

Next == \/ Period
        \/ \E p \in Pcm : \/ Open(p) \/ Close(p)
                          \/ SetParams(p) \/ SetNewParams(p) \/ SetParamsFails(p) \/ UnmapOld(p)
                          \/ MapThere(p) \/ MapNew(p) \/ MapOther(p) \/ MapFails(p)
                          \/ Start(p) \/ PointerRuns(p) \/ PointerXrun(p)
                          \/ Write(p) \/ Read(p) \/ Stop(p)
Spec == Init /\ [][Next]_vars

-----------------------------------------------------------------------------
\* Types; an entry counts the PCMs that hold it and is in the registry just as long.
TypeOK ==
    /\ state \in [Pcm -> {"closed", "open", "prepared", "running", "xrun"}]
    /\ \A p \in Pcm : (held[p] = 0) = (state[p] = "closed")
    /\ \A e \in Entry : uus[e].s \in Mapping /\ uus[e].write \in Mapping
    /\ \A e \in Entry : uus[e].use = Cardinality({p \in Pcm : held[p] = e})
    /\ \A e \in Entry : (uus[e].use > 0) = (head = e)
    /\ start \in [Pcm -> 0..Modulus - 1] /\ done \in [Pcm -> 0..Modulus - 1]
    /\ \A p \in Pcm : appl[p] \in 0..hw[p] + 2

\* A PCM that is prepared or runs finds the memory of the driver's present stream
\* mapped, whichever PCM of the card reconfigured it, unless a mmap failed or another
\* thread's prepare is or was under way at the same time.
MappedWhenUsed ==
    env \cap {"mmap", "threads"} = {} /\ (\A p \in Pcm : pc[p] = "idle") =>
        \A p \in Pcm : state[p] \in {"prepared", "running"} =>
            uus[held[p]].s = "full" /\ uus[held[p]].write = "full"

\* Periods transferred since the start, and before it.
Moved(p) == (done[p] - start[p]) % Modulus

\* After snd_pcm_us_pointer alsa-lib has counted every period the driver completed
\* since the start, wrapped counters included: no overrun passes unnoticed.
AvailReal(p) == PointerRuns(p) => hw'[p] = real[p]

\* An overrun is reported only if the driver has played all there is, or filled the buffer.
XrunReal(p) ==
    PointerXrun(p) => IF p \in Playback THEN real[p] >= appl[p] + Begun(rest[p])
                      ELSE real[p] - appl[p] >= 2

\* What snd_pcm_us_pointer makes of two unsigned differences is true either way, on a
\* stream the driver still has, as long as the application commits period by period and
\* starts with both filled: the count of calls of snd_pcm_us_write is a count of periods.
PointerReal == [][\A p \in Pcm : p \notin replaced /\ "sizes" \notin env =>
                     AvailReal(p) /\ XrunReal(p)]_vars

\* The same for an application that commits what it likes, which alsa-lib lets it do.
PointerRealAnySize == [][\A p \in Pcm : p \notin replaced => XrunReal(p)]_vars
=============================================================================
