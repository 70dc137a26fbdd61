------------------------------- MODULE ArcamCtl -------------------------------
(* The controls of the Arcam amplifier plugin (arcam-av/ctl_arcam_av.c) and the *)
(* state the master keeps for them in shared memory (arcam_av_update).  A write *)
(* sends a command unless the shared state says there is nothing to do; the     *)
(* answer changes the shared state, and a byte in the poll descriptor of every  *)
(* handle makes its read_event compare the shared state with its own copy.      *)
(* (ArcamProofs extends this module and ArcamServer: no name is in both.)       *)
EXTENDS ArcamHandles, Naturals, Sequences, FiniteSets, SequencesExt

CONSTANTS Settings,   \* settings the amplifier may start with
          Writable,   \* controls the handles write
          Readable,   \* controls the handles read
          Adjustable, \* controls changed at the front panel
          MaxWrites,  \* bound on the writes
          MaxPanel    \* bound on the changes made at the amplifier itself

VARIABLES amp,        \* the amplifier's settings
          line,       \* commands on the serial line
          answers,    \* answers on the serial line
          global,     \* the shared state
          local,      \* each handle's copy
          changed,    \* arcam_av_update has stored something
          bytes,      \* handles with bytes waiting in their poll descriptor
          at,         \* where each handle is in a call
          last,       \* the last setting asked for
          excused,    \* handles that had no chance to notice a change
          writes, panel, disturbances

ctlVars ==
    <<amp, line, answers, global, local, changed, bytes, at, last, excused, writes, panel, disturbances>>
serial == <<amp, line, answers>>
shared == <<global, changed>>
counts == <<writes, panel, disturbances>>

\* The order of arcam_av_state_t.state, and of the table of names that is
\* indexed with it (one field stands for the ones before stereo_effect).
State == <<"volume", "mute", "stereo_effect", "multi_decode">>
Name == <<"volume", "mute", "multi_decode", "stereo_effect">>
Field == Range(State)

Value == {0, 1}
ASSUME SettingsAssumption ==
    Settings \subseteq [Field -> Value] /\ Writable \cup Readable \cup Adjustable \subseteq Field
MuteOn == 0           \* ARCAM_AV_MUTE_ON
MuteOff == 1

\* What may happen: the amplifier refuses commands, a handle writes before earlier
\* writes are answered, settings change at the front panel.
Disturbance == {"reject", "overlap", "panel"}

Set(f, v) == <<f, v>>

\* The master's first queries have been answered, and the handles have read all.
CtlInit ==
    /\ disturbances \in SUBSET Disturbance
    /\ amp \in Settings /\ answers = <<>>
    /\ line = <<>> /\ global = amp
    /\ local = [h \in Handle |-> global]
    /\ changed = FALSE
    /\ bytes = {}
    /\ at = [h \in Handle |-> "idle"]
    /\ last = amp /\ excused = {}
    /\ writes = 0 /\ panel = 0

-----------------------------------------------------------------------------
\* The amplifier executes a command and answers with the setting it has now.
Execute ==
    /\ line # <<>>
    /\ LET c == Head(line) IN
        /\ amp' = [amp EXCEPT ![c[1]] = c[2]]
        /\ answers' = Append(answers, c)
    /\ line' = Tail(line)
    /\ UNCHANGED <<shared, local, bytes, at, last, excused, counts>>

\* It refuses one: the parser drops the answer, the writer is not told.
Refuse ==
    /\ line # <<>> /\ "reject" \in disturbances
    /\ line' = Tail(line)
    /\ excused' = Handle
    /\ last' = [last EXCEPT ![Head(line)[1]] = amp[Head(line)[1]]]
    /\ UNCHANGED <<amp, answers, shared, local, bytes, at, counts>>

\* Somebody turns a knob.
Panel ==
    /\ "panel" \in disturbances /\ panel < MaxPanel
    /\ panel' = panel + 1
    /\ \E f \in Adjustable : \E v \in Value \ {amp[f]} :
        /\ amp' = [amp EXCEPT ![f] = v] /\ last' = [last EXCEPT ![f] = v]
        /\ answers' = Append(answers, <<f, v>>)
    /\ UNCHANGED <<line, shared, local, bytes, at, excused, writes, disturbances>>

-----------------------------------------------------------------------------
Muted == global["mute"] = MuteOn
\* The master: arcam_av_update stores every answer there is, then one broadcast.
\* Mutant: the settings of a muted amplifier are not stored.
StoreAudible(f, v) == global' = IF Muted /\ f # "mute" THEN global ELSE [global EXCEPT ![f] = v]
Store(f, v) == global' = [global EXCEPT ![f] = v]
Update ==
    /\ answers # <<>>
    /\ Store(Head(answers)[1], Head(answers)[2])
    /\ answers' = Tail(answers)
    /\ changed' = TRUE
    /\ UNCHANGED <<amp, line, local, bytes, at, last, excused, counts>>

Announce ==
    /\ answers = <<>> /\ changed
    /\ bytes' = Handle
    /\ changed' = FALSE
    /\ UNCHANGED <<serial, global, local, at, last, excused, counts>>

-----------------------------------------------------------------------------
\* A handle reads a control.
ReadControl(h) ==
    /\ at[h] = "idle"
    /\ \E f \in Readable : local' = [local EXCEPT ![h][f] = global[f]]
    /\ UNCHANGED <<serial, shared, bytes, at, last, excused, counts>>

\* A handle writes one.  Calls that do not overlap wait for all answers.
Quiet == line = <<>> /\ answers = <<>> /\ ~changed /\ \A h \in Handle : at[h] # "unmute"
MayWrite(h) == /\ at[h] = "idle" /\ writes < MaxWrites
               /\ "overlap" \in disturbances \/ Quiet
Asked(h, f, v) == /\ local' = [local EXCEPT ![h][f] = v]
                  /\ last' = [last EXCEPT ![f] = v]
                  /\ writes' = writes + 1
Send(c) == line' = Append(line, c)
\* Mutant: the handle's own copy is compared.
NothingToDoLocally(h, f, v) == local[h][f] = v
\* The shared state has the value already.
NothingToDo(h, f, v) == global[f] = v
WriteNothing(h, f, v) ==
    /\ MayWrite(h) /\ NothingToDo(h, f, v)
    /\ Asked(h, f, v)
    /\ UNCHANGED <<serial, shared, bytes, at, excused, panel, disturbances>>

\* Mutant: the volume asked for while muted is not kept.
KeepNothing(v) == UNCHANGED global
KeepVolume(v) == global' = [global EXCEPT !["volume"] = v]
\* The volume of a muted amplifier is only noted.  The other handles get no byte for it.
WriteMutedVolume(h, v) ==
    /\ MayWrite(h) /\ ~NothingToDo(h, "volume", v) /\ Muted
    /\ Asked(h, "volume", v)
    /\ KeepVolume(v)
    /\ excused' = excused \cup (Handle \ {h})
    /\ UNCHANGED <<serial, changed, bytes, at, panel, disturbances>>

\* Unmuting sends the volume first.
WriteUnmute(h) ==
    /\ MayWrite(h) /\ ~NothingToDo(h, "mute", MuteOff)
    /\ Asked(h, "mute", MuteOff)
    /\ Send(Set("volume", global["volume"]))
    /\ at' = [at EXCEPT ![h] = "unmute"]
    /\ UNCHANGED <<amp, answers, shared, bytes, excused, panel, disturbances>>
WriteUnmuteSecond(h) ==
    /\ at[h] = "unmute"
    /\ Send(Set("mute", MuteOff))
    /\ at' = [at EXCEPT ![h] = "idle"]
    /\ UNCHANGED <<amp, answers, shared, local, bytes, last, excused, counts>>

\* Every other write is one command.
WriteControl(h, f, v) ==
    /\ MayWrite(h) /\ ~NothingToDo(h, f, v)
    /\ f = "volume" => ~Muted
    /\ ~(f = "mute" /\ v = MuteOff)
    /\ Asked(h, f, v)
    /\ Send(Set(f, v))
    /\ UNCHANGED <<amp, answers, shared, bytes, at, excused, panel, disturbances>>

Write(h) == \E f \in Writable, v \in Value :
    \/ WriteNothing(h, f, v) \/ WriteControl(h, f, v)
    \/ (f = "volume" /\ WriteMutedVolume(h, v))
    \/ (f = "mute" /\ v = MuteOff /\ WriteUnmute(h))

-----------------------------------------------------------------------------
\* read_event, called when the poll descriptor is readable.
Differs(h) == {i \in 1..4 : local[h][State[i]] # global[State[i]]}
First(is) == CHOOSE i \in is : \A j \in is : i <= j

\* Mutant: a report takes the bytes out of the descriptor as well.
Emptied(h) == bytes \ {h}
Kept(h) == bytes
\* The first field that differs is reported by the name at its place.
ReportChange(h, n) ==
    /\ at[h] = "idle" /\ h \in bytes /\ Differs(h) # {}
    /\ LET i == First(Differs(h)) IN
        /\ n = Name[i]
        /\ local' = [local EXCEPT ![h][State[i]] = global[State[i]]]
    /\ bytes' = Kept(h)
    /\ UNCHANGED <<serial, shared, at, last, excused, counts>>

\* Nothing differs: the bytes are taken out, in a step of its own.
NothingDiffers(h) ==
    /\ at[h] = "idle" /\ h \in bytes /\ Differs(h) = {}
    /\ at' = [at EXCEPT ![h] = "recv"]
    /\ excused' = excused \ {h}
    /\ UNCHANGED <<serial, shared, local, bytes, last, counts>>
Recv(h) ==
    /\ at[h] = "recv"
    /\ bytes' = bytes \ {h}
    /\ at' = [at EXCEPT ![h] = "idle"]
    /\ excused' = IF Differs(h) # {} /\ ~changed THEN excused \cup {h} ELSE excused
    /\ UNCHANGED <<serial, shared, local, last, counts>>

Poll(h) == (\E n \in Field : ReportChange(h, n)) \/ NothingDiffers(h) \/ Recv(h) \/ WriteUnmuteSecond(h)
CtlNext == \/ Execute \/ Refuse \/ Panel \/ Update \/ Announce
           \/ \E h \in Handle : ReadControl(h) \/ Write(h) \/ Poll(h)

\* The amplifier answers, the master serves its port, the handles poll.
CtlFairness == /\ WF_ctlVars(Execute) /\ WF_ctlVars(Update) /\ WF_ctlVars(Announce)
               /\ \A h \in Handle : WF_ctlVars(Poll(h))
CtlSpec == CtlInit /\ [][CtlNext]_ctlVars /\ CtlFairness

-----------------------------------------------------------------------------
\* Types; every command and every answer carries a value the control can have.
CtlTypeOK ==
    /\ amp \in [Field -> Value]
    /\ global \in [Field -> Value]
    /\ local \in [Handle -> [Field -> Value]]
    /\ at \in [Handle -> {"idle", "recv", "unmute"}]
    /\ bytes \subseteq Handle /\ excused \subseteq Handle
    /\ Range(line \o answers) \subseteq Field \X Value

\* After the last change the shared state comes to show what the amplifier does, but
\* for a volume noted while muted: it can be lost when the amplifier is unmuted by
\* hand, refuses it, or is unmuted by a command that has not been answered yet.
SharedSettles == <>[](\A f \in Field : global[f] = amp[f] \/ (f = "volume" /\ (Muted \/ disturbances # {})))

\* A command that unmutes the amplifier finds it at the volume last asked for by any
\* handle, while it was muted too: if writes wait for the answers to earlier ones,
\* no command is refused and nobody turns the knobs.
UnmuteAtLastVolume ==
    [][disturbances = {} /\ line # <<>> /\ Head(line) = Set("mute", MuteOff) /\ line' = Tail(line)
       => amp["volume"] = last["volume"]]_ctlVars

\* Every handle ends up with the shared state as its copy: each difference was reported
\* to it, unless the byte for it was taken out after the comparison, the amplifier
\* refused its command, or another handle changed the volume of a muted amplifier.
Noticed == \A h \in Handle : <>[](local[h] = global \/ h \in excused)

\* An event names a control whose value differs from the one the handle knows.
EventNamesChanged == [][\A h \in Handle, n \in Field : ReportChange(h, n) => local[h][n] # global[n]]_ctlVars

\* The last value written to a control is the one it has in the end, if every write
\* waits for the answers to earlier ones (one that does not may be taken for
\* nothing to do, because the shared state still has the value it asks for).
LastWriteWins == disturbances = {} => \A f \in Field : <>[](amp[f] = last[f] \/ (f = "volume" /\ Muted))
=============================================================================
