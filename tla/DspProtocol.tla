------------------------------ MODULE DspProtocol ------------------------------
(* The maemo plugins: PCMs (maemo/alsa-dsp.c) and mixers (maemo/dsp-ctl.c) of  *)
(* several processes talk to the tasks of a DSP (maemo/dsp-protocol.c).  Every *)
(* task has a device node, a mailbox all that have opened the node read from,  *)
(* and a System V semaphore that is to keep them from reading each other's     *)
(* answers.                                                                    *)
EXTENDS Integers, Sequences, FiniteSets

CONSTANTS Pcm, Mixer,   \* handles, each in a process of its own
          Nodes,        \* number of device nodes, in the order they are tried
          Existing,     \* whether the semaphores exist from the start, or both
          MaxClients,   \* bound on the handles open at a time
          MaxLoose,     \* bound on the semaphores raised out of turn when a call begins
          MaxFaults,    \* bound on the kinds of faults
          MaxMessages   \* bound on the messages waiting in a mailbox

Client == Pcm \cup Mixer
Node == 1..Nodes
None == -1              \* no such semaphore

ASSUME SizesAssumption ==
    /\ Pcm \cap Mixer = {} /\ Nodes \in Nat \ {0} /\ Existing \subseteq BOOLEAN
    /\ MaxClients \in Nat /\ MaxLoose \in Nat /\ MaxFaults \in Nat /\ MaxMessages \in Nat

VARIABLES sem,            \* the semaphore of every node
          task,           \* state of every task on the DSP
          inbox, outbox,  \* messages to and from it
          node, st,       \* the handle's device (0: none) and dsp_protocol->state
          io,             \* alsa-lib's state of the handle
          callback,       \* the callback a handle is in,
          rest,           \*   dsp_protocol functions it has yet to call, the present one first,
          pc, left, ok,   \*   where that is, commands it has yet to send, its result
          loose,          \* nodes whose semaphore was raised by a client that did not hold it
          faults          \* what has gone wrong: "crash" of a client, "signal" to one that waits,
                          \*   "init" refused, a message of PLAY that came "late", after its flush

dsp == <<task, inbox, outbox>>
handle == <<node, st, io>>
control == <<callback, rest, pc, left, ok>>
vars == <<sem, dsp, handle, control, loose, faults>>

TaskState == {"uninit", "init", "playing", "paused", "stopped"}

Init ==
    /\ \E made \in Existing : sem = [n \in Node |-> IF made THEN 1 ELSE None]
    /\ task = [n \in Node |-> "uninit"]
    /\ inbox = [n \in Node |-> <<>>] /\ outbox = inbox
    /\ node = [c \in Client |-> 0] /\ st = [c \in Client |-> "uninit"]
    /\ io = [c \in Client |-> "closed"]
    /\ callback = [c \in Client |-> "none"] /\ rest = [c \in Client |-> <<>>]
    /\ pc = [c \in Client |-> "idle"] /\ left = [c \in Client |-> <<>>] /\ ok = [c \in Client |-> TRUE]
    /\ loose = {} /\ faults = {}

Holds(c) == pc[c] \in {"read", "unlock"}

-----------------------------------------------------------------------------
\* A task of the DSP: the answer to each command, and the state it leads to.  It
\* may refuse any command that is no question.
After(cmd, s) == CASE cmd = "init" -> "init" [] cmd = "play" -> "playing" [] cmd = "pause" -> "paused"
                   [] cmd = "stop" -> "stopped" [] cmd = "close" -> "uninit" [] OTHER -> s
Answer(m, good, s) == [cmd |-> m.cmd, to |-> m.from, ok |-> good, status |-> s]
GoesWrong(kind) == Cardinality(faults) < MaxFaults /\ faults' = faults \cup {kind}
Task(n) ==
    /\ inbox[n] # <<>> /\ Len(outbox[n]) < MaxMessages
    /\ \E good \in BOOLEAN :
          LET cmd == Head(inbox[n]).cmd
              to == IF good THEN After(cmd, task[n]) ELSE task[n]
          IN /\ ~good => cmd # "state"
             /\ IF cmd = "init" /\ ~good THEN GoesWrong("init") ELSE faults' = faults
             /\ task' = [task EXCEPT ![n] = to]
             /\ outbox' = [outbox EXCEPT ![n] = Append(@, Answer(Head(inbox[n]), good, to))]
    /\ inbox' = [inbox EXCEPT ![n] = Tail(@)]
    /\ UNCHANGED <<sem, handle, control, loose>>

\* PLAY leaves more in the mailbox than its answer: behind it, where the flush of
\* dsp_protocol_send_play finds it, or late.
Further(n, good) == [cmd |-> "data_request", to |-> None, ok |-> good, status |-> task[n]]
Flushes(c, n) == node[c] = n /\ pc[c] = "read" /\ rest[c][1] = "play"
PutsFurther(n, good) ==
    /\ Len(outbox[n]) < MaxMessages
    /\ outbox' = [outbox EXCEPT ![n] = Append(@, Further(n, good))]
    /\ UNCHANGED <<sem, task, inbox, handle, control, loose>>
Trails(n) ==
    /\ outbox[n] # <<>> /\ \E c \in Client : Flushes(c, n)
    /\ PutsFurther(n, TRUE) /\ UNCHANGED faults
TrailsLate(n) ==
    /\ task[n] = "playing" /\ \A c \in Client : ~Flushes(c, n)
    /\ \E good \in BOOLEAN : PutsFurther(n, good)
    /\ GoesWrong("late")

-----------------------------------------------------------------------------
\* What the application calls, and the functions each callback calls in turn.
\* A handle opened after a crash would wait at a semaphore nobody raises any more.
MayOpen == Cardinality({c \in Client : node[c] # 0}) < MaxClients /\ "crash" \notin faults
\* Once a message has come late, the calls under way are the last.
InTime == "late" \notin faults
\* Nodes have nothing in common: one at a time has clients in a call.
Alone(n) == \A d \in Client : pc[d] # "idle" => node[d] = n
On(c, n, name, calls) ==
    /\ pc[c] = "idle" /\ Alone(n) /\ Cardinality(loose) <= MaxLoose /\ InTime
    /\ node' = [node EXCEPT ![c] = n]
    /\ callback' = [callback EXCEPT ![c] = name] /\ rest' = [rest EXCEPT ![c] = calls]
    /\ pc' = [pc EXCEPT ![c] = "call"] /\ ok' = [ok EXCEPT ![c] = TRUE]
    /\ UNCHANGED <<sem, dsp, st, io, left, loose, faults>>
Begin(c, name, calls) == On(c, node[c], name, calls)

OpenPcm(p) == io[p] = "closed" /\ MayOpen /\ On(p, 1, "open", <<"open">>)
Prepare(p) ==
    /\ io[p] \in {"open", "prepared"}
    /\ Begin(p, "prepare", IF st[p] = "init" THEN <<"params">> ELSE <<"close", "open", "params">>)
Start(p) == io[p] = "prepared" /\ Begin(p, "start", <<"play">>)
Transfer(p) ==
    /\ io[p] \in {"prepared", "running"}
    /\ Begin(p, "transfer", IF st[p] = "playing" THEN <<"data">> ELSE <<"play", "data">>)
Pause(p) == io[p] = "running" /\ Begin(p, "pause", <<"pause">>)
Resume(p) == io[p] = "paused" /\ Begin(p, "resume", <<"play">>)
Stop(p) == io[p] \in {"prepared", "running", "paused"} /\ Begin(p, "stop", <<"stop">>)
ClosePcm(p) == io[p] # "closed" /\ Begin(p, "close", <<"close">>)

OpenMixer(m) == io[m] = "closed" /\ MayOpen /\ \E n \in Node : On(m, n, "open", <<"probe">>)
ReadMixer(m) == io[m] = "open" /\ \E get \in {"get_mute", "get_volume"} : Begin(m, "read", <<get>>)
\* What is written may be the value that is read.
WriteMixer(m) ==
    /\ io[m] = "open"
    /\ \E calls \in {<<"get_mute">>, <<"get_mute", "set_mute">>, <<"get_volume", "set_volume">>} :
          Begin(m, "write", calls)
CloseMixer(m) == io[m] = "open" /\ Begin(m, "close", <<>>)

-----------------------------------------------------------------------------
\* A function of dsp_protocol returns; most callbacks go on whatever it returned.
Stops == {"close", "get_mute", "get_volume"}
Returned(c, good) ==
    /\ ok' = [ok EXCEPT ![c] = good]
    /\ rest' = [rest EXCEPT ![c] = IF good \/ Head(@) \notin Stops THEN Tail(@) ELSE <<>>]
    /\ pc' = [pc EXCEPT ![c] = "call"]

Call(c) == rest[c][1]
Calls(c) == pc[c] = "call" /\ rest[c] # <<>>
Refused(c) == CASE Call(c) \in {"open", "probe"} -> st[c] # "uninit"
                [] Call(c) = "params" -> st[c] # "init"
                [] Call(c) = "play" -> st[c] = "uninit"
                [] Call(c) \in {"data", "pause", "stop"} -> st[c] # "playing"
                [] OTHER -> FALSE
CallRefused(c) ==
    /\ Calls(c) /\ Refused(c)
    /\ Returned(c, Call(c) = "data")
    /\ UNCHANGED <<sem, dsp, handle, callback, left, loose, faults>>
Closed(c) == Call(c) = "close" /\ st[c] = "uninit"
\* dsp_protocol_close_node of a node that is not initialised: nothing was locked,
\* but the semaphore is released.
CloseUnlocked(c) ==
    /\ Calls(c) /\ Closed(c)
    /\ sem' = [sem EXCEPT ![node[c]] = @ + 1] /\ loose' = loose \cup {node[c]}
    /\ Returned(c, TRUE)
    /\ UNCHANGED <<dsp, handle, callback, left, faults>>

\* dsp_protocol_get_sem: use the semaphore, or create it and then set it to 1.
GetSem(c) ==
    /\ Calls(c) /\ ~Refused(c) /\ Call(c) \in {"open", "probe"}
    /\ pc' = [pc EXCEPT ![c] = IF sem[node[c]] = None THEN "create" ELSE "lock"]
    /\ UNCHANGED <<sem, dsp, handle, callback, rest, left, ok, loose, faults>>
CreateSem(c) ==
    /\ pc[c] = "create"
    /\ sem' = [sem EXCEPT ![node[c]] = IF @ = None THEN 0 ELSE @]
    /\ pc' = [pc EXCEPT ![c] = "setval"]
    /\ UNCHANGED <<dsp, handle, callback, rest, left, ok, loose, faults>>
SetVal(c) ==
    /\ pc[c] = "setval"
    /\ sem' = [sem EXCEPT ![node[c]] = 1]
    /\ loose' = IF "crash" \in faults \/ \E d \in Client : node[d] = node[c] /\ Holds(d)
                THEN loose \cup {node[c]} ELSE loose
    /\ pc' = [pc EXCEPT ![c] = "lock"]
    /\ UNCHANGED <<dsp, handle, callback, rest, left, ok, faults>>

\* dsp_protocol_lock_dev, the flush some functions start with, and the first command.
Commands(f) == CASE f = "open" -> <<"state", "init">>
                 [] f \in {"probe", "get_mute", "get_volume"} -> <<"state">>
                 [] f = "set_mute" -> <<"mute">>
                 [] f = "set_volume" -> <<"volume", "panning">>
                 [] OTHER -> <<f>>
FlushesFirst == {"open", "probe", "close", "get_mute"}
AtLock(c) == \/ pc[c] = "lock"
             \/ Calls(c) /\ ~Refused(c) /\ Call(c) \notin {"open", "probe"} /\ ~Closed(c)
Command(c, cmd) == inbox' = [inbox EXCEPT ![node[c]] = Append(@, [cmd |-> cmd, from |-> c])]
Lock(c) ==
    /\ AtLock(c) /\ sem[node[c]] > 0
    /\ sem' = [sem EXCEPT ![node[c]] = @ - 1]
    /\ outbox' = IF Call(c) \in FlushesFirst THEN [outbox EXCEPT ![node[c]] = <<>>] ELSE outbox
    /\ IF Call(c) = "play" /\ st[c] = "playing"
       THEN UNCHANGED <<left, inbox>> /\ pc' = [pc EXCEPT ![c] = "unlock"]
       ELSE /\ left' = [left EXCEPT ![c] = Commands(Call(c))] /\ Command(c, left'[c][1])
            /\ pc' = [pc EXCEPT ![c] = "read"]
    /\ ok' = [ok EXCEPT ![c] = TRUE]
    /\ UNCHANGED <<task, handle, callback, rest, loose, faults>>
\* A signal interrupts the wait.
LockFails(c) ==
    /\ AtLock(c) /\ "signal" \notin faults /\ GoesWrong("signal")
    /\ Returned(c, FALSE)
    /\ UNCHANGED <<sem, dsp, handle, callback, left, loose>>

\* The answer: whatever comes first out of the mailbox.
\* Mutants: a busy node is taken; play does not flush.
FreeUnlessPlaying(status) == status # "playing"
FreeNode(status) == status = "uninit"
Good(c, a) == CASE Call(c) = "open" -> left[c][1] = "init" \/ FreeNode(a.status)
                [] Call(c) \in {"probe", "get_mute", "get_volume", "data"} -> TRUE
                [] OTHER -> a.ok
Done(c, a) == ~Good(c, a) \/ Len(left[c]) = 1
NewState(c, a) == CASE Call(c) \in {"probe", "get_mute", "get_volume"} -> a.status
                    [] ~Good(c, a) -> st[c]
                    [] OTHER -> After(left[c][1], st[c])
NotFlushed(c) == Tail(outbox[node[c]])
Remaining(c) == IF Call(c) = "play" THEN <<>> ELSE Tail(outbox[node[c]])
Read(c) ==
    /\ pc[c] = "read" /\ outbox[node[c]] # <<>>
    /\ LET a == Head(outbox[node[c]]) IN
       /\ ok' = [ok EXCEPT ![c] = Good(c, a)]
       /\ st' = [st EXCEPT ![c] = NewState(c, a)]
       /\ IF Done(c, a) THEN pc' = [pc EXCEPT ![c] = "unlock"] /\ inbox' = inbox ELSE pc' = pc /\ Command(c, left[c][2])
       /\ left' = [left EXCEPT ![c] = IF Done(c, a) THEN <<>> ELSE Tail(@)]
    /\ outbox' = [outbox EXCEPT ![node[c]] = Remaining(c)]
    /\ UNCHANGED <<sem, task, node, io, callback, rest, loose, faults>>

\* dsp_protocol_unlock_dev
\* Mutant: a failed call does not release.
RaisedIfOk(c) == IF ok[c] THEN sem[node[c]] + 1 ELSE sem[node[c]]
Raised(c) == sem[node[c]] + 1
Unlock(c) ==
    /\ pc[c] = "unlock"
    /\ sem' = [sem EXCEPT ![node[c]] = Raised(c)]
    /\ Returned(c, ok[c])
    /\ UNCHANGED <<dsp, handle, callback, left, loose, faults>>

-----------------------------------------------------------------------------
\* The callback returns.
Finishes(c) == pc[c] = "call" /\ rest[c] = <<>>
\* alsa_dsp_open_dsp_task: a node that is not free is closed, and the next one tried.
Last(n) == n = Nodes
NotFree(p) ==
    /\ Finishes(p) /\ p \in Pcm /\ callback[p] = "open" /\ ~ok[p]
    /\ callback' = [callback EXCEPT ![p] = "retry"] /\ rest' = [rest EXCEPT ![p] = <<"close">>]
    /\ UNCHANGED <<sem, dsp, handle, pc, left, ok, loose, faults>>
NextNode(p) ==
    /\ Finishes(p) /\ callback[p] = "retry" /\ ~Last(node[p])
    /\ node' = [node EXCEPT ![p] = @ + 1]
    /\ callback' = [callback EXCEPT ![p] = "open"] /\ rest' = [rest EXCEPT ![p] = <<"open">>]
    /\ UNCHANGED <<sem, dsp, st, io, pc, left, ok, loose, faults>>

IoAfter(c) == CASE callback[c] = "open" -> IF ok[c] THEN "open" ELSE "closed"
                [] callback[c] = "prepare" -> IF ok[c] THEN "prepared" ELSE "open"
                [] callback[c] = "start" /\ ok[c] -> "running"
                [] callback[c] = "pause" /\ ok[c] -> "paused"
                [] callback[c] = "stop" -> "open"
                [] callback[c] \in {"close", "retry"} -> "closed"
                [] OTHER -> io[c]
Leaves(c, to) ==
    /\ io' = [io EXCEPT ![c] = to] /\ pc' = [pc EXCEPT ![c] = "idle"]
    /\ callback' = [callback EXCEPT ![c] = "none"] /\ rest' = [rest EXCEPT ![c] = <<>>]
    /\ left' = [left EXCEPT ![c] = <<>>] /\ ok' = [ok EXCEPT ![c] = TRUE]
    /\ node' = IF to = "closed" THEN [node EXCEPT ![c] = 0] ELSE node
    /\ st' = IF to = "closed" THEN [st EXCEPT ![c] = "uninit"] ELSE st
Finish(c) ==
    /\ Finishes(c)
    /\ callback[c] = "open" => ok[c] \/ c \in Mixer
    /\ callback[c] = "retry" => Last(node[c])
    /\ Leaves(c, IoAfter(c))
    /\ UNCHANGED <<sem, dsp, loose, faults>>

\* A process dies: its files are closed, the semaphore stays as it is.
Crash(c) ==
    /\ Holds(c) \/ pc[c] \in {"create", "setval"}
    /\ GoesWrong("crash")
    /\ Leaves(c, "closed")
    /\ UNCHANGED <<sem, dsp, loose>>

-----------------------------------------------------------------------------
Application(c) ==
    IF c \in Pcm THEN \/ OpenPcm(c) \/ Prepare(c) \/ Start(c) \/ Transfer(c)
                      \/ Pause(c) \/ Resume(c) \/ Stop(c) \/ ClosePcm(c)
    ELSE OpenMixer(c) \/ ReadMixer(c) \/ WriteMixer(c) \/ CloseMixer(c)
Runs(c) == \/ CallRefused(c) \/ CloseUnlocked(c)
           \/ GetSem(c) \/ CreateSem(c) \/ SetVal(c)
           \/ Read(c) \/ Unlock(c)
           \/ NotFree(c) \/ NextNode(c) \/ Finish(c)
Next == \/ \E n \in Node : Task(n) \/ Trails(n) \/ TrailsLate(n)
        \/ \E c \in Client : Application(c) \/ Runs(c) \/ Lock(c) \/ LockFails(c) \/ Crash(c)

Spec == Init /\ [][Next]_vars

-----------------------------------------------------------------------------
\* Types; a semaphore is 1, less the client that holds it, until somebody raises it
\* who does not hold it or a holder dies.
TypeOK ==
    /\ task \in [Node -> TaskState] /\ st \in [Client -> TaskState]
    /\ node \in [Client -> 0..Nodes]
    /\ \A c \in Client : (node[c] = 0) = (pc[c] = "idle" /\ io[c] = "closed")
    /\ \A n \in Node \ loose : sem[n] <= 1
    /\ \A n \in Node \ loose : sem[n] = 1 => \A c \in Client : node[c] = n => ~Holds(c)

\* The semaphore excludes: one client at a time is between dsp_protocol_lock_dev and
\* dsp_protocol_unlock_dev of a device.
Exclusive == \A n \in Node : Cardinality({c \in Client : node[c] = n /\ Holds(c)}) <= 1

\* Between calls a PCM knows the state of its task, refused commands and all.
StateAgrees(p) == pc[p] = "idle" /\ st[p] # "uninit" => task[node[p]] = st[p]

\* The answers of a node are the ones asked for: its semaphore excludes, and no message
\* of a PLAY has come after the flush behind it, which does not wait for one.
InStep(n) == n \in Node \ loose /\ InTime

\* A PCM that has initialised a task owns it: who finds it uninitialised initialises it
\* before the next one asks, so that no two PCMs do, and nobody else changes its state
\* between the owner's calls.  Not so once a task has refused to be initialised, which
\* dsp_protocol_open_node does not look at.
OneOwner == \A p \in Pcm : InStep(node[p]) /\ "init" \notin faults =>
                /\ \A q \in Pcm \ {p} : node[q] = node[p] => st[p] = "uninit" \/ st[q] = "uninit"
                /\ StateAgrees(p)

\* The answer a client reads is the answer to its own last command, whoever used the
\* device before and however many messages PLAY has left to be flushed.
ReadsOwn(c) == LET a == Head(outbox[node[c]]) IN a.to = c /\ a.cmd = Head(left[c])
OwnReply == [][\A c \in Client : Read(c) /\ InStep(node[c]) => ReadsOwn(c)]_vars

\* No client waits in vain: while it reads, its command or the answer is in the mailbox;
\* while it waits for the semaphore, somebody has it or is about to set it.
Waits ==
    \A c \in Client : InStep(node[c]) =>
        /\ pc[c] = "read" => \/ \E i \in 1..Len(inbox[node[c]]) : inbox[node[c]][i].from = c
                             \/ \E i \in 1..Len(outbox[node[c]]) : outbox[node[c]][i].to = c
        /\ AtLock(c) /\ sem[node[c]] = 0 /\ "crash" \notin faults =>
              \E d \in Client : node[d] = node[c] /\ (Holds(d) \/ pc[d] = "setval")
=============================================================================
