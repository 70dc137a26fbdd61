------------------------------ MODULE PulseCtl ------------------------------
(***************************************************************************)
(* The PulseAudio mixer plugin: pulse/ctl_pulse.c over pulse/pulse.c.      *)
(*                                                                         *)
(* The plugin keeps a copy of the volume and the mute switch of one sink   *)
(* and one source.  The mainloop's thread refreshes it when the server     *)
(* tells of a change; every call of the application refreshes it too, and  *)
(* a write stores into it before the server has been asked.  What differs  *)
(* from the copy becomes an event for the application.                     *)
(*                                                                         *)
(* Both threads work under the mainloop lock, which only a wait for a      *)
(* signal gives up: a step is what happens between two waits.  The server  *)
(* takes requests in order and its answers and events arrive in order.     *)
(***************************************************************************)
EXTENDS Integers, Sequences, FiniteSetsExt

CONSTANTS
  MaxVolume,     \* bound: volumes are 1 .. MaxVolume
  Touched,       \* bound: the elements anybody writes to
  MaxChanges,    \* bound: changes by other clients of the server
  MaxWrites,     \* bound: writes of the application
  MaxFailures    \* bound: writes refused and requests answered with an error

(* The elements by their keys: source volume and switch, sink volume and   *)
(* switch, in the order pulse_read_event looks for them.                   *)
Element == 0 .. 3
Volume == {0, 2}
Keys(side) == IF side = "source" THEN {0, 1} ELSE {2, 3}

ASSUME BoundsAssumption ==
  /\ MaxVolume \in Nat \ {0} /\ Touched \subseteq Element
  /\ MaxChanges \in Nat /\ MaxWrites \in Nat
  /\ MaxFailures \in Nat

Values(e) == IF e \in Volume THEN 1 .. MaxVolume ELSE {0, 1}
Unset == 0       \* of a volume: no channels yet, as calloc leaves it
Unknown == 0 - 1

VARIABLES
  ctl,       \* struct snd_ctl_pulse: copy, updated, subscribed
  ctx,       \* state of the context; "closed" after pulse_free
  call,      \* the call in progress: pc, what it does to which element, the value
  done,      \* the operation it waits for is not running any more
  awake,     \* its thread is not waiting for a signal of the mainloop
  poll,      \* the poll pipe is readable
  toServer,  \* requests under way
  toClient,  \* answers and events under way
  server,    \* the values in force
  posted,    \* the server has yet to tell of a change; it merges several into one
  told,      \* the server has taken the subscription
  view,      \* the value of each element the application believes in
  during,    \* a read: the values its element has had since the call began
  unheard,   \* the elements whose last request for information came back an error
  used       \* counters behind the bounds

link == <<toServer, toClient>>
sound == <<server, posted, told>>
history == <<view, during, unheard, used>>
vars == <<ctl, ctx, call, done, awake, poll, link, sound, history>>

Zeroed == [copy |-> [e \in Element |-> Unset], updated |-> {}, subscribed |-> FALSE]

Init ==
  /\ ctl = Zeroed
  /\ ctx = "ready" /\ poll = FALSE
  /\ call = [pc |-> "open", op |-> "open", elem |-> 0, value |-> 0]
  /\ done = FALSE /\ awake = TRUE
  /\ toServer = <<>> /\ toClient = <<>>
  /\ server = [e \in Element |-> 1]
  /\ posted = FALSE /\ told = FALSE
  /\ view = [e \in Element |-> Unknown] /\ during = {} /\ unheard = {}
  /\ used = [changes |-> 0, writes |-> 0, refusals |-> 0, errors |-> 0]

-----------------------------------------------------------------------------
(* What goes over the connection: "mine" is a request whose operation the  *)
(* application's thread waits for, or the answer to one.                   *)
InfoRequest(side, mine) == [kind |-> "info", side |-> side, mine |-> mine]
Request(kind) == [kind |-> kind, mine |-> TRUE]

(* A request, and the wait for it: pulse_wait_operation                    *)
Ask(request, q) ==
  /\ toServer' = Append(toServer, request)
  /\ call' = [call EXCEPT !.pc = q] /\ done' = FALSE /\ awake' = FALSE

Idle == [pc |-> "idle", op |-> "none", elem |-> 0, value |-> 0]
Return == call' = Idle /\ done' = FALSE /\ UNCHANGED <<awake, toServer>>

(* pulse_wait_operation has come back with 0                               *)
ReturnsUnanswered == awake                                         \* mutant
WaitReturns == awake /\ done /\ ctx = "ready"
Waited(q) == call.pc = q /\ WaitReturns

Believe(e, v) == view' = [view EXCEPT ![e] = v]

-----------------------------------------------------------------------------
(* SND_CTL_PLUGIN_DEFINE_FUNC, once connected: the names of the default    *)
(* devices where the configuration gives none, then the subscription.      *)
Open ==
  /\ call.pc = "open" /\ ctx = "ready"
  /\ Ask(Request("server"), "names") \/ Ask(Request("subscribe"), "subscribe")
  /\ UNCHANGED <<ctl, ctx, poll, toClient, sound, history>>

OpenNamed ==
  /\ Waited("names") /\ Ask(Request("subscribe"), "subscribe")
  /\ UNCHANGED <<ctl, ctx, poll, toClient, sound, history>>

OpenSubscribed ==
  /\ Waited("subscribe") /\ Return
  /\ UNCHANGED <<ctl, ctx, poll, toClient, sound, history>>

(* pulse_get_attribute, pulse_read_integer and pulse_write_integer all     *)
(* begin with pulse_update_volume.                                         *)
Begin(op, e, v) ==
  /\ call.pc = "idle" /\ ctx = "ready"
  /\ toServer' = Append(toServer, InfoRequest("sink", TRUE))
  /\ call' = [pc |-> "sink", op |-> op, elem |-> e, value |-> v]
  /\ done' = FALSE /\ awake' = FALSE /\ during' = IF op = "read" THEN {server[e]} ELSE {}
  /\ UNCHANGED <<ctl, ctx, poll, toClient, sound, view, unheard>>

GetAttribute == Begin("attribute", 0, 0) /\ UNCHANGED used
ReadInteger == \E e \in Touched : Begin("read", e, 0) /\ UNCHANGED used
WriteInteger ==
  /\ used.writes < MaxWrites
  /\ \E e \in Touched : \E v \in Values(e) : Begin("write", e, v)
  /\ used' = [used EXCEPT !.writes = @ + 1]

UpdateSource ==
  /\ Waited("sink") /\ Ask(InfoRequest("source", TRUE), "source")
  /\ UNCHANGED <<ctl, ctx, poll, toClient, sound, history>>

EndAttribute ==
  /\ Waited("source") /\ call.op = "attribute" /\ Return
  /\ UNCHANGED <<ctl, ctx, poll, toClient, sound, history>>

EndRead ==
  /\ Waited("source") /\ call.op = "read" /\ Return
  /\ Believe(call.elem, ctl.copy[call.elem]) /\ during' = {}
  /\ UNCHANGED <<ctl, ctx, poll, toClient, sound, unheard, used>>

(* The rest of pulse_write_integer.  The copy takes the value before the   *)
(* request is made; libpulse may refuse to make it (o is NULL).            *)
Writing == Waited("source") /\ call.op = "write"
Differs == ctl.copy[call.elem] # call.value
Store == ctl' = [ctl EXCEPT !.copy[call.elem] = call.value]

WriteSame ==
  /\ Writing /\ ~Differs /\ Return
  /\ Believe(call.elem, call.value)
  /\ UNCHANGED <<ctl, ctx, poll, toClient, sound, during, unheard, used>>

WriteSet ==
  /\ Writing /\ Differs /\ Store
  /\ Ask([kind |-> "set", mine |-> TRUE, elem |-> call.elem, value |-> call.value], "set")
  /\ UNCHANGED <<ctx, poll, toClient, sound, history>>

MayFail == used.refusals + used.errors < MaxFailures
Refuse == MayFail /\ used' = [used EXCEPT !.refusals = @ + 1]

WriteRefused ==
  /\ Writing /\ Differs /\ Store /\ Return /\ Refuse
  /\ UNCHANGED <<ctx, poll, toClient, sound, view, during, unheard>>

EndWrite ==
  /\ Waited("set") /\ Return /\ Believe(call.elem, call.value)
  /\ UNCHANGED <<ctl, ctx, poll, toClient, sound, during, unheard, used>>

(* Woken for another's answer: the loop of pulse_wait_operation            *)
SleepAgain ==
  /\ call.pc \notin {"open", "idle"} /\ awake /\ ~done /\ ctx = "ready"
  /\ awake' = FALSE
  /\ UNCHANGED <<ctl, ctx, call, done, poll, link, sound, history>>

(* With the connection lost there is no operation, or pulse_wait_operation *)
(* fails; while the plugin is being opened that frees everything.          *)
WaitFails ==
  /\ call.pc # "idle" /\ awake /\ ctx = "failed" /\ Return
  /\ ctx' = IF call.op = "open" THEN "closed" ELSE ctx
  /\ during' = {}
  /\ UNCHANGED <<ctl, poll, toClient, sound, view, unheard, used>>

SubscribeEvents ==
  /\ call.pc = "idle" /\ ctx # "closed"
  /\ \E b \in BOOLEAN : ctl' = [ctl EXCEPT !.subscribed = b]
  /\ UNCHANGED <<ctx, call, done, awake, poll, link, sound, history>>

(* pulse_read_event reports one element; the application then knows that   *)
(* its value of that element is old.                                       *)
ReadEvent ==
  /\ call.pc = "idle" /\ ctx = "ready" /\ ctl.subscribed /\ ctl.updated # {}
  /\ LET e == Min(ctl.updated) IN
     /\ ctl' = [ctl EXCEPT !.updated = @ \ {e}]
     /\ poll' = (poll /\ ctl.updated # {e})
     /\ Believe(e, Unknown)
  /\ UNCHANGED <<ctx, call, done, awake, link, sound, during, unheard, used>>

(* pulse_close: the mainloop is stopped, the connection dropped and all    *)
(* memory freed.                                                           *)
Close ==
  /\ call.pc = "idle" /\ ctx # "closed"
  /\ ctx' = "closed" /\ ctl' = Zeroed /\ poll' = FALSE
  /\ toServer' = <<>> /\ toClient' = <<>> /\ posted' = FALSE
  /\ view' = [e \in Element |-> Unknown]
  /\ UNCHANGED <<call, done, awake, server, told, during, unheard, used>>

-----------------------------------------------------------------------------
(* The server                                                              *)
Change(e, v) ==
  /\ server' = [server EXCEPT ![e] = v]
  /\ posted' = (posted \/ (told /\ v # server[e]))
  /\ during' = IF e = call.elem /\ call.op = "read" THEN during \cup {v} ELSE during

Answer(m) == toClient' = Append(toClient, m) /\ toServer' = Tail(toServer)
Next1 == Head(toServer)
Reached == toServer # <<>> /\ ctx = "ready"

(* The device's values, or an error, which has none                        *)
NoItem == [e \in {} |-> Unset]
InForce == [e \in Keys(Next1.side) |-> server[e]]
Info(values) ==
  [kind |-> "info", side |-> Next1.side, mine |-> Next1.mine, values |-> values]

ServeInfo ==
  /\ Reached /\ Next1.kind = "info"
  /\ \/ Answer(Info(InForce)) /\ UNCHANGED used
     \/ /\ MayFail /\ Answer(Info(NoItem))
        /\ used' = [used EXCEPT !.errors = @ + 1]
  /\ UNCHANGED <<ctl, ctx, call, done, awake, poll, sound, view, during, unheard>>

ServeSet ==
  /\ Reached /\ Next1.kind = "set" /\ Answer([kind |-> "ack", mine |-> TRUE])
  /\ \/ Change(Next1.elem, Next1.value) /\ UNCHANGED used
     \/ Refuse /\ UNCHANGED <<server, posted, during>>
  /\ UNCHANGED <<ctl, ctx, call, done, awake, poll, told, view, unheard>>

ServeOther ==
  /\ Reached /\ Next1.kind \in {"server", "subscribe"}
  /\ Answer([kind |-> "ack", mine |-> TRUE])
  /\ told' = (told \/ Next1.kind = "subscribe")
  /\ UNCHANGED <<ctl, ctx, call, done, awake, poll, server, posted, history>>

TellOfChange ==
  /\ posted /\ ctx = "ready" /\ posted' = FALSE
  /\ toClient' = Append(toClient, [kind |-> "event", mine |-> FALSE])
  /\ UNCHANGED <<ctl, ctx, call, done, awake, poll, toServer, server, told, history>>

OtherClient ==
  /\ used.changes < MaxChanges /\ ctx = "ready"
  /\ \E e \in Touched : \E v \in Values(e) \ {server[e]} : Change(e, v)
  /\ used' = [used EXCEPT !.changes = @ + 1]
  /\ UNCHANGED <<ctl, ctx, call, done, awake, poll, link, told, view, unheard>>

-----------------------------------------------------------------------------
(* The mainloop's thread                                                   *)
Arrived(kind) == toClient # <<>> /\ Head(toClient).kind = kind
Message == Head(toClient)

(* sink_info_cb and source_info_cb: the fields that differ, then, as the   *)
(* last item, the signal; libpulse marks the operation done.  On an error  *)
(* there is only the last call, with is_last < 0, and they do the same: to *)
(* whoever waits the operation is done like any other.                     *)
DifferingVolumes(values) == {e \in DOMAIN values \cap Volume : values[e] # ctl.copy[e]}  \* mutant
Differing(values) == {e \in DOMAIN values : values[e] # ctl.copy[e]}

Refreshed(changed, values) ==
  [e \in Element |-> IF e \in changed THEN values[e] ELSE ctl.copy[e]]

(* The callbacks that end an operation signal the mainloop.                *)
SignalledByInfo(m) == awake \/ m.kind = "info"                     \* mutant
Signalled(m) == TRUE

InfoCb ==
  /\ Arrived("info")
  /\ LET changed == Differing(Message.values) IN
     /\ ctl' = [ctl EXCEPT !.copy = Refreshed(changed, Message.values),
                           !.updated = @ \cup changed]
     /\ poll' = (poll \/ changed # {})
  /\ done' = (done \/ Message.mine) /\ awake' = Signalled(Message)
  /\ toClient' = Tail(toClient)
  /\ unheard' = IF Message.values = NoItem THEN unheard \cup Keys(Message.side)
                                          ELSE unheard \ Keys(Message.side)
  /\ UNCHANGED <<ctx, call, toServer, sound, view, during, used>>

(* server_info_cb and pulse_context_success_cb, which ignores "success"    *)
SuccessCb ==
  /\ Arrived("ack")
  /\ done' = TRUE /\ awake' = Signalled(Message)
  /\ toClient' = Tail(toClient)
  /\ UNCHANGED <<ctl, ctx, call, poll, toServer, sound, history>>

(* event_cb asks for both devices, whichever changed, and does not wait.   *)
EventCb ==
  /\ Arrived("event")
  /\ toServer' = toServer \o <<InfoRequest("sink", FALSE), InfoRequest("source", FALSE)>>
  /\ toClient' = Tail(toClient)
  /\ UNCHANGED <<ctl, ctx, call, done, awake, poll, sound, history>>

(* context_state_cb, the connection lost                                   *)
ContextFails ==
  /\ ctx = "ready" /\ ctx' = "failed"
  /\ poll' = TRUE /\ awake' = TRUE
  /\ toServer' = <<>> /\ toClient' = <<>> /\ posted' = FALSE
  /\ UNCHANGED <<ctl, call, done, server, told, history>>

-----------------------------------------------------------------------------
Application ==
  \/ Open \/ OpenNamed \/ OpenSubscribed
  \/ GetAttribute \/ ReadInteger \/ WriteInteger
  \/ UpdateSource \/ EndAttribute \/ EndRead
  \/ WriteSame \/ WriteSet \/ WriteRefused \/ EndWrite
  \/ SleepAgain \/ WaitFails \/ SubscribeEvents \/ ReadEvent \/ Close
Server == ServeInfo \/ ServeSet \/ ServeOther \/ TellOfChange \/ OtherClient
Mainloop == InfoCb \/ SuccessCb \/ EventCb \/ ContextFails

Next == Application \/ Server \/ Mainloop

Spec == Init /\ [][Next]_vars

-----------------------------------------------------------------------------
Quiet == toServer = <<>> /\ toClient = <<>> /\ ~posted /\ call.pc = "idle" /\ ctx = "ready"

(* Once nothing is under way, an element the application has an old value  *)
(* of is one pulse_read_event will report, and the application polling for *)
(* it is woken; whatever writes, changes by others, stale answers and      *)
(* events came before, as long as no write was refused and the last answer *)
(* about the element was not an error.                                     *)
Noticed ==
  Quiet /\ used.refusals = 0 =>
    \A e \in Element \ unheard :
      view[e] \in {Unknown, server[e]} \/ (e \in ctl.updated /\ poll)

(* What pulse_read_integer returns is a value the element has had since    *)
(* the call began: no answer to an earlier request is taken for its own.   *)
(* Not so when the last answer about the element was an error, which the   *)
(* plugin takes for success: it returns whatever copy it had.              *)
ReadFresh ==
  [][call.op = "read" /\ view' # view /\ call.elem \notin unheard
       => view'[call.elem] \in during]_vars

(* The application's thread does not sleep with its operation answered or  *)
(* the connection lost: the waits of the mainloop have no timeout.         *)
Waits ==
  ~awake => /\ ~done /\ ctx = "ready"
            /\ \E q \in {toServer, toClient} : \E i \in DOMAIN q : q[i].mine

=============================================================================
