--------------------------- MODULE DspProtocolProofs ---------------------------
(* A task of the DSP has one owner, an answer is read by the client that asked,  *)
(* and nobody waits in vain, for any number of handles, nodes and faults.  None  *)
(* of it is inductive: it takes what the semaphore counts, what a mailbox holds  *)
(* while a client is between its command and the answer, and what an owner knows *)
(* of its task meanwhile.                                                        *)
EXTENDS DspProtocol, TLAPS

PcmCall == {"open", "params", "play", "data", "pause", "stop", "close"}
MixerCall == {"probe", "get_mute", "get_volume", "set_mute", "set_volume"}
Order == {"state", "init", "mute", "volume", "panning", "params", "play", "data",
          "pause", "stop", "close"}
Message == [cmd : Order, from : Client]
Reply == [cmd : Order \cup {"data_request"}, to : Client \cup {None}, ok : BOOLEAN, status : TaskState]
Pc == {"idle", "call", "create", "setval", "lock", "read", "unlock"}
Io == {"closed", "open", "prepared", "running", "paused"}
Callback == {"none", "open", "retry", "prepare", "start", "transfer", "pause", "resume",
             "stop", "close", "read", "write"}

Typed ==
    /\ sem \in [Node -> Int] /\ task \in [Node -> TaskState]
    /\ inbox \in [Node -> Seq(Message)] /\ outbox \in [Node -> Seq(Reply)]
    /\ node \in [Client -> 0..Nodes] /\ st \in [Client -> TaskState] /\ io \in [Client -> Io]
    /\ callback \in [Client -> Callback] /\ rest \in [Client -> Seq(PcmCall \cup MixerCall)]
    /\ pc \in [Client -> Pc] /\ left \in [Client -> Seq(Order)] /\ ok \in [Client -> BOOLEAN]

\* What a client still has to send while it reads.
Lefts(f) == {Commands(f), <<Commands(f)[Len(Commands(f))]>>}

\* Where a client can be in a call.
Place(c) ==
    /\ node[c] = 0 => pc[c] = "idle" /\ io[c] = "closed"
    /\ pc[c] = "idle" => callback[c] = "none"
    /\ pc[c] = "idle" /\ io[c] = "closed" => node[c] = 0 /\ st[c] = "uninit"
    /\ pc[c] \notin {"idle", "call"} => rest[c] # <<>>
    /\ rest[c] # <<>> => Call(c) \in PcmCall \cup MixerCall
    /\ pc[c] \in {"create", "setval", "lock"} => Call(c) \in {"open", "probe"} /\ st[c] = "uninit"
    /\ pc[c] = "read" => left[c] \in Lefts(Call(c))

\* A PCM: an open that succeeded ends uninitialised no more, one that failed goes on to
\* the next node uninitialised, and until then it sends nothing but the open.
PcmPlace(p) ==
    /\ rest[p] \in Seq(PcmCall)
    /\ pc[p] = "read" => (st[p] = "uninit" <=> Call(p) = "open")
    /\ callback[p] = "open" =>
          /\ rest[p] = <<"open">> \/ (rest[p] = <<>> /\ pc[p] = "call")
          /\ st[p] # "uninit" => ok[p] /\ (pc[p] = "unlock" \/ rest[p] = <<>>)
    /\ callback[p] = "retry" =>
          st[p] = "uninit" /\ pc[p] = "call" /\ rest[p] \in {<<"close">>, <<>>}
MixerPlace(m) == rest[m] \in Seq(MixerCall) /\ callback[m] # "retry"

\* The semaphore of a node: 1, less the one client that holds it.
At(n) == {c \in Client : node[c] = n}
LockSound(n) ==
    /\ sem[n] \in {None, 0, 1}
    /\ \A c, d \in At(n) : Holds(c) /\ Holds(d) => c = d
    /\ \A c \in At(n) : Holds(c) => sem[n] = 0
Attended(n) ==
    sem[n] = 0 /\ "crash" \notin faults => \E d \in At(n) : Holds(d) \/ pc[d] = "setval"

\* The mailbox of a node: empty, but for one command or the answers to it while a
\* client reads, or for what a client has left that died.
Clean(n) == inbox[n] = <<>> /\ outbox[n] = <<>>
Asked(c, n) == inbox[n] = <<[cmd |-> left[c][1], from |-> c]>> /\ outbox[n] = <<>>
Answered(c, n) ==
    /\ inbox[n] = <<>> /\ outbox[n] # <<>>
    /\ outbox[n][1].to = c /\ outbox[n][1].cmd = left[c][1]
    /\ outbox[n][1].status = task[n]
    /\ left[c][1] # "play" => Tail(outbox[n]) = <<>>
    /\ left[c][1] = "init" /\ "init" \notin faults => task[n] = "init"
Mail(n) ==
    /\ inbox[n] = <<>> \/ inbox[n] = <<inbox[n][1]>>
    /\ sem[n] # 0 => Clean(n)
    /\ "crash" \notin faults => Clean(n) \/ \E c \in At(n) : pc[c] = "read"
    /\ \A c \in At(n) : pc[c] = "unlock" => Clean(n)
    /\ \A c \in At(n) : pc[c] = "read" => Asked(c, n) \/ Answered(c, n)

\* What an owner knows of its task, and what others may ask of it.
Neutral == {"state", "mute", "volume", "panning", "params", "data"}
Known(p, n) ==
    /\ pc[p] # "read" => task[n] = st[p] /\ (inbox[n] # <<>> => inbox[n][1].cmd \in Neutral)
    /\ pc[p] = "read" /\ inbox[n] # <<>> => task[n] = st[p]
    /\ pc[p] = "read" /\ outbox[n] # <<>> =>
          task[n] = IF outbox[n][1].ok THEN After(left[p][1], st[p]) ELSE st[p]
Sole(p, n) ==
    \A q \in Pcm \ {p} : node[q] = n => st[q] = "uninit" /\ (pc[q] = "read" => left[q][1] = "state")
Owns(p, n) == node[p] = n /\ st[p] # "uninit"

NodeInv(n) ==
    /\ LockSound(n) /\ Attended(n) /\ Mail(n)
    /\ "init" \notin faults => \A p \in Pcm : Owns(p, n) => Known(p, n) /\ Sole(p, n)

Places == /\ \A c \in Client : Place(c)
          /\ \A p \in Pcm : PcmPlace(p)
          /\ \A m \in Mixer : MixerPlace(m)

\* The nodes whose answers are the ones asked for.
Steady == {n \in Node : InStep(n)}

IInv == Typed /\ Places /\ \A n \in Steady : NodeInv(n)

-----------------------------------------------------------------------------
\* Sequences of one.
LEMMA Singles ==
    ASSUME NEW S, NEW x \in S
    PROVE  /\ <<x>> \in Seq(S) /\ <<x>> # <<>> /\ <<x>>[1] = x /\ Head(<<x>>) = x /\ Tail(<<x>>) = <<>>
           /\ Append(<<>>, x) = <<x>> /\ Len(<<x>>) = 1
    OBVIOUS

LEMMA FirstStays ==
    ASSUME NEW S, NEW s \in Seq(S), s # <<>>, NEW x \in S
    PROVE  Append(s, x) # <<>> /\ Append(s, x)[1] = s[1]
    OBVIOUS

LEMMA HeadTail ==
    ASSUME NEW S, NEW s \in Seq(S), s # <<>>
    PROVE  Head(s) = s[1] /\ s[1] \in S /\ Tail(s) \in Seq(S) /\ Len(s) >= 1
    OBVIOUS

\* What the commands of a function can be.
LEMMA LeftOf ==
    ASSUME NEW f \in PcmCall \cup MixerCall, NEW l \in Lefts(f)
    PROVE  /\ l \in Seq(Order) /\ l # <<>> /\ l[1] \in Order
           /\ Len(l) = 1 \/ (Len(l) = 2 /\ <<l[2]>> \in Lefts(f) /\ Tail(l) = <<l[2]>> /\ l[2] \in Order)
           /\ l[1] = "play" <=> f = "play"
           /\ f = "open" => \/ Len(l) = 2 /\ l[1] = "state" /\ l[2] = "init"
                            \/ Len(l) = 1 /\ l[1] = "init"
           /\ f # "open" /\ Len(l) = 2 => f = "set_volume"
           /\ f # "open" => l[1] # "init"
           /\ f \in PcmCall \ {"open"} => l[1] = f
           /\ f \in MixerCall => \A i \in 1..Len(l) : l[i] \in Neutral
  <1> USE DEF Lefts, Commands, Order, Neutral
  <1>1. CASE f = "open"
    <2>1. l = <<"state", "init">> \/ l = <<"init">>
      BY <1>1
    <2>2. <<"init">> \in Lefts(f) /\ f \notin MixerCall
      BY <1>1 DEF MixerCall
    <2> HIDE DEF Lefts, Commands
    <2>3. l = <<"state", "init">> => l # <<>> /\ Len(l) = 2 /\ l[1] = "state" /\ l[2] = "init" /\ Tail(l) = <<l[2]>>
      OBVIOUS
    <2>4. l = <<"init">> => l # <<>> /\ Len(l) = 1 /\ l[1] = "init"
      OBVIOUS
    <2>5. {<<"state", "init">>, <<"init">>} \subseteq Seq(Order)
      OBVIOUS
    <2>6. l \in Seq(Order) /\ l # <<>>
      BY <2>1, <2>3, <2>4, <2>5
    <2> QED
      BY <1>1, <2>1, <2>2, <2>3, <2>4, <2>6
  <1>2. CASE f \in {"probe", "get_mute", "get_volume"}
    <2>1. l = <<"state">> /\ f \notin PcmCall
      BY <1>2 DEF PcmCall
    <2> QED
      BY <1>2, <2>1
  <1>3. CASE f = "set_mute"
    <2>1. l = <<"mute">>
      BY <1>3
    <2> QED
      BY <1>3, <2>1 DEF PcmCall
  <1>4. CASE f = "set_volume"
    <2>1. l = <<"volume", "panning">> \/ l = <<"panning">>
      BY <1>4
    <2>2. <<"panning">> \in Lefts(f) /\ f \notin PcmCall
      BY <1>4 DEF PcmCall
    <2> HIDE DEF Lefts, Commands
    <2>3. l = <<"volume", "panning">> => l # <<>> /\ Len(l) = 2 /\ l[1] = "volume" /\ l[2] = "panning" /\ Tail(l) = <<l[2]>>
      OBVIOUS
    <2>4. l = <<"panning">> => l # <<>> /\ Len(l) = 1 /\ l[1] = "panning"
      OBVIOUS
    <2>5. {<<"volume", "panning">>, <<"panning">>} \subseteq Seq(Order)
      OBVIOUS
    <2>6. l \in Seq(Order) /\ l # <<>>
      BY <2>1, <2>3, <2>4, <2>5
    <2> QED
      BY <1>4, <2>1, <2>2, <2>3, <2>4, <2>6
  <1>5. CASE f \in PcmCall \ {"open"}
    <2>1. l = <<f>>
      BY <1>5 DEF PcmCall
    <2> QED
      BY <1>5, <2>1 DEF PcmCall, MixerCall
  <1> QED
    BY <1>1, <1>2, <1>3, <1>4, <1>5 DEF PcmCall, MixerCall

-----------------------------------------------------------------------------
\* What an action of one client leaves alone.
Same(d) ==
    /\ node'[d] = node[d] /\ st'[d] = st[d] /\ io'[d] = io[d]
    /\ callback'[d] = callback[d] /\ rest'[d] = rest[d]
    /\ pc'[d] = pc[d] /\ left'[d] = left[d] /\ ok'[d] = ok[d]
Others(c) == \A d \in Client \ {c} : Same(d)

LEMMA PlacesFrame ==
    ASSUME Places, NEW c \in Client, Others(c),
           Place(c)', c \in Pcm => PcmPlace(c)', c \in Mixer => MixerPlace(c)'
    PROVE  Places'
  <1>1. ASSUME NEW d \in Client PROVE Place(d)'
    BY <1>1 DEF Others, Same, Places, Place, Call
  <1>2. ASSUME NEW p \in Pcm PROVE PcmPlace(p)'
    BY <1>2 DEF Others, Same, Places, PcmPlace, Call, Client
  <1>3. ASSUME NEW m \in Mixer PROVE MixerPlace(m)'
    BY <1>3 DEF Others, Same, Places, MixerPlace, Client
  <1> QED
    BY <1>1, <1>2, <1>3 DEF Places

\* A client that neither holds a semaphore nor is about to set one changes nothing
\* that the others rely on.
Quiet(c) ==
    /\ pc[c] \notin {"setval", "read", "unlock"} /\ pc'[c] \notin {"setval", "read", "unlock"}
    /\ (node'[c] = node[c] /\ st'[c] = st[c]) \/ st'[c] = "uninit"

LEMMA SteadyStays ==
    ASSUME loose \subseteq loose', faults \subseteq faults'
    PROVE  \A n \in Steady' : n \in Steady /\ n \in Node /\ n \notin loose'
  BY DEF Steady, InStep, InTime, Node

LEMMA SteadyNodes ==
    ASSUME IInv, loose \subseteq loose', faults \subseteq faults'
    PROVE  \A n \in Steady' : n \in Steady /\ n \in Node /\ n \notin loose /\ NodeInv(n)
  BY SteadyStays DEF IInv

LEMMA QuietStep ==
    ASSUME \A n \in Steady : NodeInv(n), NEW c \in Client, Others(c), Quiet(c),
           loose \subseteq loose', \A n \in Steady' : sem'[n] = sem[n],
           UNCHANGED dsp, faults \subseteq faults', "crash" \in faults' => "crash" \in faults
    PROVE  \A n \in Steady' : NodeInv(n)'
  <1> SUFFICES ASSUME NEW n \in Steady' PROVE NodeInv(n)'
    OBVIOUS
  <1>1. NodeInv(n)
    BY SteadyStays
  <1>2. \A d \in Client : \/ pc'[d] = pc[d] /\ (node'[d] = n <=> node[d] = n) /\ left'[d] = left[d] /\ d # c
                          \/ d = c
    BY DEF Others, Same
  <1>3. \A d \in Client : Holds(d) /\ d \in At(n) <=> (Holds(d) /\ d \in At(n))'
    BY <1>2 DEF Holds, At, Quiet
  <1>4. sem'[n] = sem[n] /\ task' = task /\ inbox' = inbox /\ outbox' = outbox
    BY DEF dsp
  <1>5. LockSound(n)'
    BY <1>1, <1>2, <1>3, <1>4 DEF NodeInv, LockSound, At
  <1>6. Attended(n)'
    BY <1>1, <1>2, <1>3, <1>4 DEF NodeInv, Attended, At, Quiet
  <1>7. Mail(n)'
    BY <1>1, <1>2, <1>4 DEF NodeInv, Mail, At, Quiet, Clean, Asked, Answered
  <1>8. ASSUME NEW p \in Pcm, Owns(p, n)', "init" \notin faults' PROVE Known(p, n)' /\ Sole(p, n)'
    <2>1. p \in Client /\ Owns(p, n) /\ st'[p] = st[p] /\ (pc'[p] = "read" <=> pc[p] = "read")
      BY <1>8 DEF Owns, Quiet, Others, Same, Client
    <2>2. Known(p, n) /\ Sole(p, n)
      BY <1>1, <1>8, <2>1 DEF NodeInv
    <2>3. pc[p] = "read" => left'[p] = left[p]
      BY <1>2, <2>1 DEF Quiet
    <2>4. Known(p, n)'
      BY <1>4, <2>1, <2>2, <2>3 DEF Known
    <2>5. Sole(p, n)'
      BY <2>1, <2>2 DEF Sole, Quiet, Others, Same, Client
    <2> QED
      BY <2>4, <2>5
  <1> QED
    BY <1>5, <1>6, <1>7, <1>8 DEF NodeInv

-----------------------------------------------------------------------------
LEMMA InitInv == Init => IInv
  <1> SUFFICES ASSUME Init PROVE IInv
    OBVIOUS
  <1>1. Typed
    BY SizesAssumption DEF Init, Typed, Node, None, TaskState, Io, Callback, Pc
  <1>2. Places
    BY DEF Init, Places, Place, PcmPlace, MixerPlace, Client
  <1>3. ASSUME NEW n \in Node PROVE NodeInv(n)
    <2>1. At(n) = {}
      BY SizesAssumption DEF Init, At, Node
    <2>2. sem[n] \in {None, 1} /\ Clean(n)
      BY SizesAssumption DEF Init, Clean
    <2> QED
      BY <2>1, <2>2 DEF Init, NodeInv, LockSound, Attended, Mail, Clean, Owns, Client, None, Node
  <1> QED
    BY <1>1, <1>2, <1>3 DEF IInv, Steady

LEMMA BeginStep ==
    ASSUME IInv, NEW c \in Client, NEW n \in Node, NEW name \in Callback \ {"none", "retry"},
           NEW calls, On(c, n, name, calls),
           calls \in Seq(IF c \in Pcm THEN PcmCall ELSE MixerCall),
           n = node[c] \/ st[c] = "uninit",
           c \in Pcm /\ name = "open" => calls = <<"open">> /\ st[c] = "uninit"
    PROVE  IInv'
  <1>1. calls \in Seq(PcmCall \cup MixerCall)
    OBVIOUS
  <1>2. Typed'
    BY <1>1 DEF On, IInv, Typed, dsp, Pc, Node
  <1>3. pc[c] = "idle" /\ pc'[c] = "call" /\ Others(c) /\ rest'[c] = calls
    BY DEF On, IInv, Typed, Others, Same
  <1>4. Places'
    <2>1. Place(c)'
      BY <1>1, <1>2, <1>3 DEF On, IInv, Typed, Place, Node, Call
    <2>2. c \in Pcm => PcmPlace(c)'
      BY <1>3 DEF On, IInv, Typed, PcmPlace
    <2>3. c \in Mixer => MixerPlace(c)'
      BY <1>3, SizesAssumption DEF On, IInv, Typed, MixerPlace
    <2> QED
      BY <1>3, <2>1, <2>2, <2>3, PlacesFrame DEF IInv
  <1>5. Quiet(c)
    BY <1>3 DEF On, IInv, Typed, Quiet
  <1> QED
    BY <1>2, <1>3, <1>4, <1>5, QuietStep DEF IInv, On

LEMMA ApplicationInv ==
    ASSUME IInv, NEW c \in Client, Application(c)
    PROVE  IInv'
  <1>1. node[c] = 0 => io[c] = "closed"
    BY DEF IInv, Places, Place
  <1>2. io[c] # "closed" => node[c] \in Node
    BY <1>1, SizesAssumption DEF IInv, Typed, Node, Places, Place
  <1>3. ASSUME io[c] = "closed", pc[c] = "idle" PROVE st[c] = "uninit"
    BY <1>3 DEF IInv, Places, Place
  <1>4. 1 \in Node
    BY SizesAssumption DEF Node
  <1>5. CASE c \in Pcm
    <2> DEFINE Calls1(n, name, calls) ==
          /\ On(c, n, name, calls) /\ n \in Node /\ name \in Callback \ {"none", "retry"}
          /\ calls \in Seq(PcmCall) /\ (n = node[c] \/ st[c] = "uninit")
          /\ name = "open" => calls = <<"open">> /\ st[c] = "uninit"
    <2>1. \A f, g, h \in PcmCall : <<f>> \in Seq(PcmCall) /\ <<f, g>> \in Seq(PcmCall) /\ <<f, g, h>> \in Seq(PcmCall)
      OBVIOUS
    <2>2. \E n \in Node, name \in Callback \ {"none", "retry"} : \E calls : Calls1(n, name, calls)
      <3>1. CASE OpenPcm(c)
        <4>1. Calls1(1, "open", <<"open">>)
          BY <1>3, <1>4, <2>1, <3>1 DEF OpenPcm, On, PcmCall, Callback
        <4> QED
          BY <1>4, <4>1 DEF Callback
      <3> DEFINE Begins(name, calls) == Calls1(node[c], name, calls)
      <3>2. CASE Prepare(c)
        <4>1. Begins("prepare", IF st[c] = "init" THEN <<"params">> ELSE <<"close", "open", "params">>)
          BY <1>2, <2>1, <3>2 DEF Prepare, Begin, PcmCall, Callback
        <4> QED
          BY <1>2, <4>1 DEF Callback
      <3>3. CASE Start(c)
        <4>1. Begins("start", <<"play">>)
          BY <1>2, <2>1, <3>3 DEF Start, Begin, PcmCall, Callback
        <4> QED
          BY <1>2, <4>1 DEF Callback
      <3>4. CASE Transfer(c)
        <4>1. Begins("transfer", IF st[c] = "playing" THEN <<"data">> ELSE <<"play", "data">>)
          BY <1>2, <2>1, <3>4 DEF Transfer, Begin, PcmCall, Callback
        <4> QED
          BY <1>2, <4>1 DEF Callback
      <3>5. CASE Pause(c)
        <4>1. Begins("pause", <<"pause">>)
          BY <1>2, <2>1, <3>5 DEF Pause, Begin, PcmCall, Callback
        <4> QED
          BY <1>2, <4>1 DEF Callback
      <3>6. CASE Resume(c)
        <4>1. Begins("resume", <<"play">>)
          BY <1>2, <2>1, <3>6 DEF Resume, Begin, PcmCall, Callback
        <4> QED
          BY <1>2, <4>1 DEF Callback
      <3>7. CASE Stop(c)
        <4>1. Begins("stop", <<"stop">>)
          BY <1>2, <2>1, <3>7 DEF Stop, Begin, PcmCall, Callback
        <4> QED
          BY <1>2, <4>1 DEF Callback
      <3>8. CASE ClosePcm(c)
        <4>1. Begins("close", <<"close">>)
          BY <1>2, <2>1, <3>8 DEF ClosePcm, Begin, PcmCall, Callback
        <4> QED
          BY <1>2, <4>1 DEF Callback
      <3> QED
        BY <1>5, <3>1, <3>2, <3>3, <3>4, <3>5, <3>6, <3>7, <3>8 DEF Application
    <2> QED
      BY <1>5, <2>2, BeginStep
  <1>6. CASE c \notin Pcm
    <2>1. \A f, g \in MixerCall : <<>> \in Seq(MixerCall) /\ <<f>> \in Seq(MixerCall) /\ <<f, g>> \in Seq(MixerCall)
      OBVIOUS
    <2>2. ASSUME NEW n \in Node, n = node[c] \/ st[c] = "uninit",
                 NEW name \in {"open", "read", "write", "close"}, NEW calls \in Seq(MixerCall),
                 On(c, n, name, calls)
          PROVE  IInv'
      <3>1. name \in Callback \ {"none", "retry"}
        BY DEF Callback
      <3> QED
        BY <1>6, <2>2, <3>1, BeginStep
    <2>3. CASE OpenMixer(c)
      <3>1. PICK n \in Node : On(c, n, "open", <<"probe">>)
        BY <2>3 DEF OpenMixer
      <3> QED
        BY <1>3, <2>1, <2>2, <2>3, <3>1 DEF OpenMixer, On, MixerCall
    <2>4. CASE ReadMixer(c)
      <3>1. PICK get \in {"get_mute", "get_volume"} : On(c, node[c], "read", <<get>>)
        BY <2>4 DEF ReadMixer, Begin
      <3> QED
        BY <1>2, <2>1, <2>2, <2>4, <3>1 DEF ReadMixer, MixerCall
    <2>5. CASE WriteMixer(c)
      <3>1. PICK calls \in {<<"get_mute">>, <<"get_mute", "set_mute">>, <<"get_volume", "set_volume">>} :
                On(c, node[c], "write", calls)
        BY <2>5 DEF WriteMixer, Begin
      <3>2. calls \in Seq(MixerCall)
        BY <2>1 DEF MixerCall
      <3> QED
        BY <1>2, <2>2, <2>5, <3>1, <3>2 DEF WriteMixer
    <2>6. CASE CloseMixer(c)
      BY <1>2, <2>1, <2>2, <2>6 DEF CloseMixer, Begin, MixerCall
    <2> QED
      BY <1>6, <2>3, <2>4, <2>5, <2>6 DEF Application
  <1> QED
    BY <1>5, <1>6

-----------------------------------------------------------------------------
\* A function of dsp_protocol has returned.
LEMMA ReturnedRest ==
    ASSUME IInv, NEW c \in Client, rest[c] # <<>>, NEW good \in BOOLEAN, Returned(c, good)
    PROVE  /\ rest' \in [Client -> Seq(PcmCall \cup MixerCall)] /\ ok' \in [Client -> BOOLEAN]
           /\ pc' \in [Client -> Pc] /\ pc'[c] = "call" /\ ok'[c] = good
           /\ \A d \in Client \ {c} : rest'[d] = rest[d] /\ pc'[d] = pc[d] /\ ok'[d] = ok[d]
           /\ \A S : rest[c] \in Seq(S) => rest'[c] \in Seq(S)
           /\ rest'[c] # <<>> => Call(c)' \in PcmCall \cup MixerCall
           /\ rest'[c] = Tail(rest[c]) \/ rest'[c] = <<>>
  <1>1. rest \in [Client -> Seq(PcmCall \cup MixerCall)] /\ pc \in [Client -> Pc] /\ ok \in [Client -> BOOLEAN]
    BY DEF IInv, Typed
  <1>2. \A S : rest[c] \in Seq(S) => Tail(rest[c]) \in Seq(S)
    BY HeadTail
  <1>3. rest'[c] = Tail(rest[c]) \/ rest'[c] = <<>>
    BY <1>1 DEF Returned
  <1>4. \A S : rest[c] \in Seq(S) => rest'[c] \in Seq(S)
    <2> TAKE S
    <2> HAVE rest[c] \in Seq(S)
    <2>1. Tail(rest[c]) \in Seq(S) /\ <<>> \in Seq(S)
      BY <1>2
    <2> QED
      BY <1>3, <2>1
  <1>5. rest'[c] # <<>> => Call(c)' \in PcmCall \cup MixerCall
    BY <1>1, <1>4, HeadTail DEF Call
  <1> QED
    BY <1>1, <1>3, <1>4, <1>5 DEF Returned, Pc

\* Where that leaves a client whose state it did not change, or that had it initialised.
LEMMA ReturnedPlaces ==
    ASSUME IInv, NEW c \in Client, rest[c] # <<>>, NEW good \in BOOLEAN, Returned(c, good),
           UNCHANGED <<handle, callback, left>>, pc[c] # "idle",
           c \in Pcm /\ callback[c] = "open" /\ st[c] # "uninit" => good
    PROVE  Typed' => Places' /\ Others(c)
  <1> SUFFICES ASSUME Typed' PROVE Places' /\ Others(c)
    OBVIOUS
  <1> USE DEF handle
  <1>1. Others(c)
    BY ReturnedRest DEF Others, Same
  <1>2. Place(c)'
    BY ReturnedRest DEF IInv, Places, Place
  <1>3. ASSUME c \in Pcm PROVE PcmPlace(c)'
    <2>1. PcmPlace(c)
      BY <1>3 DEF IInv, Places
    <2>2. rest'[c] \in Seq(PcmCall) /\ pc'[c] = "call"
      BY <2>1, ReturnedRest DEF PcmPlace
    <2>3. CASE callback[c] = "open"
      <3>1. rest[c] = <<"open">>
        BY <2>1, <2>3 DEF PcmPlace
      <3>2. Tail(<<"open">>) = <<>>
        OBVIOUS
      <3>3. rest'[c] = <<>>
        BY <3>1, <3>2, ReturnedRest
      <3> QED
        BY <1>3, <2>2, <2>3, <3>3, ReturnedRest DEF PcmPlace
    <2>4. CASE callback[c] = "retry"
      <3>1. rest[c] = <<"close">> /\ st[c] = "uninit"
        BY <2>1, <2>4 DEF PcmPlace
      <3>2. Tail(<<"close">>) = <<>>
        OBVIOUS
      <3>3. rest'[c] = <<>>
        BY <3>1, <3>2, ReturnedRest
      <3> QED
        BY <2>2, <2>4, <3>1, <3>3 DEF PcmPlace
    <2> QED
      BY <2>2, <2>3, <2>4 DEF PcmPlace
  <1>4. ASSUME c \in Mixer PROVE MixerPlace(c)'
    BY <1>4, ReturnedRest DEF IInv, Places, MixerPlace
  <1> QED
    BY <1>1, <1>2, <1>3, <1>4, PlacesFrame DEF IInv

\* The calls that return without having held the semaphore.
LEMMA UnlockedReturns ==
    ASSUME IInv, NEW c \in Client, CallRefused(c) \/ CloseUnlocked(c) \/ LockFails(c)
    PROVE  IInv'
  <1>1. rest[c] # <<>> /\ pc[c] \in {"call", "lock"}
    BY DEF CallRefused, CloseUnlocked, LockFails, AtLock, Calls, IInv, Places, Place
  <1>2. UNCHANGED <<dsp, handle, callback, left>>
    BY DEF CallRefused, CloseUnlocked, LockFails
  <1>3. \E good \in BOOLEAN : Returned(c, good) /\ (c \in Pcm /\ callback[c] = "open" /\ st[c] # "uninit" => good)
    <2>1. c \in Pcm /\ callback[c] = "open" /\ st[c] # "uninit" => FALSE
      <3>1. c \in Pcm => PcmPlace(c)
        BY DEF IInv, Places
      <3> QED
        BY <1>1, <3>1 DEF PcmPlace
    <2> QED
      BY <2>1 DEF CallRefused, CloseUnlocked, LockFails
  <1>4. PICK good \in BOOLEAN :
            Returned(c, good) /\ (c \in Pcm /\ callback[c] = "open" /\ st[c] # "uninit" => good)
    BY <1>3
  <1>5. Typed'
    <2>1. sem' \in [Node -> Int]
      <3>1. node[c] # 0 => sem[node[c]] + 1 \in Int
        BY SizesAssumption DEF IInv, Typed, Node
      <3>2. node[c] # 0
        BY <1>1 DEF IInv, Places, Place
      <3> QED
        BY <3>1, <3>2 DEF CallRefused, CloseUnlocked, LockFails, IInv, Typed
    <2> QED
      BY <1>1, <1>2, <1>4, <2>1, ReturnedRest DEF IInv, Typed, dsp, handle
  <1>6. Places' /\ Others(c)
    BY <1>1, <1>2, <1>4, <1>5, ReturnedPlaces
  <1>7. Quiet(c)
    BY <1>1, <1>2, <1>4, ReturnedRest DEF Quiet, handle
  <1>8. loose \subseteq loose' /\ \A n \in Steady' : sem'[n] = sem[n]
    <2>1. CASE CloseUnlocked(c)
      <3>1. loose' = loose \cup {node[c]} /\ \A n \in Node \ {node[c]} : sem'[n] = sem[n]
        BY <2>1 DEF CloseUnlocked, IInv, Typed
      <3> QED
        BY <3>1 DEF Steady, InStep
    <2> QED
      BY <2>1 DEF CallRefused, LockFails
  <1>9. faults \subseteq faults' /\ ("crash" \in faults' => "crash" \in faults)
    BY DEF CallRefused, CloseUnlocked, LockFails, GoesWrong
  <1> QED
    BY <1>2, <1>5, <1>6, <1>7, <1>8, <1>9, QuietStep DEF IInv

LEMMA GetSemInv ==
    ASSUME IInv, NEW c \in Client, GetSem(c)
    PROVE  IInv'
  <1>1. pc[c] = "call" /\ rest[c] # <<>> /\ Call(c) \in {"open", "probe"} /\ st[c] = "uninit"
    BY DEF GetSem, Calls, Refused
  <1>2. pc' \in [Client -> Pc] /\ pc'[c] \in {"create", "lock"} /\ Others(c)
    BY DEF GetSem, IInv, Typed, Pc, Others, Same, handle
  <1>3. Typed'
    BY <1>2 DEF GetSem, IInv, Typed, dsp, handle
  <1>4. Places'
    <2>1. Place(c)'
      BY <1>1, <1>2 DEF GetSem, IInv, Places, Place, Call, handle
    <2>2. c \in Pcm => PcmPlace(c)'
      <3>1. rest[c] # <<"close">>
        BY <1>1 DEF Call
      <3> QED
        BY <1>1, <1>2, <3>1 DEF GetSem, IInv, Places, PcmPlace, handle
    <2>3. c \in Mixer => MixerPlace(c)'
      BY DEF GetSem, IInv, Places, MixerPlace
    <2> QED
      BY <1>2, <2>1, <2>2, <2>3, PlacesFrame DEF IInv
  <1>5. Quiet(c)
    BY <1>1, <1>2 DEF GetSem, Quiet, handle
  <1> QED
    BY <1>2, <1>3, <1>4, <1>5, QuietStep DEF IInv, GetSem

\* alsa_dsp_open_dsp_task
LEMMA NextNodeInv ==
    ASSUME IInv, NEW c \in Client, NotFree(c) \/ NextNode(c)
    PROVE  IInv'
  <1>1. pc[c] = "call" /\ rest[c] = <<>> /\ pc' = pc /\ st' = st /\ io' = io /\ left' = left /\ ok' = ok
    BY DEF NotFree, NextNode, Finishes, handle
  <1>2. c \in Pcm \/ NextNode(c)
    BY DEF NotFree
  <1>3. callback' \in [Client -> Callback] /\ callback'[c] \in {"open", "retry"}
    BY DEF NotFree, NextNode, IInv, Typed, Callback
  <1>4. node' \in [Client -> 0..Nodes] /\ node'[c] # 0 /\ Others(c)
    <2>1. node \in [Client -> 0..Nodes] /\ node[c] # 0
      BY <1>1 DEF IInv, Typed, Places, Place
    <2>2. CASE NotFree(c)
      BY <2>1, <2>2 DEF NotFree, Others, Same, IInv, Typed, handle
    <2>3. CASE NextNode(c)
      <3>1. node[c] \in 0..Nodes /\ node[c] # Nodes
        BY <2>1, <2>3 DEF NextNode, Last
      <3>2. node[c] + 1 \in 0..Nodes /\ node[c] + 1 # 0
        BY <3>1, SizesAssumption
      <3> QED
        BY <2>1, <2>3, <3>2 DEF NextNode, Others, Same, IInv, Typed, handle
    <2> QED
      BY <2>2, <2>3
  <1>5. rest'[c] \in {<<"open">>, <<"close">>} /\ rest' \in [Client -> Seq(PcmCall \cup MixerCall)]
        /\ rest'[c] \in Seq(PcmCall)
    <2>1. <<"open">> \in Seq(PcmCall) /\ <<"close">> \in Seq(PcmCall)
      BY DEF PcmCall
    <2>2. \A s \in Seq(PcmCall) : s \in Seq(PcmCall \cup MixerCall)
      OBVIOUS
    <2> QED
      BY <2>1, <2>2 DEF NotFree, NextNode, IInv, Typed
  <1>6. Typed'
    BY <1>1, <1>3, <1>4, <1>5 DEF NotFree, NextNode, IInv, Typed, dsp, handle
  <1>7. c \in Pcm => st[c] = "uninit"
    <2>1. c \in Pcm => PcmPlace(c)
      BY DEF IInv, Places
    <2> QED
      BY <1>1, <2>1 DEF NotFree, NextNode, Finishes, PcmPlace
  <1>8. c \in Pcm
    BY <1>2 DEF NextNode, IInv, Places, MixerPlace, Client
  <1>9. Places'
    <2>1. rest'[c][1] \in {"open", "close"}
      BY <1>5
    <2>2. Place(c)'
      BY <1>1, <1>4, <2>1 DEF Place, Call, PcmCall
    <2>3. PcmPlace(c)'
      <3>1. (callback'[c] = "open" /\ rest'[c] = <<"open">>) \/ (callback'[c] = "retry" /\ rest'[c] = <<"close">>)
        BY DEF NotFree, NextNode, IInv, Typed
      <3>2. pc'[c] = "call" /\ st'[c] = "uninit" /\ rest'[c] \in Seq(PcmCall)
        BY <1>1, <1>5, <1>7, <1>8
      <3> QED
        BY <3>1, <3>2 DEF PcmPlace
    <2>4. c \notin Mixer
      BY <1>8, SizesAssumption
    <2> QED
      BY <1>4, <2>2, <2>3, <2>4, PlacesFrame DEF IInv
  <1>10. Quiet(c)
    BY <1>1, <1>7, <1>8 DEF Quiet
  <1> QED
    BY <1>4, <1>6, <1>9, <1>10, QuietStep DEF IInv, NotFree, NextNode, dsp

\* The callback returns, or its process dies.
LEMMA LeavesPlaces ==
    ASSUME IInv, NEW c \in Client, pc[c] # "idle", NEW to \in Io, Leaves(c, to), UNCHANGED <<sem, dsp>>
    PROVE  /\ Typed' /\ Places' /\ Others(c) /\ pc'[c] = "idle"
           /\ (node'[c] = node[c] /\ st'[c] = st[c]) \/ (node'[c] = 0 /\ st'[c] = "uninit")
  <1>1. Typed'
    <2>1. node' \in [Client -> 0..Nodes] /\ st' \in [Client -> TaskState]
      BY SizesAssumption DEF Leaves, IInv, Typed, TaskState
    <2>2. <<>> \in Seq(Order) /\ <<>> \in Seq(PcmCall \cup MixerCall)
      OBVIOUS
    <2> QED
      BY <2>1, <2>2 DEF Leaves, IInv, Typed, dsp, Pc, Callback
  <1>2. /\ pc'[c] = "idle" /\ callback'[c] = "none" /\ rest'[c] = <<>> /\ io'[c] = to
        /\ node'[c] = (IF to = "closed" THEN 0 ELSE node[c])
        /\ st'[c] = (IF to = "closed" THEN "uninit" ELSE st[c])
    BY DEF Leaves, IInv, Typed
  <1>3. Others(c)
    BY DEF Leaves, IInv, Typed, Others, Same
  <1>4. Places'
    <2>1. node'[c] = 0 => to = "closed"
      BY <1>2 DEF IInv, Places, Place
    <2>2. Place(c)'
      BY <1>2, <2>1 DEF Place
    <2>3. <<>> \in Seq(PcmCall) /\ <<>> \in Seq(MixerCall)
      OBVIOUS
    <2>4. PcmPlace(c)' /\ MixerPlace(c)'
      BY <1>2, <2>3 DEF PcmPlace, MixerPlace
    <2> QED
      BY <1>3, <2>2, <2>4, PlacesFrame DEF IInv
  <1> QED
    BY <1>1, <1>2, <1>3, <1>4

LEMMA FinishInv ==
    ASSUME IInv, NEW c \in Client, Finish(c)
    PROVE  IInv'
  <1>1. IoAfter(c) \in Io
    BY DEF IoAfter, Io, IInv, Typed
  <1>2. pc[c] = "call" /\ UNCHANGED <<sem, dsp, loose, faults>>
    BY DEF Finish, Finishes
  <1>3. Typed' /\ Places' /\ Others(c) /\ Quiet(c)
    BY <1>1, <1>2, LeavesPlaces DEF Finish, Quiet
  <1> QED
    BY <1>2, <1>3, QuietStep DEF IInv

-----------------------------------------------------------------------------
LEMMA InCall ==
    ASSUME IInv, NEW c \in Client, pc[c] # "idle"
    PROVE  node[c] \in Node /\ sem[node[c]] \in Int
  <1>1. node[c] \in 0..Nodes /\ node[c] # 0
    BY DEF IInv, Typed, Places, Place
  <1> QED
    BY <1>1, SizesAssumption DEF Node, IInv, Typed

\* A node the acting client has not opened.
LEMMA Elsewhere ==
    ASSUME NEW n \in Node, NodeInv(n), NEW c \in Client, Others(c), node[c] # n, node'[c] # n,
           sem'[n] = sem[n], task'[n] = task[n], inbox'[n] = inbox[n], outbox'[n] = outbox[n],
           faults \subseteq faults'
    PROVE  NodeInv(n)'
  <1>1. At(n)' = At(n)
    BY DEF At, Others, Same
  <1>2. \A d \in At(n) : d # c /\ pc'[d] = pc[d] /\ left'[d] = left[d] /\ (Holds(d)' <=> Holds(d))
    BY DEF At, Others, Same, Holds
  <1>3. LockSound(n)' /\ Attended(n)'
    BY <1>1, <1>2 DEF NodeInv, LockSound, Attended
  <1>4. Mail(n)'
    BY <1>1, <1>2 DEF NodeInv, Mail, Clean, Asked, Answered
  <1>5. ASSUME NEW p \in Pcm, Owns(p, n)', "init" \notin faults' PROVE Known(p, n)' /\ Sole(p, n)'
    <2>1. p \in At(n) /\ Owns(p, n) /\ st'[p] = st[p]
      BY <1>5 DEF Owns, At, Others, Same, Client
    <2>2. Known(p, n) /\ Sole(p, n)
      BY <1>5, <2>1 DEF NodeInv
    <2>3. Known(p, n)'
      BY <1>2, <2>1, <2>2 DEF Known
    <2>4. Sole(p, n)'
      BY <2>2 DEF Sole, Others, Same, Client
    <2> QED
      BY <2>3, <2>4
  <1> QED
    BY <1>3, <1>4, <1>5 DEF NodeInv

LEMMA CreateSemInv ==
    ASSUME IInv, NEW c \in Client, CreateSem(c)
    PROVE  IInv'
  <1>1. pc[c] = "create" /\ rest[c] # <<>> /\ Call(c) \in {"open", "probe"} /\ st[c] = "uninit"
    BY DEF CreateSem, IInv, Places, Place
  <1>2. pc' \in [Client -> Pc] /\ pc'[c] = "setval" /\ Others(c) /\ UNCHANGED <<dsp, handle, callback, rest, left, ok>>
    BY DEF CreateSem, IInv, Typed, Pc, Others, Same, handle
  <1>3. Typed'
    <2>1. sem' \in [Node -> Int]
      BY <1>1, InCall DEF CreateSem, IInv, Typed
    <2> QED
      BY <1>2, <2>1 DEF IInv, Typed, dsp, handle
  <1>4. Places'
    <2>1. Place(c)'
      BY <1>1, <1>2 DEF IInv, Places, Place, Call, handle
    <2>2. c \in Pcm => PcmPlace(c)'
      <3>1. rest[c] # <<"close">>
        BY <1>1 DEF Call
      <3> QED
        BY <1>1, <1>2, <3>1 DEF IInv, Places, PcmPlace, handle
    <2>3. c \in Mixer => MixerPlace(c)'
      BY <1>2 DEF IInv, Places, MixerPlace
    <2> QED
      BY <1>2, <2>1, <2>2, <2>3, PlacesFrame DEF IInv
  <1>5. ASSUME NEW n \in Steady', node[c] # n PROVE NodeInv(n)'
    BY <1>2, <1>5, SteadyNodes, Elsewhere DEF CreateSem, IInv, Typed, dsp, handle
  <1>6. ASSUME NEW n \in Steady', node[c] = n PROVE NodeInv(n)'
    <2>1. NodeInv(n) /\ UNCHANGED <<task, inbox, outbox, node, st, left, faults>>
      BY <1>2, SteadyNodes DEF CreateSem, dsp, handle
    <2>2. sem'[n] = IF sem[n] = None THEN 0 ELSE sem[n]
      BY <1>6, SteadyNodes DEF CreateSem, IInv, Typed
    <2>3. \A d \in At(n) : (Holds(d)' <=> Holds(d)) /\ (d = c \/ pc'[d] = pc[d])
      BY <1>1, <1>2 DEF Holds, Others, Same, At
    <2>4. At(n)' = At(n) /\ c \in At(n)
      BY <1>6, <2>1 DEF At
    <2>5. LockSound(n)'
      BY <2>1, <2>2, <2>3, <2>4 DEF NodeInv, LockSound, None
    <2>6. Attended(n)'
      BY <1>2, <2>4 DEF Attended
    <2>7. Mail(n)'
      BY <1>1, <1>2, <2>1, <2>2, <2>3, <2>4 DEF NodeInv, Mail, Clean, Asked, Answered, None
    <2>8. ASSUME NEW p \in Pcm, Owns(p, n)', "init" \notin faults' PROVE Known(p, n)' /\ Sole(p, n)'
      <3>1. p # c /\ Owns(p, n) /\ pc'[p] = pc[p]
        BY <1>1, <1>2, <2>1, <2>8 DEF Owns, Others, Same, Client
      <3>2. Known(p, n)'
        BY <2>1, <2>8, <3>1 DEF NodeInv, Known
      <3>3. Sole(p, n)'
        BY <1>2, <2>1, <2>8, <3>1 DEF NodeInv, Sole, Others, Same, Client
      <3> QED
        BY <3>2, <3>3
    <2> QED
      BY <2>5, <2>6, <2>7, <2>8 DEF NodeInv
  <1> QED
    BY <1>3, <1>4, <1>5, <1>6 DEF IInv

LEMMA SetValInv ==
    ASSUME IInv, NEW c \in Client, SetVal(c)
    PROVE  IInv'
  <1>1. pc[c] = "setval" /\ rest[c] # <<>> /\ Call(c) \in {"open", "probe"} /\ st[c] = "uninit"
    BY DEF SetVal, IInv, Places, Place
  <1>2. pc' \in [Client -> Pc] /\ pc'[c] = "lock" /\ Others(c) /\ UNCHANGED <<dsp, handle, callback, rest, left, ok>>
    BY DEF SetVal, IInv, Typed, Pc, Others, Same, handle
  <1>3. Typed'
    <2>1. sem' \in [Node -> Int]
      BY <1>1, InCall DEF SetVal, IInv, Typed
    <2> QED
      BY <1>2, <2>1 DEF IInv, Typed, dsp, handle
  <1>4. Places'
    <2>1. Place(c)'
      BY <1>1, <1>2 DEF IInv, Places, Place, Call, handle
    <2>2. c \in Pcm => PcmPlace(c)'
      <3>1. rest[c] # <<"close">>
        BY <1>1 DEF Call
      <3> QED
        BY <1>1, <1>2, <3>1 DEF IInv, Places, PcmPlace, handle
    <2>3. c \in Mixer => MixerPlace(c)'
      BY <1>2 DEF IInv, Places, MixerPlace
    <2> QED
      BY <1>2, <2>1, <2>2, <2>3, PlacesFrame DEF IInv
  <1>5. ASSUME NEW n \in Steady', node[c] # n PROVE NodeInv(n)'
    <2>1. n \notin loose /\ NodeInv(n)
      BY SteadyNodes DEF SetVal
    <2> QED
      BY <1>2, <1>5, <2>1, SteadyNodes, Elsewhere DEF SetVal, IInv, Typed, dsp, handle
  <1>6. ASSUME NEW n \in Steady', node[c] = n PROVE NodeInv(n)'
    <2>1. n \notin loose /\ "crash" \notin faults /\ \A d \in At(n) : ~Holds(d)
      BY <1>6, SteadyNodes DEF SetVal, At, Steady, InStep
    <2>2. NodeInv(n) /\ UNCHANGED <<task, inbox, outbox, node, st, left, faults>>
      BY <1>2, <2>1, SteadyNodes DEF SetVal, dsp, handle
    <2>3. sem'[n] = 1
      BY <1>6, SteadyNodes DEF SetVal, IInv, Typed
    <2>4. At(n)' = At(n) /\ \A d \in At(n) : ~Holds(d)' /\ (d = c \/ pc'[d] = pc[d])
      BY <1>1, <1>2, <2>1, <2>2 DEF Holds, Others, Same, At
    <2>5. LockSound(n)' /\ Attended(n)'
      BY <2>3, <2>4 DEF LockSound, Attended
    <2>6. Clean(n)
      BY <2>1, <2>2 DEF NodeInv, Mail, Holds
    <2>7. Mail(n)'
      BY <2>2, <2>4, <2>6 DEF Mail, Clean, Holds
    <2>8. ASSUME NEW p \in Pcm, Owns(p, n)', "init" \notin faults' PROVE Known(p, n)' /\ Sole(p, n)'
      <3>1. p # c /\ Owns(p, n) /\ pc'[p] = pc[p]
        BY <1>1, <1>2, <2>2, <2>8 DEF Owns, Others, Same, Client
      <3>2. Known(p, n)'
        BY <2>2, <2>8, <3>1 DEF NodeInv, Known
      <3>3. Sole(p, n)'
        BY <1>2, <2>2, <2>8, <3>1 DEF NodeInv, Sole, Others, Same, Client
      <3> QED
        BY <3>2, <3>3
    <2> QED
      BY <2>5, <2>7, <2>8 DEF NodeInv
  <1> QED
    BY <1>3, <1>4, <1>5, <1>6 DEF IInv

-----------------------------------------------------------------------------
LEMMA AtLockPlace ==
    ASSUME IInv, NEW c \in Client, AtLock(c)
    PROVE  /\ rest[c] # <<>> /\ pc[c] \in {"call", "lock"} /\ Call(c) \in PcmCall \cup MixerCall
           /\ c \in Pcm => /\ (st[c] = "uninit" <=> Call(c) = "open") /\ callback[c] # "retry"
                           /\ callback[c] = "open" => rest[c] = <<"open">> /\ st[c] = "uninit"
  <1>1. rest[c] # <<>> /\ pc[c] \in {"call", "lock"} /\ Call(c) \in PcmCall \cup MixerCall
    BY DEF AtLock, Calls, IInv, Places, Place
  <1>2. ASSUME c \in Pcm PROVE (st[c] = "uninit" <=> Call(c) = "open") /\ Call(c) \in PcmCall
    <2>1. Call(c) \in PcmCall
      BY <1>1, <1>2, HeadTail DEF IInv, Places, PcmPlace, Call
    <2>2. CASE pc[c] = "lock"
      BY <2>1, <2>2 DEF IInv, Places, Place, PcmCall
    <2>3. CASE pc[c] = "call"
      <3>1. ~Refused(c) /\ ~Closed(c) /\ Call(c) # "open"
        BY <2>3 DEF AtLock
      <3>2. CASE Call(c) = "close"
        BY <2>1, <3>1, <3>2 DEF Closed
      <3>3. CASE Call(c) # "close"
        <4>1. CASE Call(c) = "params"
          BY <2>1, <3>1, <4>1 DEF Refused
        <4>2. CASE Call(c) = "play"
          BY <2>1, <3>1, <4>2 DEF Refused
        <4>3. CASE Call(c) \in {"data", "pause", "stop"}
          BY <2>1, <3>1, <4>3 DEF Refused
        <4> QED
          BY <2>1, <3>1, <3>3, <4>1, <4>2, <4>3 DEF PcmCall
      <3> QED
        BY <3>2, <3>3
    <2> QED
      BY <1>1, <2>1, <2>2, <2>3
  <1>3. ASSUME c \in Pcm PROVE /\ callback[c] # "retry"
                               /\ callback[c] = "open" => rest[c] = <<"open">> /\ st[c] = "uninit"
    <2>1. PcmPlace(c)
      BY <1>3 DEF IInv, Places
    <2>2. <<"close">>[1] = "close" /\ <<"open">>[1] = "open"
      OBVIOUS
    <2>3. rest[c] = <<"close">> => Call(c) = "close" /\ st[c] # "uninit"
      BY <1>2, <1>3, <2>2 DEF Call
    <2>4. rest[c] = <<"open">> => st[c] = "uninit"
      BY <1>2, <1>3, <2>2 DEF Call
    <2> QED
      BY <1>1, <2>1, <2>3, <2>4 DEF PcmPlace
  <1> QED
    BY <1>1, <1>2, <1>3

\* The two outcomes of dsp_protocol_lock_dev that got the semaphore.
LEMMA LockTyped ==
    ASSUME IInv, NEW c \in Client, Lock(c)
    PROVE  /\ Typed' /\ Others(c) /\ UNCHANGED <<node, st, io, callback, rest, loose, faults, task>>
           /\ ok'[c] = TRUE
           /\ \A n \in Node : n # node[c] => sem'[n] = sem[n] /\ inbox'[n] = inbox[n] /\ outbox'[n] = outbox[n]
           /\ sem[node[c]] > 0 /\ sem'[node[c]] = sem[node[c]] - 1
           /\ outbox[node[c]] = <<>> => outbox'[node[c]] = <<>>
           /\ \/ pc'[c] = "unlock" /\ Call(c) = "play" /\ st[c] = "playing" /\ inbox' = inbox
              \/ /\ pc'[c] = "read" /\ left'[c] = Commands(Call(c)) /\ left'[c][1] \in Order
                 /\ inbox[node[c]] = <<>> =>
                       inbox'[node[c]] = <<[cmd |-> left'[c][1], from |-> c]>>
  <1>1. AtLock(c) /\ rest[c] # <<>> /\ pc[c] \in {"call", "lock"} /\ Call(c) \in PcmCall \cup MixerCall
    BY AtLockPlace DEF Lock
  <1>2. node[c] \in Node /\ sem[node[c]] \in Int
    BY <1>1, InCall
  <1>3. Commands(Call(c)) \in Seq(Order) /\ Commands(Call(c))[1] \in Order
    BY <1>1, LeftOf DEF Lefts
  <1>4. /\ sem' \in [Node -> Int] /\ outbox' \in [Node -> Seq(Reply)] /\ ok' \in [Client -> BOOLEAN]
        /\ \A n \in Node : n # node[c] => sem'[n] = sem[n] /\ outbox'[n] = outbox[n]
        /\ sem[node[c]] > 0 /\ sem'[node[c]] = sem[node[c]] - 1
        /\ outbox[node[c]] = <<>> => outbox'[node[c]] = <<>>
        /\ ok'[c] = TRUE /\ \A d \in Client \ {c} : ok'[d] = ok[d]
    <2>1. sem' = [sem EXCEPT ![node[c]] = sem[node[c]] - 1] /\ ok' = [ok EXCEPT ![c] = TRUE] /\ sem[node[c]] > 0
          /\ outbox' \in {outbox, [outbox EXCEPT ![node[c]] = <<>>]}
      BY DEF Lock
    <2>2. sem' \in [Node -> Int] /\ sem'[node[c]] = sem[node[c]] - 1
          /\ \A n \in Node : n # node[c] => sem'[n] = sem[n]
      BY <1>2, <2>1 DEF IInv, Typed
    <2>3. <<>> \in Seq(Reply)
      OBVIOUS
    <2>4. outbox' \in [Node -> Seq(Reply)] /\ (outbox[node[c]] = <<>> => outbox'[node[c]] = <<>>)
          /\ \A n \in Node : n # node[c] => outbox'[n] = outbox[n]
      BY <1>2, <2>1, <2>3 DEF IInv, Typed
    <2>5. ok' \in [Client -> BOOLEAN] /\ ok'[c] = TRUE /\ \A d \in Client \ {c} : ok'[d] = ok[d]
      BY <2>1 DEF IInv, Typed
    <2> QED
      BY <2>1, <2>2, <2>4, <2>5
  <1>5. UNCHANGED <<node, st, io, callback, rest, loose, faults, task>>
    BY DEF Lock, handle
  <1>6. CASE Call(c) = "play" /\ st[c] = "playing"
    <2>1. pc' \in [Client -> Pc] /\ pc'[c] = "unlock" /\ left' = left /\ inbox' = inbox
          /\ \A d \in Client \ {c} : pc'[d] = pc[d]
      BY <1>6 DEF Lock, IInv, Typed, Pc
    <2>2. Typed'
      BY <1>4, <1>5, <2>1 DEF IInv, Typed
    <2>3. Others(c)
      BY <1>4, <1>5, <2>1 DEF Others, Same
    <2> QED
      BY <1>4, <1>5, <1>6, <2>1, <2>2, <2>3
  <1>7. CASE ~(Call(c) = "play" /\ st[c] = "playing")
    <2>1. /\ left' = [left EXCEPT ![c] = Commands(Call(c))] /\ Command(c, left'[c][1])
          /\ pc' = [pc EXCEPT ![c] = "read"]
      BY <1>7 DEF Lock
    <2>2. pc' \in [Client -> Pc] /\ pc'[c] = "read" /\ \A d \in Client \ {c} : pc'[d] = pc[d]
      BY <2>1 DEF IInv, Typed, Pc
    <2>3. left' \in [Client -> Seq(Order)] /\ left'[c] = Commands(Call(c)) /\ \A d \in Client \ {c} : left'[d] = left[d]
      BY <1>3, <2>1 DEF IInv, Typed
    <2> DEFINE m == [cmd |-> left'[c][1], from |-> c]
    <2>4. m \in Message
      BY <1>3, <2>3 DEF Message
    <2>5. inbox' = [inbox EXCEPT ![node[c]] = Append(@, m)]
      BY <2>1 DEF Command
    <2> HIDE DEF m
    <2>6. inbox' \in [Node -> Seq(Message)] /\ \A n \in Node : n # node[c] => inbox'[n] = inbox[n]
      <3>1. inbox \in [Node -> Seq(Message)]
        BY DEF IInv, Typed
      <3>2. Append(inbox[node[c]], m) \in Seq(Message)
        BY <1>2, <2>4, <3>1
      <3> QED
        BY <1>2, <2>5, <3>1, <3>2
    <2>7. inbox[node[c]] = <<>> => inbox'[node[c]] = <<m>>
      BY <1>2, <2>4, <2>5, Singles DEF IInv, Typed
    <2>8. Typed'
      BY <1>4, <1>5, <2>2, <2>3, <2>6 DEF IInv, Typed
    <2>9. Others(c)
      BY <1>4, <1>5, <2>2, <2>3 DEF Others, Same
    <2> QED
      BY <1>3, <1>4, <1>5, <2>2, <2>3, <2>6, <2>7, <2>8, <2>9 DEF m
  <1> QED
    BY <1>6, <1>7

\* What a client can ask of a task that a PCM other than it owns.
LEMMA FirstCommand ==
    ASSUME IInv, NEW c \in Client, AtLock(c), c \in Pcm => st[c] = "uninit"
    PROVE  Commands(Call(c))[1] \in Neutral /\ (c \in Pcm => Commands(Call(c))[1] = "state")
  <1>1. CASE c \in Pcm
    <2>1. Call(c) = "open"
      BY <1>1, AtLockPlace
    <2>2. Commands("open") = <<"state", "init">> /\ <<"state", "init">>[1] = "state"
      BY DEF Commands
    <2> QED
      BY <2>1, <2>2 DEF Neutral
  <1>2. CASE c \notin Pcm
    <2>1. Call(c) \in MixerCall
      BY <1>2, AtLockPlace, HeadTail DEF IInv, Places, MixerPlace, Call, Client
    <2>2. Commands(Call(c)) \in Lefts(Call(c))
      BY DEF Lefts
    <2> DEFINE l == Commands(Call(c))
    <2>3. l \in Lefts(Call(c)) /\ Len(l) \in {1, 2} /\ \A i \in 1..Len(l) : l[i] \in Neutral
      BY <2>1, <2>2, LeftOf
    <2> QED
      BY <1>2, <2>3
  <1> QED
    BY <1>1, <1>2

LEMMA LockInv ==
    ASSUME IInv, NEW c \in Client, Lock(c)
    PROVE  IInv'
  <1> DEFINE
       unlocks == pc'[c] = "unlock" /\ Call(c) = "play" /\ st[c] = "playing" /\ inbox' = inbox
       asks == /\ pc'[c] = "read" /\ left'[c] = Commands(Call(c)) /\ left'[c][1] \in Order
               /\ inbox[node[c]] = <<>> => inbox'[node[c]] = <<[cmd |-> left'[c][1], from |-> c]>>
  <1>1. /\ Typed' /\ Others(c) /\ UNCHANGED <<node, st, io, callback, rest, loose, faults, task>>
        /\ ok'[c] = TRUE /\ (unlocks \/ asks)
    BY LockTyped
  <1>2. /\ sem[node[c]] > 0 /\ sem'[node[c]] = sem[node[c]] - 1 /\ (outbox[node[c]] = <<>> => outbox'[node[c]] = <<>>)
        /\ \A k \in Node : k # node[c] => sem'[k] = sem[k] /\ inbox'[k] = inbox[k] /\ outbox'[k] = outbox[k]
    BY LockTyped
  <1>3. AtLock(c) /\ rest[c] # <<>> /\ pc[c] \in {"call", "lock"} /\ Call(c) \in PcmCall \cup MixerCall
    BY AtLockPlace DEF Lock
  <1>4. node[c] \in Node /\ Call(c)' = Call(c)
    BY <1>1, <1>3, InCall DEF Call
  <1>5. Places'
    <2>1. pc'[c] = "read" => left'[c] \in Lefts(Call(c))
      BY <1>1 DEF Lefts
    <2>2. Place(c)'
      BY <1>1, <1>3, <1>4, <2>1 DEF IInv, Places, Place
    <2>3. ASSUME c \in Pcm PROVE PcmPlace(c)'
      <3>1. /\ (st[c] = "uninit" <=> Call(c) = "open") /\ callback[c] # "retry"
            /\ callback[c] = "open" => rest[c] = <<"open">> /\ st[c] = "uninit"
        BY <1>3, <2>3, AtLockPlace
      <3> QED
        BY <1>1, <1>4, <2>3, <3>1 DEF IInv, Places, PcmPlace
    <2>4. c \in Mixer => MixerPlace(c)'
      BY <1>1 DEF IInv, Places, MixerPlace
    <2> QED
      BY <1>1, <2>2, <2>3, <2>4, PlacesFrame DEF IInv
  <1>6. ASSUME NEW k \in Steady', k # node[c] PROVE NodeInv(k)'
    <2>1. NodeInv(k) /\ node[c] # k /\ node'[c] # k
      BY <1>1, <1>6, SteadyNodes
    <2> QED
      BY <1>1, <1>2, <1>6, <2>1, SteadyNodes, Elsewhere
  <1>7. ASSUME NEW n \in Steady', n = node[c] PROVE NodeInv(n)'
    <2>1. NodeInv(n) /\ c \in At(n) /\ At(n)' = At(n)
      BY <1>1, <1>7, SteadyNodes DEF At
    <2>2. sem[n] = 1 /\ sem'[n] = 0 /\ Clean(n) /\ \A d \in At(n) : ~Holds(d)
      BY <1>2, <1>7, <2>1 DEF NodeInv, LockSound, Mail, None
    <2>3. Holds(c)' /\ \A d \in At(n) \ {c} : ~Holds(d)' /\ pc'[d] = pc[d] /\ pc[d] \notin {"read", "unlock"}
      BY <1>1, <2>2 DEF Holds, Others, Same, At
    <2>4. LockSound(n)' /\ Attended(n)'
      BY <2>1, <2>2, <2>3 DEF LockSound, Attended
    <2>5. outbox'[n] = <<>> /\ (unlocks => Clean(n)') /\ (asks => Asked(c, n)')
      BY <1>2, <1>7, <2>2 DEF Clean, Asked
    <2>6. inbox'[n] = <<>> \/ (inbox'[n] = <<inbox'[n][1]>> /\ asks /\ inbox'[n][1].cmd = left'[c][1])
      BY <1>1, <2>5 DEF Clean, Asked
    <2>7. Mail(n)'
      BY <1>1, <2>1, <2>2, <2>3, <2>5, <2>6 DEF Mail
    <2>8. ASSUME NEW p \in Pcm, Owns(p, n)', "init" \notin faults' PROVE Known(p, n)' /\ Sole(p, n)'
      <3>1. p \in At(n) /\ Owns(p, n) /\ Known(p, n) /\ Sole(p, n) /\ task'[n] = st'[p] /\ pc[p] # "read"
        BY <1>1, <2>1, <2>2, <2>8 DEF NodeInv, Owns, At, Client, Known, Holds
      <3>2. p # c /\ c \in Pcm => st[c] = "uninit"
        BY <2>1, <3>1 DEF Sole, At
      <3>3. p # c /\ asks => left'[c][1] \in Neutral /\ (c \in Pcm => left'[c][1] = "state")
        BY <1>3, <3>2, FirstCommand
      <3>4. p # c => pc'[p] # "read"
        BY <2>3, <3>1
      <3>5. Known(p, n)'
        BY <1>1, <2>5, <2>6, <3>1, <3>3, <3>4 DEF Known
      <3>6. Sole(p, n)'
        BY <1>1, <2>3, <3>1, <3>3 DEF Sole, At, Client
      <3> QED
        BY <3>5, <3>6
    <2> QED
      BY <2>4, <2>7, <2>8 DEF NodeInv
  <1> QED
    BY <1>1, <1>5, <1>6, <1>7 DEF IInv

\* dsp_protocol_unlock_dev
LEMMA UnlockInv ==
    ASSUME IInv, NEW c \in Client, Unlock(c)
    PROVE  IInv'
  <1>1. pc[c] = "unlock" /\ rest[c] # <<>> /\ Returned(c, ok[c]) /\ ok[c] \in BOOLEAN
    BY DEF Unlock, IInv, Places, Place, Typed
  <1>2. UNCHANGED <<dsp, handle, callback, left, loose, faults>> /\ UNCHANGED <<task, inbox, outbox, node, st, io>>
    BY DEF Unlock, dsp, handle
  <1>3. node[c] \in Node /\ sem[node[c]] \in Int
    BY <1>1, InCall
  <1>4. sem' \in [Node -> Int] /\ sem'[node[c]] = sem[node[c]] + 1 /\ \A k \in Node : k # node[c] => sem'[k] = sem[k]
    BY <1>3 DEF Unlock, Raised, IInv, Typed
  <1>5. Typed'
    BY <1>1, <1>2, <1>4, ReturnedRest DEF IInv, Typed
  <1>6. Places' /\ Others(c)
    <2>1. c \in Pcm /\ callback[c] = "open" /\ st[c] # "uninit" => ok[c]
      BY DEF IInv, Places, PcmPlace
    <2> QED
      BY <1>1, <1>2, <1>5, <2>1, ReturnedPlaces
  <1>7. pc'[c] = "call"
    BY <1>1, ReturnedRest
  <1>8. ASSUME NEW k \in Steady', k # node[c] PROVE NodeInv(k)'
    <2>1. NodeInv(k) /\ node[c] # k /\ node'[c] # k
      BY <1>2, <1>8, SteadyNodes
    <2> QED
      BY <1>2, <1>4, <1>6, <1>8, <2>1, SteadyNodes, Elsewhere
  <1>9. ASSUME NEW n \in Steady', n = node[c] PROVE NodeInv(n)'
    <2>1. NodeInv(n) /\ c \in At(n) /\ At(n)' = At(n)
      BY <1>2, <1>9, SteadyNodes DEF At
    <2>2. sem'[n] = 1 /\ Clean(n) /\ \A d \in At(n) \ {c} : ~Holds(d)
      BY <1>1, <1>4, <1>9, <2>1 DEF NodeInv, LockSound, Mail, Holds, None
    <2>3. \A d \in At(n) : ~Holds(d)' /\ pc'[d] \notin {"read", "unlock"}
      BY <1>6, <1>7, <2>2 DEF Holds, Others, Same, At
    <2>4. LockSound(n)' /\ Attended(n)'
      BY <2>1, <2>2, <2>3 DEF LockSound, Attended
    <2>5. Clean(n)'
      BY <1>2, <2>2 DEF Clean
    <2>6. Mail(n)'
      BY <2>1, <2>3, <2>5 DEF Mail, Clean
    <2>7. ASSUME NEW p \in Pcm, Owns(p, n)', "init" \notin faults' PROVE Known(p, n)' /\ Sole(p, n)'
      <3>1. p \in At(n) /\ Known(p, n) /\ Sole(p, n) /\ pc[p] # "read" /\ pc'[p] # "read"
        BY <1>1, <1>2, <2>1, <2>2, <2>3, <2>7 DEF NodeInv, Owns, At, Client, Holds
      <3>2. Known(p, n)'
        BY <1>2, <2>5, <3>1 DEF Known, Clean
      <3>3. Sole(p, n)'
        BY <1>2, <2>3, <3>1 DEF Sole, At, Client
      <3> QED
        BY <3>2, <3>3
    <2> QED
      BY <2>4, <2>6, <2>7 DEF NodeInv
  <1> QED
    BY <1>2, <1>5, <1>6, <1>8, <1>9 DEF IInv

-----------------------------------------------------------------------------
\* The process of a client that holds the semaphore, or is about to set it, dies.
LEMMA CrashInv ==
    ASSUME IInv, NEW c \in Client, Crash(c)
    PROVE  IInv'
  <1>1. pc[c] # "idle" /\ Leaves(c, "closed") /\ UNCHANGED <<sem, dsp, loose>> /\ "crash" \in faults'
        /\ faults \subseteq faults'
    BY DEF Crash, Holds, GoesWrong
  <1>2. Typed' /\ Places' /\ Others(c) /\ pc'[c] = "idle"
    BY <1>1, LeavesPlaces DEF Io
  <1>3. node'[c] = 0 /\ st'[c] = "uninit" /\ UNCHANGED <<task, inbox, outbox>>
    BY <1>1 DEF Leaves, IInv, Typed, dsp
  <1>4. ASSUME NEW n \in Steady' PROVE NodeInv(n)'
    <2>1. NodeInv(n) /\ node'[c] # n
      BY <1>1, <1>3, SteadyNodes, SizesAssumption DEF Node
    <2>2. At(n)' = At(n) \ {c}
      BY <1>2, <2>1 DEF At, Others, Same
    <2>3. \A d \in At(n)' : d # c /\ d \in At(n) /\ pc'[d] = pc[d] /\ left'[d] = left[d] /\ (Holds(d)' <=> Holds(d))
      BY <1>2, <2>2 DEF Holds, Others, Same, At
    <2>4. LockSound(n)' /\ Attended(n)'
      BY <1>1, <2>1, <2>3 DEF NodeInv, LockSound, Attended
    <2>5. Mail(n)'
      BY <1>1, <1>3, <2>1, <2>3 DEF NodeInv, Mail, Clean, Asked, Answered
    <2>6. ASSUME NEW p \in Pcm, Owns(p, n)', "init" \notin faults' PROVE Known(p, n)' /\ Sole(p, n)'
      <3>1. p \in At(n)' /\ Owns(p, n) /\ st'[p] = st[p]
        BY <1>2, <1>3, <2>6 DEF Owns, Others, Same, At, Client
      <3>2. Known(p, n) /\ Sole(p, n)
        BY <1>1, <2>1, <2>6, <3>1 DEF NodeInv
      <3>3. Known(p, n)'
        BY <1>3, <2>3, <3>1, <3>2 DEF Known
      <3>4. Sole(p, n)'
        BY <1>2, <2>1, <3>2 DEF Sole, Others, Same, Client
      <3> QED
        BY <3>3, <3>4
    <2> QED
      BY <2>4, <2>5, <2>6 DEF NodeInv
  <1> QED
    BY <1>2, <1>4 DEF IInv

\* A message of the DSP.
LEMMA AnswerOf ==
    ASSUME NEW m \in Message, NEW good \in BOOLEAN, NEW s \in TaskState
    PROVE  /\ Answer(m, good, s) \in Reply
           /\ Answer(m, good, s) = [cmd |-> m.cmd, to |-> m.from, ok |-> good, status |-> s]
  BY DEF Answer, Reply, Message

LEMMA AfterType ==
    ASSUME NEW cmd, NEW s \in TaskState
    PROVE  After(cmd, s) \in TaskState /\ (cmd \in Neutral => After(cmd, s) = s) /\ After("init", s) = "init"
  BY DEF After, TaskState, Neutral

\* A task answers the command it finds.
LEMMA TaskInv ==
    ASSUME IInv, NEW n \in Node, Task(n)
    PROVE  IInv'
  <1> DEFINE m == Head(inbox[n])
  <1>1. inbox[n] # <<>> /\ m = inbox[n][1] /\ m \in Message /\ Tail(inbox[n]) \in Seq(Message)
    BY HeadTail DEF Task, IInv, Typed
  <1>2. PICK good \in BOOLEAN :
          /\ m.cmd = "state" => good
          /\ IF m.cmd = "init" /\ ~good THEN GoesWrong("init") ELSE faults' = faults
          /\ task' = [task EXCEPT ![n] = IF good THEN After(m.cmd, task[n]) ELSE task[n]]
          /\ outbox' = [outbox EXCEPT ![n] = Append(@, Answer(m, good, IF good THEN After(m.cmd, task[n]) ELSE task[n]))]
    BY Zenon DEF Task
  <1> DEFINE to == IF good THEN After(m.cmd, task[n]) ELSE task[n]
             answer == Answer(m, good, to)
  <1>3. to \in TaskState
    BY AfterType DEF IInv, Typed
  <1>4. UNCHANGED <<sem, node, st, io, callback, rest, pc, left, ok, loose>>
        /\ inbox' = [inbox EXCEPT ![n] = Tail(inbox[n])]
    BY DEF Task, handle, control
  <1>5. answer \in Reply /\ answer = [cmd |-> m.cmd, to |-> m.from, ok |-> good, status |-> to]
    BY <1>1, <1>3, AnswerOf
  <1>11. faults \subseteq faults' /\ ("crash" \in faults' => "crash" \in faults)
         /\ (m.cmd = "init" /\ "init" \notin faults' => good)
    BY <1>2 DEF GoesWrong
  <1>6. task'[n] = to /\ outbox'[n] = Append(outbox[n], answer) /\ inbox'[n] = Tail(inbox[n])
        /\ \A k \in Node \ {n} : task'[k] = task[k] /\ outbox'[k] = outbox[k] /\ inbox'[k] = inbox[k]
    BY <1>2, <1>4 DEF IInv, Typed
  <1>7. Typed'
    <2> HIDE DEF to, answer
    <2>1. task' \in [Node -> TaskState]
      BY <1>2, <1>3 DEF IInv, Typed, to
    <2>2. inbox' \in [Node -> Seq(Message)]
      BY <1>1, <1>4 DEF IInv, Typed
    <2>3. Append(outbox[n], answer) \in Seq(Reply)
      BY <1>5 DEF IInv, Typed
    <2>4. outbox' \in [Node -> Seq(Reply)]
      BY <1>2, <2>3 DEF IInv, Typed, answer, to
    <2> QED
      BY <1>4, <2>1, <2>2, <2>4 DEF IInv, Typed
  <1>8. Places'
    BY <1>4 DEF IInv, Places, Place, PcmPlace, MixerPlace, Call
  <1> HIDE DEF m, to, answer
  <1>9. ASSUME NEW k \in Steady', k # n PROVE NodeInv(k)'
    <2>1. NodeInv(k) /\ task'[k] = task[k] /\ outbox'[k] = outbox[k] /\ inbox'[k] = inbox[k] /\ At(k)' = At(k)
      BY <1>4, <1>6, <1>9, <1>11, SteadyStays DEF IInv, At
    <2>2. LockSound(k)' /\ Attended(k)'
      BY <1>4, <1>11, <2>1 DEF NodeInv, LockSound, Attended, Holds
    <2>3. Mail(k)'
      BY <1>4, <1>11, <2>1 DEF NodeInv, Mail, Clean, Asked, Answered
    <2>4. ASSUME NEW p \in Pcm, Owns(p, k)', "init" \notin faults' PROVE Known(p, k)' /\ Sole(p, k)'
      BY <1>4, <1>11, <2>1, <2>4 DEF NodeInv, Owns, Known, Sole
    <2> QED
      BY <2>2, <2>3, <2>4 DEF NodeInv
  <1>10. ASSUME n \in Steady' PROVE NodeInv(n)'
    <2>1. NodeInv(n) /\ At(n)' = At(n)
      BY <1>4, <1>10, <1>11, SteadyStays DEF IInv, At
    <2>2. sem[n] = 0 /\ \A c \in At(n) : pc[c] # "unlock"
      BY <1>1, <2>1 DEF NodeInv, LockSound, Mail, Clean
    <2>3. inbox[n] = <<m>>
      BY <1>1, <2>1 DEF NodeInv, Mail
    <2>4. inbox'[n] = <<>>
      BY <1>1, <1>6, <2>3, Singles
    <2>5. LockSound(n)' /\ Attended(n)'
      BY <1>4, <1>11, <2>1 DEF NodeInv, LockSound, Attended, Holds
    <2>6. ASSUME NEW c \in At(n), pc[c] = "read"
          PROVE  m.cmd = left[c][1] /\ m.from = c /\ outbox'[n] = <<answer>>
      <3>1. Asked(c, n)
        BY <1>1, <2>1, <2>6 DEF NodeInv, Mail, Answered
      <3>2. m.cmd = left[c][1] /\ m.from = c
        BY <1>1, <3>1 DEF Asked
      <3>3. outbox'[n] = <<answer>>
        BY <1>5, <1>6, <3>1, Singles DEF Asked
      <3> QED
        BY <3>2, <3>3
    <2>7. ASSUME NEW c \in At(n), pc[c] = "read" PROVE Answered(c, n)'
      <3>1. m.cmd = left[c][1] /\ m.from = c /\ outbox'[n] = <<answer>>
        BY <2>6, <2>7
      <3>2. left[c][1] = "init" /\ "init" \notin faults' => to = "init"
        BY <1>11, <3>1, AfterType DEF IInv, Typed, to
      <3>3. /\ outbox'[n] # <<>> /\ Tail(outbox'[n]) = <<>>
            /\ outbox'[n][1] = [cmd |-> m.cmd, to |-> m.from, ok |-> good, status |-> to]
        BY <1>5, <3>1, Singles
      <3> QED
        BY <1>4, <1>6, <2>4, <3>1, <3>2, <3>3 DEF Answered
    <2>8. "crash" \notin faults' => \E c \in At(n)' : pc'[c] = "read"
      BY <1>1, <1>4, <1>11, <2>1 DEF NodeInv, Mail, Clean
    <2>9. Mail(n)'
      BY <1>4, <2>1, <2>2, <2>4, <2>7, <2>8 DEF Mail
    <2>10. ASSUME NEW p \in Pcm, Owns(p, n)', "init" \notin faults' PROVE Known(p, n)' /\ Sole(p, n)'
      <3>1. p \in At(n) /\ Known(p, n) /\ Sole(p, n)
        BY <1>4, <1>11, <2>1, <2>10 DEF NodeInv, Owns, At, Client
      <3>2. CASE pc[p] = "read"
        <4>1. task[n] = st[p] /\ m.cmd = left[p][1] /\ outbox'[n] = <<answer>>
          BY <1>1, <2>6, <3>1, <3>2 DEF Known
        <4>2. outbox'[n][1].ok = good
          BY <1>5, <4>1, Singles
        <4> QED
          BY <1>4, <1>6, <2>4, <3>1, <3>2, <4>1, <4>2 DEF Known, Sole, to
      <3>3. CASE pc[p] # "read"
        <4>1. task[n] = st[p] /\ m.cmd \in Neutral
          BY <1>1, <3>1, <3>3 DEF Known
        <4>2. to = task[n]
          BY <4>1, AfterType DEF to, IInv, Typed
        <4> QED
          BY <1>4, <1>6, <2>4, <3>1, <3>3, <4>1, <4>2 DEF Known, Sole
      <3> QED
        BY <3>2, <3>3
    <2> QED
      BY <2>5, <2>9, <2>10 DEF NodeInv
  <1> QED
    BY <1>4, <1>7, <1>8, <1>9, <1>10 DEF IInv

\* What a message of PLAY that is no answer is put behind, and what it does not change.
LEMMA FurtherPlaces ==
    ASSUME IInv, NEW n \in Node, NEW good \in BOOLEAN, PutsFurther(n, good)
    PROVE  /\ Typed' /\ Places'
           /\ UNCHANGED <<sem, task, inbox, node, st, io, callback, rest, pc, left, ok, loose>>
           /\ outbox'[n] = Append(outbox[n], Further(n, good)) /\ Further(n, good) \in Reply
           /\ \A k \in Node \ {n} : outbox'[k] = outbox[k]
  <1>1. UNCHANGED <<sem, task, inbox, node, st, io, callback, rest, pc, left, ok, loose>>
    BY DEF PutsFurther, handle, control
  <1>2. task[n] \in TaskState /\ outbox \in [Node -> Seq(Reply)]
    BY DEF IInv, Typed
  <1>3. Further(n, good) \in Reply
    BY <1>2 DEF Further, Reply
  <1>4. Append(outbox[n], Further(n, good)) \in Seq(Reply)
    BY <1>2, <1>3
  <1>5. outbox' = [outbox EXCEPT ![n] = Append(outbox[n], Further(n, good))]
    BY DEF PutsFurther
  <1>6. Typed'
    BY <1>1, <1>2, <1>4, <1>5 DEF IInv, Typed
  <1>7. Places'
    BY <1>1 DEF IInv, Places, Place, PcmPlace, MixerPlace, Call
  <1> QED
    BY <1>1, <1>2, <1>3, <1>5, <1>6, <1>7

LEMMA TrailsInv ==
    ASSUME IInv, NEW n \in Node, Trails(n)
    PROVE  IInv'
  <1>1. /\ Typed' /\ Places' /\ faults' = faults
        /\ UNCHANGED <<sem, task, inbox, node, st, io, callback, rest, pc, left, ok, loose>>
        /\ outbox'[n] = Append(outbox[n], Further(n, TRUE)) /\ Further(n, TRUE) \in Reply
        /\ \A k \in Node \ {n} : outbox'[k] = outbox[k]
    BY FurtherPlaces DEF Trails
  <1>2. PICK c \in Client : Flushes(c, n)
    BY DEF Trails
  <1>3. node[c] = n /\ pc[c] = "read" /\ left[c][1] = "play" /\ c \in At(n)
    <2>1. node[c] = n /\ pc[c] = "read" /\ Call(c) = "play"
      BY <1>2 DEF Flushes, Call
    <2>2. Call(c) \in PcmCall \cup MixerCall /\ left[c] \in Lefts(Call(c))
      BY <2>1 DEF IInv, Places, Place
    <2> QED
      BY <2>1, <2>2, LeftOf DEF At
  <1>4. outbox[n] # <<>> /\ outbox[n] \in Seq(Reply)
    BY DEF Trails, IInv, Typed
  <1>5. outbox'[n] # <<>> /\ outbox'[n][1] = outbox[n][1]
    <2> DEFINE x == Further(n, TRUE)
    <2>1. x \in Reply /\ outbox'[n] = Append(outbox[n], x)
      BY <1>1
    <2> HIDE DEF x
    <2>2. Append(outbox[n], x) # <<>> /\ Append(outbox[n], x)[1] = outbox[n][1]
      BY <1>4, <2>1, FirstStays
    <2> QED
      BY <2>1, <2>2
  <1>6. \A k \in Node : At(k)' = At(k)
    BY <1>1 DEF At
  <1>7. ASSUME NEW k \in Steady', k # n PROVE NodeInv(k)'
    <2>1. k \in Node /\ NodeInv(k) /\ At(k)' = At(k) /\ outbox'[k] = outbox[k]
      BY <1>1, <1>6, <1>7, SteadyStays DEF IInv
    <2>2. LockSound(k)' /\ Attended(k)' /\ Mail(k)'
      BY <1>1, <2>1 DEF NodeInv, LockSound, Attended, Mail, Holds, Clean, Asked, Answered
    <2>3. ASSUME NEW p \in Pcm, Owns(p, k)', "init" \notin faults' PROVE Known(p, k)' /\ Sole(p, k)'
      BY <1>1, <2>1, <2>3 DEF NodeInv, Owns, Known, Sole
    <2> QED
      BY <2>2, <2>3 DEF NodeInv
  <1>8. ASSUME n \in Steady' PROVE NodeInv(n)'
    <2>1. NodeInv(n) /\ At(n)' = At(n)
      BY <1>1, <1>6, <1>8, SteadyStays DEF IInv
    <2>2. LockSound(n)' /\ Attended(n)'
      BY <1>1, <2>1 DEF NodeInv, LockSound, Attended, Holds
    <2>3. \A d \in At(n) : pc[d] \in {"read", "unlock"} => d = c
      BY <1>3, <2>1 DEF NodeInv, LockSound, Holds
    <2>4. Answered(c, n) /\ sem[n] = 0
      BY <1>3, <1>4, <2>1 DEF NodeInv, Mail, Asked, LockSound, Holds
    <2>5. Answered(c, n)'
      BY <1>1, <1>3, <1>5, <2>4 DEF Answered
    <2>6. Mail(n)'
      BY <1>1, <1>3, <2>1, <2>3, <2>4, <2>5 DEF NodeInv, Mail
    <2>7. ASSUME NEW p \in Pcm, Owns(p, n)', "init" \notin faults' PROVE Known(p, n)' /\ Sole(p, n)'
      <3>1. Known(p, n) /\ Sole(p, n)
        BY <1>1, <2>1, <2>7 DEF NodeInv, Owns
      <3> QED
        BY <1>1, <1>4, <1>5, <3>1 DEF Known, Sole
    <2> QED
      BY <2>2, <2>6, <2>7 DEF NodeInv
  <1> QED
    BY <1>1, <1>7, <1>8 DEF IInv

LEMMA TrailsLateInv ==
    ASSUME IInv, NEW n \in Node, TrailsLate(n)
    PROVE  IInv'
  <1>1. PICK good \in BOOLEAN : PutsFurther(n, good)
    BY DEF TrailsLate
  <1>2. Steady' = {}
    BY DEF TrailsLate, GoesWrong, Steady, InStep, InTime
  <1> QED
    BY <1>1, <1>2, FurtherPlaces DEF IInv

-----------------------------------------------------------------------------
\* A client reads: what it had to send, what it sends next, and what becomes of it.
LEMMA ReadStep ==
    ASSUME IInv, NEW c \in Client, Read(c), NEW a, a = Head(outbox[node[c]])
    PROVE  /\ rest[c] # <<>> /\ Call(c) \in PcmCall \cup MixerCall /\ left[c] \in Lefts(Call(c))
           /\ a \in Reply /\ a = outbox[node[c]][1] /\ Good(c, a) \in BOOLEAN
           /\ UNCHANGED <<sem, task, node, io, callback, rest, loose, faults>>
           /\ ok' = [ok EXCEPT ![c] = Good(c, a)] /\ st' = [st EXCEPT ![c] = NewState(c, a)]
           /\ Remaining(c) \in Seq(Reply) /\ outbox' = [outbox EXCEPT ![node[c]] = Remaining(c)]
           /\ \/ /\ Done(c, a) /\ pc' = [pc EXCEPT ![c] = "unlock"] /\ inbox' = inbox
                 /\ left' = [left EXCEPT ![c] = <<>>]
              \/ /\ ~Done(c, a) /\ Good(c, a) /\ pc' = pc /\ Len(left[c]) = 2 /\ <<left[c][2]>> \in Lefts(Call(c))
                 /\ left[c][2] \in Order /\ left' = [left EXCEPT ![c] = <<left[c][2]>>]
                 /\ inbox' = [inbox EXCEPT ![node[c]] = Append(@, [cmd |-> left[c][2], from |-> c])]
  <1>1. pc[c] = "read" /\ rest[c] # <<>> /\ Call(c) \in PcmCall \cup MixerCall /\ left[c] \in Lefts(Call(c))
    BY DEF Read, IInv, Places, Place
  <1>2. node[c] \in Node /\ outbox[node[c]] \in Seq(Reply) /\ outbox[node[c]] # <<>>
    BY <1>1, InCall DEF Read, IInv, Typed
  <1>3. a \in Reply /\ a = outbox[node[c]][1] /\ Tail(outbox[node[c]]) \in Seq(Reply)
    BY <1>2, HeadTail
  <1>4. a.ok \in BOOLEAN
    BY <1>3 DEF Reply
  <1>5. Good(c, a) \in BOOLEAN
    BY <1>4 DEF Good
  <1>6. Remaining(c) \in Seq(Reply)
    <2>1. <<>> \in Seq(Reply)
      OBVIOUS
    <2> QED
      BY <1>3, <2>1 DEF Remaining
  <1>7. /\ ok' = [ok EXCEPT ![c] = Good(c, a)] /\ st' = [st EXCEPT ![c] = NewState(c, a)]
        /\ IF Done(c, a) THEN pc' = [pc EXCEPT ![c] = "unlock"] /\ inbox' = inbox
                         ELSE pc' = pc /\ Command(c, left[c][2])
        /\ left' = [left EXCEPT ![c] = IF Done(c, a) THEN <<>> ELSE Tail(left[c])]
        /\ outbox' = [outbox EXCEPT ![node[c]] = Remaining(c)]
        /\ UNCHANGED <<sem, task, node, io, callback, rest, loose, faults>>
    BY DEF Read
  <1>8. CASE Done(c, a)
    BY <1>1, <1>3, <1>5, <1>6, <1>7, <1>8
  <1>9. CASE ~Done(c, a)
    <2>1. Good(c, a) /\ Len(left[c]) # 1
      BY <1>9 DEF Done
    <2>2. Len(left[c]) = 2 /\ <<left[c][2]>> \in Lefts(Call(c)) /\ Tail(left[c]) = <<left[c][2]>> /\ left[c][2] \in Order
      BY <1>1, <2>1, LeftOf
    <2>3. inbox' = [inbox EXCEPT ![node[c]] = Append(@, [cmd |-> left[c][2], from |-> c])] /\ pc' = pc
      BY <1>7, <1>9 DEF Command
    <2> QED
      BY <1>1, <1>3, <1>5, <1>6, <1>7, <1>9, <2>1, <2>2, <2>3
  <1> QED
    BY <1>8, <1>9

LEMMA ReadPlaces ==
    ASSUME IInv, NEW c \in Client, Read(c)
    PROVE  Typed' /\ Places' /\ Others(c)
  <1> DEFINE a == Head(outbox[node[c]])
             m == [cmd |-> left[c][2], from |-> c]
             done == /\ Done(c, a) /\ pc' = [pc EXCEPT ![c] = "unlock"] /\ inbox' = inbox
                     /\ left' = [left EXCEPT ![c] = <<>>]
             goes == /\ Good(c, a) /\ pc' = pc /\ Len(left[c]) = 2 /\ <<left[c][2]>> \in Lefts(Call(c))
                     /\ left[c][2] \in Order /\ left' = [left EXCEPT ![c] = <<left[c][2]>>]
                     /\ inbox' = [inbox EXCEPT ![node[c]] = Append(@, m)]
  <1>1. /\ rest[c] # <<>> /\ Call(c) \in PcmCall \cup MixerCall /\ left[c] \in Lefts(Call(c))
        /\ a \in Reply /\ Good(c, a) \in BOOLEAN
        /\ UNCHANGED <<sem, task, node, io, callback, rest, loose, faults>>
        /\ ok' = [ok EXCEPT ![c] = Good(c, a)] /\ st' = [st EXCEPT ![c] = NewState(c, a)]
        /\ Remaining(c) \in Seq(Reply) /\ outbox' = [outbox EXCEPT ![node[c]] = Remaining(c)]
        /\ done \/ goes
    BY ReadStep
  <1>2. pc[c] = "read" /\ node[c] \in Node
    BY InCall DEF Read
  <1>3. NewState(c, a) \in TaskState
    <2>1. a.status \in TaskState
      BY <1>1 DEF Reply
    <2> QED
      BY <2>1, AfterType DEF NewState, IInv, Typed
  <1> HIDE DEF a
  <1>4. /\ pc' \in [Client -> Pc] /\ left' \in [Client -> Seq(Order)]
        /\ \A d \in Client \ {c} : pc'[d] = pc[d] /\ left'[d] = left[d]
        /\ pc'[c] \in {"read", "unlock"} /\ (pc'[c] = "read" => left'[c] \in Lefts(Call(c)))
    <2>1. <<>> \in Seq(Order)
      OBVIOUS
    <2>2. CASE done
      BY <1>2, <2>1, <2>2 DEF IInv, Typed, Pc
    <2>3. CASE goes
      <3>1. <<left[c][2]>> \in Seq(Order)
        BY <2>3
      <3> QED
        BY <1>2, <2>3, <3>1 DEF IInv, Typed, Pc
    <2> QED
      BY <1>1, <2>2, <2>3
  <1>5. inbox' \in [Node -> Seq(Message)]
    <2>1. CASE done
      BY <2>1 DEF IInv, Typed
    <2>2. CASE goes
      <3>1. m \in Message
        BY <2>2 DEF Message
      <3> HIDE DEF m
      <3>2. inbox \in [Node -> Seq(Message)]
        BY DEF IInv, Typed
      <3>3. Append(inbox[node[c]], m) \in Seq(Message)
        BY <1>2, <3>1, <3>2
      <3> QED
        BY <2>2, <3>2, <3>3
    <2> QED
      BY <1>1, <2>1, <2>2
  <1>6. /\ ok' \in [Client -> BOOLEAN] /\ st' \in [Client -> TaskState] /\ outbox' \in [Node -> Seq(Reply)]
        /\ ok'[c] = Good(c, a) /\ st'[c] = NewState(c, a)
        /\ \A d \in Client \ {c} : ok'[d] = ok[d] /\ st'[d] = st[d]
    BY <1>1, <1>3 DEF IInv, Typed
  <1>7. Typed'
    BY <1>1, <1>4, <1>5, <1>6 DEF IInv, Typed
  <1>8. Others(c)
    BY <1>1, <1>4, <1>6 DEF Others, Same
  <1>9. Places'
    <2>1. Place(c)'
      BY <1>1, <1>2, <1>4 DEF IInv, Places, Place, Call
    <2>2. ASSUME c \in Pcm PROVE PcmPlace(c)'
      <3>1. PcmPlace(c) /\ Call(c) \in PcmCall
        BY <1>1, <2>2, HeadTail DEF IInv, Places, PcmPlace, Call
      <3>2. Call(c)' = Call(c) /\ (st[c] = "uninit" <=> Call(c) = "open") /\ callback[c] # "retry"
        BY <1>1, <1>2, <3>1 DEF Call, PcmPlace
      <3>3. CASE Call(c) # "open"
        <4>1. callback[c] # "open"
          <5>1. <<"open">>[1] = "open"
            OBVIOUS
          <5> QED
            BY <1>1, <3>1, <3>3, <5>1 DEF PcmPlace, Call
        <4>2. pc'[c] = "unlock"
          <5>1. ~goes
            BY <1>1, <3>1, <3>3, LeftOf DEF PcmCall
          <5> QED
            BY <1>1, <1>2, <5>1 DEF IInv, Typed
        <4> QED
          BY <1>1, <3>1, <3>2, <4>1, <4>2 DEF PcmPlace
      <3>4. CASE Call(c) = "open"
        <4>1. left[c][1] = "init" => Len(left[c]) = 1
          BY <1>1, <3>4, LeftOf
        <4>2. left[c][1] \in {"state", "init"}
          BY <1>1, <3>4, LeftOf
        <4>3. st'[c] # "uninit" => ok'[c] /\ left[c][1] = "init"
          BY <1>6, <3>2, <3>4, <4>2 DEF NewState, After
        <4>4. st'[c] # "uninit" => pc'[c] = "unlock"
          BY <1>1, <1>2, <4>1, <4>3 DEF IInv, Typed
        <4> QED
          BY <1>1, <1>2, <1>4, <3>1, <3>2, <3>4, <4>3, <4>4 DEF PcmPlace
      <3> QED
        BY <3>3, <3>4
    <2>3. c \in Mixer => MixerPlace(c)'
      BY <1>1 DEF IInv, Places, MixerPlace
    <2> QED
      BY <1>8, <2>1, <2>2, <2>3, PlacesFrame DEF IInv
  <1> QED
    BY <1>7, <1>8, <1>9

\* A PCM that reads: its state follows the task's; it takes a task only when nobody has it.
LEMMA ReadOwner ==
    ASSUME IInv, NEW n \in Steady, NEW c \in Pcm, Read(c), node[c] = n, st'[c] # "uninit",
           "init" \notin faults
    PROVE  /\ Answered(c, n) => task[n] = st'[c]
           /\ Done(c, Head(outbox[n]))
           /\ Owns(c, n) \/ left[c][1] = "init"
  <1> DEFINE a == Head(outbox[n])
  <1>1. /\ Call(c) \in PcmCall \cup MixerCall /\ left[c] \in Lefts(Call(c)) /\ rest[c] # <<>>
        /\ a = outbox[n][1] /\ a \in Reply /\ st' = [st EXCEPT ![c] = NewState(c, a)]
    BY ReadStep DEF Client
  <1>2. PcmPlace(c) /\ c \in Client /\ pc[c] = "read" /\ outbox[n] # <<>>
    BY DEF IInv, Places, Client, Read
  <1>3. Call(c) \in PcmCall /\ (st[c] = "uninit" <=> Call(c) = "open")
    BY <1>1, <1>2, HeadTail DEF PcmPlace, Call
  <1>4. st'[c] = NewState(c, a)
    BY <1>1, <1>2 DEF IInv, Typed
  <1> HIDE DEF a
  <1>5. CASE Call(c) = "open"
    <2>1. left[c][1] = "init" /\ Len(left[c]) = 1 /\ st'[c] = "init"
      <3>1. \/ Len(left[c]) = 2 /\ left[c][1] = "state"
            \/ Len(left[c]) = 1 /\ left[c][1] = "init"
        BY <1>1, <1>5, LeftOf
      <3>2. left[c][1] = "state" => st'[c] = st[c]
        BY <1>4, <1>5 DEF NewState, After
      <3>3. left[c][1] = "init" => st'[c] = "init"
        BY <1>3, <1>4, <1>5 DEF NewState, After
      <3> QED
        BY <1>3, <1>5, <3>1, <3>2, <3>3
    <2>2. Done(c, a) /\ (Answered(c, n) => task[n] = st'[c])
      BY <2>1 DEF Done, Answered
    <2> QED
      BY <2>1, <2>2 DEF a
  <1>6. CASE Call(c) # "open"
    <2>1. Len(left[c]) = 1 /\ left[c][1] = Call(c) /\ Call(c) \notin {"probe", "get_mute", "get_volume"}
      <3>1. Call(c) \in PcmCall \ {"open"} /\ Call(c) \notin {"probe", "get_mute", "get_volume", "set_volume"}
        BY <1>3, <1>6 DEF PcmCall
      <3>2. left[c][1] = Call(c) /\ Len(left[c]) \in {1, 2} /\ Len(left[c]) # 2
        BY <1>1, <3>1, LeftOf
      <3> QED
        BY <3>1, <3>2
    <2>2. Done(c, a)
      BY <2>1 DEF Done
    <2>3. Owns(c, n) /\ NodeInv(n)
      BY <1>3, <1>6 DEF Owns, IInv
    <2>4. task[n] = IF a.ok THEN After(left[c][1], st[c]) ELSE st[c]
      BY <1>1, <1>2, <2>3 DEF NodeInv, Known
    <2>5. task[n] = st'[c]
      <3>1. st[c] \in TaskState
        BY <1>2 DEF IInv, Typed
      <3>2. CASE Call(c) = "data"
        BY <1>4, <2>1, <2>4, <3>1, <3>2, AfterType DEF NewState, Good, Neutral
      <3>3. CASE Call(c) # "data"
        BY <1>4, <1>6, <2>1, <2>4, <3>3 DEF NewState, Good
      <3> QED
        BY <3>2, <3>3
    <2> QED
      BY <2>2, <2>3, <2>5 DEF a
  <1> QED
    BY <1>5, <1>6

LEMMA ReadInv ==
    ASSUME IInv, NEW c \in Client, Read(c)
    PROVE  IInv'
  <1> DEFINE a == Head(outbox[node[c]])
             m == [cmd |-> left[c][2], from |-> c]
             done == /\ Done(c, a) /\ pc' = [pc EXCEPT ![c] = "unlock"] /\ inbox' = inbox
                     /\ left' = [left EXCEPT ![c] = <<>>]
             goes == /\ ~Done(c, a) /\ Good(c, a) /\ pc' = pc /\ Len(left[c]) = 2
                     /\ <<left[c][2]>> \in Lefts(Call(c))
                     /\ left[c][2] \in Order /\ left' = [left EXCEPT ![c] = <<left[c][2]>>]
                     /\ inbox' = [inbox EXCEPT ![node[c]] = Append(@, m)]
  <1>1. Typed' /\ Places' /\ Others(c)
    BY ReadPlaces
  <1>2. /\ rest[c] # <<>> /\ Call(c) \in PcmCall \cup MixerCall /\ left[c] \in Lefts(Call(c))
        /\ a = outbox[node[c]][1]
        /\ UNCHANGED <<sem, task, node, io, callback, rest, loose, faults>>
        /\ st' = [st EXCEPT ![c] = NewState(c, a)]
        /\ outbox' = [outbox EXCEPT ![node[c]] = Remaining(c)] /\ (done \/ goes)
    BY ReadStep
  <1>3. pc[c] = "read" /\ node[c] \in Node /\ outbox[node[c]] # <<>> /\ pc'[c] \in {"read", "unlock"}
    BY <1>2, InCall DEF Read, IInv, Typed
  <1>4. ASSUME NEW k \in Steady', k # node[c] PROVE NodeInv(k)'
    <2>1. NodeInv(k) /\ outbox'[k] = outbox[k] /\ inbox'[k] = inbox[k]
      BY <1>2, <1>4, SteadyNodes DEF IInv, Typed
    <2> QED
      BY <1>1, <1>2, <1>4, <2>1, SteadyNodes, Elsewhere
  <1>5. ASSUME NEW n \in Steady', n = node[c] PROVE NodeInv(n)'
    <2>0. n \in Steady /\ n \in Node /\ NodeInv(n)
      BY <1>2, SteadyNodes
    <2>1. NodeInv(n) /\ c \in At(n) /\ At(n)' = At(n)
      BY <1>2, <1>5, <2>0 DEF At
    <2>2. Holds(c) /\ Holds(c)' /\ sem[n] = 0 /\ sem'[n] = 0 /\ Answered(c, n)
      BY <1>2, <1>3, <1>5, <2>1 DEF NodeInv, LockSound, Mail, Asked, Holds
    <2>3. \A d \in At(n) \ {c} : pc'[d] = pc[d] /\ pc[d] \notin {"read", "unlock"} /\ ~Holds(d)'
      BY <1>1, <2>1, <2>2 DEF NodeInv, LockSound, Holds, Others, Same, At
    <2>4. LockSound(n)' /\ Attended(n)'
      BY <2>1, <2>2, <2>3 DEF LockSound, Attended
    <2>5. outbox'[n] = <<>>
      <3>1. outbox'[n] = Remaining(c)
        BY <1>2, <1>5, <2>0 DEF IInv, Typed
      <3>2. Call(c) # "play" => left[c][1] # "play"
        BY <1>2, LeftOf
      <3> QED
        BY <1>5, <2>2, <3>1, <3>2 DEF Remaining, Answered
    <2> HIDE DEF m, a
    <2>6. done => inbox'[n] = <<>> /\ pc'[c] = "unlock" /\ Clean(n)'
      BY <1>3, <2>2, <2>5 DEF Answered, Clean, IInv, Typed
    <2>7. goes => /\ inbox'[n] = <<m>> /\ left'[c] = <<left[c][2]>> /\ left'[c][1] = left[c][2] /\ pc'[c] = "read"
                  /\ Asked(c, n)' /\ m.cmd = left[c][2]
      <3> SUFFICES ASSUME goes
                   PROVE  /\ inbox'[n] = <<m>> /\ left'[c] = <<left[c][2]>> /\ left'[c][1] = left[c][2] /\ pc'[c] = "read"
                          /\ Asked(c, n)' /\ m.cmd = left[c][2]
        OBVIOUS
      <3>1. left'[c] = <<left[c][2]>> /\ left'[c][1] = left[c][2]
        BY <1>2 DEF IInv, Typed
      <3>2. inbox'[n] = Append(<<>>, m)
        BY <1>5, <2>0, <2>2 DEF Answered, IInv, Typed
      <3>3. inbox'[n] = <<m>>
        BY <3>2
      <3>4. m.cmd = left[c][2] /\ m = [cmd |-> left'[c][1], from |-> c]
        BY <3>1 DEF m
      <3> QED
        BY <1>3, <2>5, <3>1, <3>3, <3>4 DEF Asked
    <2>8. Mail(n)'
      <3>1. inbox'[n] = <<>> \/ inbox'[n] = <<inbox'[n][1]>>
        BY <1>2, <2>6, <2>7
      <3>2. \A d \in At(n) : pc'[d] \in {"read", "unlock"} => d = c
        BY <2>3
      <3>3. (pc'[c] = "unlock" /\ Clean(n)') \/ (pc'[c] = "read" /\ Asked(c, n)')
        BY <1>2, <2>6, <2>7
      <3> QED
        BY <2>1, <2>2, <3>1, <3>2, <3>3 DEF Mail
    <2>9. ASSUME NEW p \in Pcm, Owns(p, n)', "init" \notin faults' PROVE Known(p, n)' /\ Sole(p, n)'
      <3>1. p \in At(n) /\ node[p] = n
        BY <1>2, <2>9 DEF Owns, At, Client
      <3>2. CASE p = c
        <4>1. task[n] = st'[c] /\ Done(c, a) /\ (Owns(c, n) \/ left[c][1] = "init")
          BY <1>2, <1>5, <2>0, <2>2, <2>9, <3>2, ReadOwner DEF Owns, a
        <4>2. inbox'[n] = <<>> /\ pc'[c] = "unlock"
          BY <1>2, <2>6, <4>1
        <4>3. Known(p, n)'
          BY <1>2, <3>2, <4>1, <4>2 DEF Known
        <4>4. ASSUME NEW q \in Pcm \ {p}, node[q] = n PROVE st[q] = "uninit"
          <5>1. Owns(c, n) => st[q] = "uninit"
            BY <1>2, <2>1, <2>9, <3>2, <4>4 DEF NodeInv, Sole
          <5>2. ~Owns(c, n) => st[q] = "uninit"
            <6> SUFFICES ASSUME Owns(q, n) PROVE left[c][1] = "state"
              BY <4>1, <4>4 DEF Owns
            <6> QED
              BY <1>2, <1>3, <1>5, <2>1, <2>9, <3>2, <4>4 DEF NodeInv, Sole
          <5> QED
            BY <5>1, <5>2
        <4>5. Sole(p, n)'
          BY <1>1, <1>2, <2>3, <3>2, <4>4 DEF Sole, Others, Same, At, Client
        <4> QED
          BY <4>3, <4>5
      <3>3. CASE p # c
        <4>1. Owns(p, n) /\ st'[p] = st[p] /\ pc[p] # "read" /\ pc'[p] # "read"
          BY <1>1, <2>3, <2>9, <3>1, <3>3 DEF Owns, Others, Same, At
        <4>2. task[n] = st[p] /\ Sole(p, n)
          BY <1>2, <2>1, <2>9, <4>1 DEF NodeInv, Known
        <4>3. CASE c \in Pcm
          <5>1. st[c] = "uninit" /\ left[c][1] = "state" /\ ~Owns(c, n)
            BY <1>3, <1>5, <3>3, <4>2, <4>3 DEF Sole, Owns
          <5>2. st'[c] = "uninit"
            BY <1>2, <1>5, <2>0, <2>9, <4>3, <5>1, ReadOwner
          <5>3. Done(c, a)
            <6>1. Call(c) = "open"
              <7>1. PcmPlace(c)
                BY <4>3 DEF IInv, Places
              <7> QED
                BY <1>3, <5>1, <7>1 DEF PcmPlace
            <6>2. a.status = task[n] /\ task[n] # "uninit"
              BY <1>2, <1>5, <2>2, <4>1, <4>2 DEF Answered, Owns
            <6> QED
              BY <5>1, <6>1, <6>2 DEF Done, Good, FreeNode
          <5>4. inbox'[n] = <<>> /\ pc'[c] = "unlock"
            BY <1>2, <2>6, <5>3
          <5>5. Known(p, n)'
            BY <1>2, <4>1, <4>2, <5>4 DEF Known
          <5>6. Sole(p, n)'
            BY <1>1, <1>2, <2>3, <4>2, <5>2, <5>4 DEF Sole, Others, Same, At, Client
          <5> QED
            BY <5>5, <5>6
        <4>4. CASE c \notin Pcm
          <5>1. inbox'[n] # <<>> => inbox'[n][1].cmd \in Neutral
            <6>1. Call(c) \in MixerCall
              BY <1>2, <4>4, HeadTail DEF IInv, Places, MixerPlace, Call, Client
            <6>2. Len(left[c]) = 2 => left[c][2] \in Neutral
              <7>1. \A i \in 1..Len(left[c]) : left[c][i] \in Neutral
                BY <1>2, <6>1, LeftOf
              <7> QED
                BY <7>1
            <6>3. inbox'[n] = <<m>> => inbox'[n][1] = m
              OBVIOUS
            <6> QED
              BY <1>2, <2>6, <2>7, <6>2, <6>3
          <5>2. Known(p, n)'
            BY <1>2, <4>1, <4>2, <5>1 DEF Known
          <5>3. Sole(p, n)'
            BY <1>1, <1>2, <4>2, <4>4 DEF Sole, Others, Same, Client
          <5> QED
            BY <5>2, <5>3
        <4> QED
          BY <4>3, <4>4
      <3> QED
        BY <3>2, <3>3
    <2> QED
      BY <2>4, <2>8, <2>9 DEF NodeInv
  <1> QED
    BY <1>1, <1>2, <1>4, <1>5 DEF IInv

-----------------------------------------------------------------------------
LEMMA StepInv == IInv /\ [Next]_vars => IInv'
  <1> SUFFICES ASSUME IInv, [Next]_vars PROVE IInv'
    OBVIOUS
  <1>1. ASSUME NEW n \in Node, Task(n) \/ Trails(n) \/ TrailsLate(n) PROVE IInv'
    BY <1>1, TaskInv, TrailsInv, TrailsLateInv
  <1>2. ASSUME NEW c \in Client, Application(c) PROVE IInv'
    BY <1>2, ApplicationInv
  <1>3. ASSUME NEW c \in Client, Runs(c) PROVE IInv'
    BY <1>3, UnlockedReturns, GetSemInv, CreateSemInv, SetValInv, ReadInv, UnlockInv, NextNodeInv, FinishInv DEF Runs
  <1>4. ASSUME NEW c \in Client, Lock(c) \/ LockFails(c) \/ Crash(c) PROVE IInv'
    BY <1>4, LockInv, UnlockedReturns, CrashInv
  <1>5. CASE UNCHANGED vars
    <2>1. UNCHANGED <<sem, task, inbox, outbox, node, st, io, callback, rest, pc, left, ok, loose, faults>>
      BY <1>5 DEF vars, dsp, handle, control
    <2>2. Typed' /\ Places'
      BY <2>1 DEF IInv, Typed, Places, Place, PcmPlace, MixerPlace, Call
    <2>3. ASSUME NEW n \in Steady' PROVE NodeInv(n)'
      <3>1. NodeInv(n) /\ At(n)' = At(n)
        BY <2>1, SteadyNodes DEF At
      <3>2. LockSound(n)' /\ Attended(n)' /\ Mail(n)'
        BY <2>1, <3>1 DEF NodeInv, LockSound, Attended, Mail, Holds, Clean, Asked, Answered
      <3>3. "init" \notin faults' => \A p \in Pcm : Owns(p, n)' => Known(p, n)' /\ Sole(p, n)'
        BY <2>1, <3>1 DEF NodeInv, Owns, Known, Sole
      <3> QED
        BY <3>2, <3>3 DEF NodeInv
    <2> QED
      BY <2>2, <2>3 DEF IInv
  <1> QED
    BY <1>1, <1>2, <1>3, <1>4, <1>5 DEF Next

\* While the answers of a device are in step, its semaphore excludes and its mailbox is
\* empty but for a client's one command or what the task has answered to it; and until a
\* task has refused to be initialised a PCM that owns one knows it, the commands on their
\* way included: the invariant the other theorems rest on.
THEOREM MailboxInvariant == Spec => []IInv
  BY InitInv, StepInv, PTL DEF Spec

\* A PCM that has initialised its task (dsp_protocol_open_node) is the only one that has,
\* and knows the task's state between its calls, unless the semaphore was raised by one
\* that did not hold it (dsp_protocol_close_node), a message of PLAY came after the flush,
\* or a task refused to be initialised, which the PCM takes for an answer like any other.
THEOREM TaskHasOneOwner == Spec => []OneOwner
  <1>1. IInv => OneOwner
    <2> SUFFICES ASSUME IInv, NEW p \in Pcm, InStep(node[p]), "init" \notin faults
                 PROVE  /\ \A q \in Pcm \ {p} : node[q] = node[p] => st[p] = "uninit" \/ st[q] = "uninit"
                        /\ StateAgrees(p)
      BY DEF OneOwner
    <2>1. node[p] \in Steady
      BY DEF Steady, InStep
    <2>2. st[p] # "uninit" => Known(p, node[p]) /\ Sole(p, node[p])
      BY <2>1 DEF IInv, NodeInv, Owns
    <2> QED
      BY <2>2 DEF Known, Sole, StateAgrees
  <1> QED
    BY <1>1, InitInv, StepInv, PTL DEF Spec

\* A client that reads has its command or the answer in the mailbox of the device, and one
\* that waits in dsp_protocol_lock_dev waits for a client that has the semaphore or is about
\* to set it (dsp_protocol_get_sem), unless a client died or the semaphore was raised by
\* one that did not hold it.
THEOREM NobodyWaitsInVain == Spec => []Waits
  <1>1. IInv => Waits
    <2> SUFFICES ASSUME IInv, NEW c \in Client, InStep(node[c])
                 PROVE  /\ pc[c] = "read" => \/ \E i \in 1..Len(inbox[node[c]]) : inbox[node[c]][i].from = c
                                             \/ \E i \in 1..Len(outbox[node[c]]) : outbox[node[c]][i].to = c
                        /\ AtLock(c) /\ sem[node[c]] = 0 /\ "crash" \notin faults =>
                              \E d \in Client : node[d] = node[c] /\ (Holds(d) \/ pc[d] = "setval")
      BY DEF Waits
    <2>1. node[c] \in Node /\ NodeInv(node[c]) /\ c \in At(node[c])
      BY DEF IInv, Steady, InStep, At
    <2>2. ASSUME pc[c] = "read"
          PROVE  \/ \E i \in 1..Len(inbox[node[c]]) : inbox[node[c]][i].from = c
                 \/ \E i \in 1..Len(outbox[node[c]]) : outbox[node[c]][i].to = c
      <3>1. Asked(c, node[c]) \/ Answered(c, node[c])
        BY <2>1, <2>2 DEF NodeInv, Mail
      <3>2. CASE Asked(c, node[c])
        <4> DEFINE m == [cmd |-> left[c][1], from |-> c]
        <4>1. inbox[node[c]] = <<m>> /\ m.from = c
          BY <3>2 DEF Asked
        <4> HIDE DEF m
        <4>2. Len(<<m>>) = 1 /\ <<m>>[1] = m
          OBVIOUS
        <4> QED
          BY <4>1, <4>2
      <3>3. CASE Answered(c, node[c])
        <4>1. outbox[node[c]] \in Seq(Reply) /\ outbox[node[c]] # <<>> /\ outbox[node[c]][1].to = c
          BY <2>1, <3>3 DEF Answered, IInv, Typed
        <4>2. Len(outbox[node[c]]) >= 1 /\ Len(outbox[node[c]]) \in Nat
          BY <4>1, HeadTail
        <4>3. 1 \in 1..Len(outbox[node[c]])
          BY <4>2
        <4> QED
          BY <4>1, <4>3
      <3> QED
        BY <3>1, <3>2, <3>3
    <2>3. sem[node[c]] = 0 /\ "crash" \notin faults =>
              \E d \in Client : node[d] = node[c] /\ (Holds(d) \/ pc[d] = "setval")
      BY <2>1 DEF NodeInv, Attended, At
    <2> QED
      BY <2>2, <2>3
  <1> QED
    BY <1>1, InitInv, StepInv, PTL DEF Spec

\* dsp_protocol_read_data and its like read the answer to the reader's own last command,
\* whoever used the device before and however many messages PLAY puts behind its answer
\* before dsp_protocol_send_play flushes them, until one comes after the flush or the
\* semaphore is raised by one that did not hold it.
THEOREM AnswersReachTheAsker == Spec => OwnReply
  <1>1. IInv => [\A c \in Client : Read(c) /\ InStep(node[c]) => ReadsOwn(c)]_vars
    <2> SUFFICES ASSUME IInv, NEW c \in Client, Read(c), InStep(node[c])
                 PROVE  ReadsOwn(c)
      OBVIOUS
    <2>1. /\ rest[c] # <<>> /\ Call(c) \in PcmCall \cup MixerCall /\ left[c] \in Lefts(Call(c))
          /\ Head(outbox[node[c]]) = outbox[node[c]][1]
      BY ReadStep
    <2>2. pc[c] = "read" /\ node[c] \in Node /\ outbox[node[c]] # <<>> /\ node[c] \in Steady
      BY InCall DEF Read, Steady
    <2>3. Answered(c, node[c])
      BY <2>2 DEF IInv, NodeInv, Mail, At, Asked
    <2>4. Head(left[c]) = left[c][1]
      BY <2>1, LeftOf, HeadTail
    <2> QED
      BY <2>1, <2>3, <2>4 DEF Answered, ReadsOwn
  <1> QED
    BY <1>1, InitInv, StepInv, PTL DEF Spec, OwnReply
=============================================================================
