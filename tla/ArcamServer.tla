------------------------------ MODULE ArcamServer ------------------------------
(* The server of the Arcam amplifier plugin (arcam-av/arcam_av.c).  Every open *)
(* mixer handle starts a thread.  The thread that binds the abstract socket    *)
(* named after the serial port is the master and reads the amplifier; the      *)
(* others connect to it as slaves, and bind when it is gone.  A change of the  *)
(* amplifier is one byte sent to every connection; a stop is the pthread_t of  *)
(* the thread meant, sent to the master and passed on to every connection.     *)
EXTENDS ArcamHandles, Naturals, Sequences, FiniteSets, SequencesExt

CONSTANTS None,       \* no owner of the socket's name
          MaxOpens,   \* bound on the calls of snd_ctl_open
          MaxFaults,  \* bound on the kinds of faults in one behaviour; ids that clash are one
          MaxEvents,  \* bound on the changes the amplifier reports
          Ids         \* the pthread_t's that the threads may have, in bytes

\* What travels: the byte broadcast for a change is the NUL of "", and the bytes of a
\* pthread_t, of which two stand for eight, may be anything.
Bytes == 0..255
Event == 0
IdSize == 2

ASSUME NoneAssumption == None \notin Handle
ASSUME IdsAssumption == Ids \subseteq [Handle -> [1..IdSize -> Bytes]]

VARIABLES owner,      \* whose thread has bound the name
          listening,  \* its socket accepts connections
          backlog,    \* connections not accepted yet
          conn,       \* state of every connection, seen from its client
          down,       \* bytes on the way to the client of a connection
          sent,       \* handles whose pthread_t waits in their stop connection
          pc,         \* where each server thread is
          holds,      \* threads that still have the address of the semaphore
          posted,     \* posts of each handle's semaphore
          app,        \* where the application is in open and close
          opens,      \* handles opened so far
          events,     \* changes reported so far
          env,        \* what may happen besides: see Environment
          id          \* the pthread_t of each handle's thread, unique in its process only

vars == <<owner, listening, backlog, conn, down, sent, pc, holds, posted, app, opens, events, env, id>>
net == <<backlog, conn, down, sent>>
rest == <<posted, holds, app, opens, events, env, id>>

Conn == Handle \X {"slave", "client", "stop"}
Slave(p) == <<p, "slave">>
Client(p) == <<p, "client">>
Stop(p) == <<p, "stop">>

\* No two threads have the same pthread_t.
Distinct == \A p, q \in Handle : id[p] = id[q] => p = q
\* No pthread_t is the end of an event or a message with the beginning of the next.
Unambiguous ==
    \A p \in Handle : \/ id[p][1] \notin {Event} \cup {id[q][2] : q \in Handle}
                      \/ id[p][2] \notin {Event} \cup {id[q][1] : q \in Handle}

Alive == {"socket", "bound", "master", "closing", "connect", "slave"}
Ended == {"none", "stopped", "quit"}
\* What the environment may do: kill processes, make arcam_av_state_attach fail,
\* report changes, close more than one handle, read events when there are none.
Environment == {"crash", "attach", "event", "stops", "again"}

Init ==
    /\ owner = None /\ listening = FALSE /\ backlog = <<>>
    /\ conn = [c \in Conn |-> "none"] /\ down = [c \in Conn |-> <<>>] /\ sent = {}
    /\ pc = [p \in Handle |-> "none"]
    /\ holds = {} /\ posted = [p \in Handle |-> 0]
    /\ app = [p \in Handle |-> "closed"]
    /\ opens = 0 /\ events = 0
    /\ id \in Ids
    /\ env \in {e \in SUBSET Environment :
                   Cardinality(e) + (IF Distinct /\ Unambiguous THEN 0 ELSE 1) <= MaxFaults}

-----------------------------------------------------------------------------
\* Unix stream sockets, as the plugin uses them.
Connectable == owner # None /\ listening
Open(c) == conn[c] \in {"queued", "accepted"}
Enqueue(c) == /\ backlog' = Append(backlog, c)
              /\ conn' = [conn EXCEPT ![c] = "queued"]
              /\ down' = [down EXCEPT ![c] = <<>>]
\* A connection waits in the backlog once at most.
Leave(queue, c) == RemoveFirst(queue, c)
\* close() by the client: the master reads 0 and forgets the connection.
Hangup(c) == /\ conn' = [conn EXCEPT ![c] = "none"]
             /\ down' = [down EXCEPT ![c] = <<>>]
             /\ backlog' = Leave(backlog, c)
\* The server's end is closed: bytes already sent can still be read.
ResetAll(cs) == conn' = [c \in Conn |-> IF c \in cs /\ Open(c) THEN "reset" ELSE conn[c]]
\* send() to every accepted connection.
Broadcast(bytes) ==
    down' = [c \in Conn |-> IF conn[c] = "accepted" THEN down[c] \o bytes ELSE down[c]]
Unread(cs) == sent' = {p \in sent : Stop(p) \notin cs}

\* Mutant: the address is kept after the post.
ForgetNot(p) == UNCHANGED holds
\* The thread posts the semaphore once and forgets its address.
Forget(p) == holds' = holds \ {p}
Post(p) == IF p \in holds THEN posted' = [posted EXCEPT ![p] = @ + 1] /\ Forget(p)
                          ELSE UNCHANGED <<posted, holds>>

-----------------------------------------------------------------------------
\* The server thread.
Goto(p, to) == pc' = [pc EXCEPT ![p] = to]

\* bind() succeeds, or fails with EADDRINUSE.
Bind(p) ==
    /\ pc[p] = "socket"
    /\ IF owner = None THEN owner' = p /\ Goto(p, "bound") ELSE Goto(p, "connect") /\ UNCHANGED owner
    /\ UNCHANGED <<listening, net, rest>>

\* listen() and sem_post.
Listen(p) ==
    /\ pc[p] = "bound"
    /\ listening' = TRUE
    /\ Post(p)
    /\ Goto(p, "master")
    /\ UNCHANGED <<owner, net, app, opens, events, env, id>>

\* arcam_av_state_attach fails: the master serves nobody.
AttachFails(p) ==
    /\ pc[p] = "master" /\ "attach" \in env
    /\ \A c \in Conn : conn[c] # "accepted"
    /\ Goto(p, "failed")
    /\ UNCHANGED <<owner, listening, net, rest>>

Accept(p) ==
    /\ pc[p] = "master" /\ backlog # <<>>
    /\ conn' = [conn EXCEPT ![Head(backlog)] = "accepted"]
    /\ backlog' = Tail(backlog)
    /\ UNCHANGED <<owner, listening, down, sent, pc, rest>>

\* arcam_av_update saw a change.
Report(p) ==
    /\ pc[p] = "master" /\ "event" \in env /\ events < MaxEvents
    /\ events' = events + 1
    /\ Broadcast(<<Event>>)
    /\ UNCHANGED <<owner, listening, backlog, conn, sent, pc, posted, holds, app, opens, env, id>>

\* Mutant: any stop message ends the master.
MineAlways(p, q) == TRUE
\* A pthread_t arrives: one like the master's own ends it, any other is passed on.
Mine(p, q) == id[q] = id[p]
PassOn(p, q) ==
    /\ pc[p] = "master" /\ q \in sent /\ conn[Stop(q)] = "accepted" /\ ~Mine(p, q)
    /\ sent' = sent \ {q}
    /\ Broadcast(id[q])
    /\ UNCHANGED <<owner, listening, backlog, conn, pc, rest>>
\* It closes what it accepted; its own socket stays bound until the thread closes it.
MasterStopped(p, q) ==
    /\ pc[p] = "master" /\ q \in sent /\ conn[Stop(q)] = "accepted" /\ Mine(p, q)
    /\ LET accepted == {c \in Conn : conn[c] = "accepted"} IN ResetAll(accepted) /\ Unread(accepted)
    /\ Goto(p, "closing")
    /\ UNCHANGED <<owner, listening, backlog, down, rest>>

\* close(server_fd) of the master: what waits in the backlog is reset, the name is free.
Unbind == /\ owner' = None /\ listening' = FALSE /\ backlog' = <<>>
          /\ ResetAll(Conn) /\ Unread(Conn)
CloseServer(p) ==
    /\ pc[p] \in {"closing", "failed"}
    /\ Unbind
    /\ Goto(p, IF pc[p] = "closing" THEN "stopped" ELSE "quit")
    /\ UNCHANGED <<down, rest>>

\* The name was in use: connect() as a slave.
ConnectSlave(p) ==
    /\ pc[p] = "connect" /\ Connectable
    /\ Enqueue(Slave(p))
    /\ Post(p)
    /\ Goto(p, "slave")
    /\ UNCHANGED <<owner, listening, sent, app, opens, events, env, id>>

\* The owner does not listen yet, or has gone: the thread ends.
ConnectRefused(p) ==
    /\ pc[p] = "connect" /\ ~Connectable
    /\ Post(p)
    /\ Goto(p, "quit")
    /\ UNCHANGED <<owner, listening, net, app, opens, events, env, id>>

\* Mutant: the buffer is a byte short.
ReceivedShort(p) == SubSeq(down[Slave(p)], 1, IF Len(down[Slave(p)]) < IdSize - 1 THEN Len(down[Slave(p)]) ELSE IdSize - 1)
\* recv() of up to a pthread_t's size: whatever has arrived, cut where it happens to be.
Received(p) == SubSeq(down[Slave(p)], 1, IF Len(down[Slave(p)]) < IdSize THEN Len(down[Slave(p)]) ELSE IdSize)
Consume(p) == down' = [down EXCEPT ![Slave(p)] = SubSeq(@, Len(Received(p)) + 1, Len(@))]
SlaveReads(p) ==
    /\ pc[p] = "slave" /\ down[Slave(p)] # <<>> /\ Received(p) # id[p]
    /\ Consume(p)
    /\ UNCHANGED <<owner, listening, backlog, conn, sent, pc, rest>>
SlaveStopped(p) ==
    /\ pc[p] = "slave" /\ Received(p) = id[p]
    /\ Hangup(Slave(p))
    /\ Goto(p, "stopped")
    /\ UNCHANGED <<owner, listening, sent, rest>>
\* Mutant: the slave reads on at the end of file.
AfterEofReads == "slave"
\* The master has closed: try to take its place.
AfterEof == "socket"
SlaveEof(p) ==
    /\ pc[p] = "slave" /\ conn[Slave(p)] = "reset" /\ down[Slave(p)] = <<>>
    /\ Hangup(Slave(p))
    /\ Goto(p, AfterEof)
    /\ UNCHANGED <<owner, listening, sent, rest>>

\* A pthread_t in a stop connection.
ReadStop(p, q) == PassOn(p, q) \/ MasterStopped(p, q)
\* The steps that follow each other in a thread.
ThreadStep(p) ==
    \/ Bind(p) \/ Listen(p) \/ CloseServer(p) \/ ConnectSlave(p) \/ ConnectRefused(p)
    \/ SlaveReads(p) \/ SlaveStopped(p) \/ SlaveEof(p)

-----------------------------------------------------------------------------
\* The application: snd_ctl_open, read_event and snd_ctl_close.
AppGoto(p, to) == app' = [app EXCEPT ![p] = to]

Start(p) ==
    /\ app[p] \in {"closed", "done", "dead"} /\ opens < MaxOpens
    /\ app[p] = "done" => "stops" \in env
    /\ opens' = opens + 1
    /\ AppGoto(p, "starting")
    /\ Goto(p, "socket")
    /\ holds' = holds \cup {p} /\ posted' = [posted EXCEPT ![p] = 0]
    /\ UNCHANGED <<owner, listening, net, events, env, id>>

\* sem_wait returns; sem_destroy.
Started(p) ==
    /\ app[p] = "starting" /\ posted[p] > 0
    /\ AppGoto(p, "client")
    /\ UNCHANGED <<owner, listening, net, pc, posted, holds, opens, events, env, id>>

\* arcam_av_client: the first connection of a handle, or a new one after read_event lost it.
ConnectClient(p) ==
    /\ app[p] \in {"client", "reconnect"} /\ Connectable
    /\ Enqueue(Client(p))
    /\ AppGoto(p, IF app[p] = "client" THEN "attach" ELSE "open")
    /\ UNCHANGED <<owner, listening, sent, pc, posted, holds, opens, events, env, id>>

\* Every retry is refused.  arcam_av_close stops the server only if there is a connection.
ClientGivesUp(p) ==
    /\ app[p] \in {"client", "reconnect"} /\ ~Connectable
    /\ AppGoto(p, IF app[p] = "client" THEN "failed" ELSE "deaf")
    /\ UNCHANGED <<owner, listening, net, pc, posted, holds, opens, events, env, id>>

Attached(p) ==
    /\ app[p] = "attach"
    /\ AppGoto(p, "open")
    /\ UNCHANGED <<owner, listening, net, pc, posted, holds, opens, events, env, id>>

\* read_event with nothing to report: recv takes what is there.
ReadEvent(p) ==
    /\ app[p] = "open" /\ down[Client(p)] # <<>>
    /\ down' = [down EXCEPT ![Client(p)] = <<>>]
    /\ UNCHANGED <<owner, listening, backlog, conn, sent, pc, rest>>
\* recv fails: the server is gone, or (EAGAIN) there is nothing to read.
ReadEventFails(p) ==
    /\ app[p] = "open" /\ down[Client(p)] = <<>>
    /\ conn[Client(p)] = "reset" \/ "again" \in env
    /\ Hangup(Client(p))
    /\ AppGoto(p, "reconnect")
    /\ UNCHANGED <<owner, listening, sent, pc, posted, holds, opens, events, env, id>>

Stopping == {"stop", "send", "join", "done"}
\* arcam_av_close of an open handle, or of one whose open fails after the connection is made.
Close(p) ==
    /\ app[p] \in {"attach", "open"}
    /\ "stops" \in env \/ \A q \in Handle : app[q] \notin Stopping
    /\ Hangup(Client(p))
    /\ AppGoto(p, "stop")
    /\ UNCHANGED <<owner, listening, sent, pc, posted, holds, opens, events, env, id>>
\* A deaf handle has no connection: its thread is not stopped.
CloseDeaf(p) ==
    /\ app[p] = "deaf"
    /\ AppGoto(p, "failed")
    /\ UNCHANGED <<owner, listening, net, pc, posted, holds, opens, events, env, id>>

\* arcam_av_server_stop
ConnectStop(p) ==
    /\ app[p] = "stop" /\ Connectable
    /\ Enqueue(Stop(p))
    /\ AppGoto(p, "send")
    /\ UNCHANGED <<owner, listening, sent, pc, posted, holds, opens, events, env, id>>
StopGivesUp(p) ==
    /\ app[p] = "stop" /\ ~Connectable
    /\ AppGoto(p, "failed")
    /\ UNCHANGED <<owner, listening, net, pc, posted, holds, opens, events, env, id>>
SendStop(p) ==
    /\ app[p] = "send"
    /\ IF Open(Stop(p)) THEN sent' = sent \cup {p} /\ AppGoto(p, "join")
                        ELSE AppGoto(p, "failed") /\ UNCHANGED sent
    /\ UNCHANGED <<owner, listening, backlog, conn, down, pc, posted, holds, opens, events, env, id>>
Join(p) ==
    /\ app[p] = "join" /\ pc[p] \in Ended
    /\ Hangup(Stop(p))
    /\ sent' = sent \ {p}
    /\ AppGoto(p, "done")
    /\ UNCHANGED <<owner, listening, pc, posted, holds, opens, events, env, id>>

\* Steps the application is in the middle of.
AppStep(p) == Started(p) \/ ConnectClient(p) \/ ClientGivesUp(p) \/ Attached(p)
              \/ ConnectStop(p) \/ StopGivesUp(p) \/ SendStop(p) \/ Join(p)

\* The process dies: the kernel closes all it has.
Mortal == {"starting", "client", "reconnect", "attach", "open", "deaf", "failed"}
Crash(p) ==
    /\ app[p] \in Mortal /\ "crash" \in env
    /\ app' = [app EXCEPT ![p] = "dead"]
    /\ pc' = [pc EXCEPT ![p] = "none"]
    /\ holds' = holds \ {p}
    /\ IF owner = p THEN owner' = None /\ listening' = FALSE /\ backlog' = <<>> /\ Unread(Conn)
       ELSE /\ backlog' = Leave(Leave(Leave(backlog, Slave(p)), Client(p)), Stop(p))
            /\ UNCHANGED <<owner, listening, sent>>
    /\ conn' = [c \in Conn |-> IF c[1] = p THEN "none"
                               ELSE IF owner = p /\ Open(c) THEN "reset" ELSE conn[c]]
    /\ down' = [c \in Conn |-> IF c[1] = p THEN <<>> ELSE down[c]]
    /\ UNCHANGED <<posted, opens, events, env, id>>

Next == \E p \in Handle :
            \/ ThreadStep(p) \/ Accept(p) \/ AttachFails(p) \/ Report(p)
            \/ \E q \in Handle : ReadStop(p, q)
            \/ Start(p) \/ AppStep(p) \/ ReadEvent(p) \/ ReadEventFails(p)
            \/ Close(p) \/ CloseDeaf(p) \/ Crash(p)

\* The scheduler runs every thread, a pass of the master serves every descriptor
\* that select found ready, and an application ends the calls it is in.
Fairness == \A p \in Handle : /\ WF_vars(ThreadStep(p)) /\ WF_vars(Accept(p)) /\ WF_vars(AppStep(p))
                              /\ \A q \in Handle : WF_vars(ReadStop(p, q))
Spec == Init /\ [][Next]_vars /\ Fairness

-----------------------------------------------------------------------------
\* Types; the backlog is the connections not accepted yet, each once; the owner of
\* the name is a thread that bound it, and it alone listens.
TypeOK ==
    /\ owner \in Handle \cup {None} /\ listening \in BOOLEAN
    /\ IsInjective(backlog) /\ Range(backlog) = {c \in Conn : conn[c] = "queued"}
    /\ conn \in [Conn -> {"none", "queued", "accepted", "reset"}]
    /\ \A c \in Conn : Range(down[c]) \subseteq Bytes
    /\ sent \subseteq Handle /\ holds \subseteq Handle
    /\ pc \in [Handle -> Alive \cup Ended \cup {"failed"}]
    /\ {p \in Handle : pc[p] \in {"bound", "master", "closing", "failed"}} = {owner} \ {None}
    /\ listening = (owner # None /\ pc[owner] # "bound")
    /\ posted \in [Handle -> 0..1]
    /\ id \in Ids

\* The semaphore lives on the stack of arcam_av_server_start: the thread posts it
\* only while that call waits, however often it reconnects later.
PostWhileWaited == [][\A p \in Handle : posted'[p] > posted[p] => app[p] = "starting"]_vars

\* Opening a mixer gets past arcam_av_server_start whatever becomes of the thread.
StartReturns == \A p \in Handle : app[p] = "starting" ~> app[p] # "starting"

\* While any server thread lives, one of them reads the amplifier sooner or later,
\* through crashes, stops and failures of others.
SomeMaster == []<>(\/ \E p \in Handle : pc[p] = "master"
                   \/ \A p \in Handle : pc[p] \in Ended)

\* Threads of different processes may have the same pthread_t, and the NUL of an event
\* may be a byte of one.  Otherwise a thread ends by a stop message only if its own
\* handle is being closed: no cutting or joining of messages makes one of another's.
StoppedOnRequest ==
    Distinct /\ Unambiguous => \A p \in Handle : pc[p] = "stopped" => app[p] \in {"join", "done"}

\* Closing a mixer returns, as long as nothing else happens to the servers and no other
\* thread takes the message for its own: with a second close, a reported change or the
\* end of another thread it can be lost as well, and pthread_join waits for ever.
StopReturns ==
    \A p \in Handle : env \subseteq {"again"} /\ Distinct /\ app[p] = "join" ~> app[p] = "done"

\* Nobody who opens or closes a mixer hangs: both of the above.
CallsReturn == StartReturns /\ StopReturns
=============================================================================
