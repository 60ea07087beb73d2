----------------------------- MODULE RelayConns -----------------------------
(***************************************************************************)
(* The connection table of the relay (crates/aion2-relay/src/relay.rs).    *)
(*                                                                         *)
(* A proxy sends Connect, Data, Shutdown and Reset for the flows it has    *)
(* intercepted.  For every Connect the relay spawns a task that connects   *)
(* to the game server, answers Connected, registers two channels in the    *)
(* table "conns" and splits into a writer (tunnel to server) and a reader  *)
(* (server to tunnel).  Both ends of a task remove the table entry of      *)
(* their flow when they are through.                                       *)
(*                                                                         *)
(* The uplink of a session is one TCP stream, so the message a proxy sends *)
(* is handled in the same step: what delays it delays no one else, since   *)
(* the answers travel in "down" and may be delivered arbitrarily late.     *)
(* The game server, the network and the proxy's table of flows ("phase")   *)
(* are the environment.  How a session gets and loses its transport is the *)
(* subject of RelaySessions; here "linked" says whether it has one.        *)
(***************************************************************************)
EXTENDS Naturals, Sequences

CONSTANTS
  Session,   \* random session ids, one per running proxy
  ConnId,    \* the 4-tuples of the intercepted flows
  Task,      \* spawned handle_connect tasks, one per Connect handled
  NoTask,    \* the table has no entry
  TxCap,     \* capacity of a session's channel to its tunnel (8192)
  DataCap,   \* capacity of a connection's data channel (4096)
  MaxGen,    \* bound: incarnations of a flow
  MaxUp,     \* bound: payloads the proxy sends per incarnation
  MaxDown    \* bound: payloads the server sends per connection

ASSUME TaskAssumption == NoTask \notin Task
ASSUME BoundAssumption ==
         /\ TxCap \in Nat \ {0} /\ DataCap \in Nat \ {0}
         /\ MaxGen \in Nat /\ MaxUp \in Nat /\ MaxDown \in Nat

VARIABLES
  phase,   \* phase[k]: the proxy's NAT entry of flow k
  gen,     \* gen[k]: incarnations of flow k so far (history)
  sent,    \* sent[k]: payloads sent in the current incarnation (history)
  linked,  \* linked[s]: the TCP tunnel of session s is up
  told,    \* told[s]: messages that came to the proxy through it (history)
  conns,   \* the relay's table: flow -> task whose channels are registered
  task,    \* the state of every task and of its channels
  down     \* down[s]: messages queued for, or on their way to, the proxy

proxy == <<phase, gen, sent, linked, told>>
vars  == <<proxy, conns, task, down>>
-----------------------------------------------------------------------------
(* Flows are keyed by session and connection id, as the table is. *)
Flow   == Session \X ConnId
NoFlow == <<>>

Payload == [flow : Flow, gen : 1..MaxGen, n : 1..MaxUp]
Message == [type : {"Connected", "ConnectFailed", "Data", "Shutdown", "Reset"},
            task : Task, n : 0..MaxDown]

(***************************************************************************)
(* A task: its flow and incarnation; the position of handle_connect (c),   *)
(* of the writer (w) and of the reader (r); the data channel (dq) and the  *)
(* one-slot shutdown channel (shut); what the server was given (out, fin)  *)
(* and how many payloads were read from it.  History: rst, the proxy asked *)
(* for a Reset; due, the payloads accepted when Shutdown was signalled;    *)
(* drained, the writer ended by draining and shutting down the socket.     *)
(***************************************************************************)
NewTask(k, g) ==
  [flow |-> k, gen |-> g, c |-> "connecting", w |-> "off", r |-> "off",
   dq |-> <<>>, shut |-> FALSE, out |-> <<>>, fin |-> FALSE, reads |-> 0,
   rst |-> FALSE, due |-> 0, drained |-> FALSE]

FreeTask == [NewTask(NoFlow, 0) EXCEPT !.c = "free"]

(* A TcpConn is dropped, and its channels closed, once the table no longer *)
(* holds it: the table is the only owner of the senders.                   *)
Closed(t) == task[t].c = "live" /\ conns[task[t].flow] # t

(* The receiver of the data channel lives in the writer's future. *)
HasReceiver(t) == task[t].w \in {"run", "polled", "drain", "unregister"}

AnyDataRoom(t) == TRUE          \* mutant: an unbounded channel

DataRoom(t) == Len(task[t].dq) < DataCap

LookupByConnId(k) ==            \* mutant: the session is not part of the key
  LET here == {l \in Flow : l[2] = k[2] /\ conns[l] # NoTask}
  IN  IF here = {} THEN NoTask ELSE conns[CHOOSE l \in here : TRUE]

(* The lookup of every handler: the key is the pair (session, connection). *)
Lookup(k) == conns[k]

AnyTxRoom(s) == TRUE            \* mutant: an unbounded channel

(* send_to_client over the tunnel: try_send, dropped when the channel is   *)
(* full.  Without a tunnel the message goes by UDP and may get lost.       *)
TxRoom(s) == Len(down[s]) < TxCap

SendToClient(t, type, n) ==
  LET s == task[t].flow[1]
      m == [type |-> type, task |-> t, n |-> n]
  IN  \/ /\ TxRoom(s)
         /\ down' = [down EXCEPT ![s] = Append(@, m)]
      \/ /\ ~TxRoom(s) \/ ~linked[s]
         /\ UNCHANGED down
-----------------------------------------------------------------------------
Init ==
  /\ phase = [k \in Flow |-> "none"]
  /\ gen = [k \in Flow |-> 0]
  /\ sent = [k \in Flow |-> 0]
  /\ linked = [s \in Session |-> TRUE]
  /\ told = [s \in Session |-> <<>>]
  /\ conns = [k \in Flow |-> NoTask]
  /\ task = [t \in Task |-> FreeTask]
  /\ down = [s \in Session |-> <<>>]
-----------------------------------------------------------------------------
(* handle_message, for the message a proxy with a tunnel has just sent. *)

(* Every SYN makes a fresh NAT entry and asks for a connection. *)
Connect(k) ==
  /\ linked[k[1]] /\ gen[k] < MaxGen
  /\ phase' = [phase EXCEPT ![k] = "opening"]
  /\ gen' = [gen EXCEPT ![k] = @ + 1]
  /\ sent' = [sent EXCEPT ![k] = 0]
  /\ \E t \in Task :
       /\ task[t].c = "free"
       /\ task' = [task EXCEPT ![t] = NewTask(k, gen'[k])]
  /\ UNCHANGED <<linked, told, conns, down>>

(* The proxy forwards data once it has seen Connected.  The relay drops it *)
(* when the flow has no entry or the channel is full or closed.            *)
Data(k) ==
  /\ linked[k[1]] /\ phase[k] = "open" /\ sent[k] < MaxUp
  /\ sent' = [sent EXCEPT ![k] = @ + 1]
  /\ LET t == Lookup(k)
         p == [flow |-> k, gen |-> gen[k], n |-> sent'[k]]
     IN  \/ /\ t # NoTask /\ HasReceiver(t) /\ DataRoom(t)
            /\ task' = [task EXCEPT ![t].dq = Append(@, p)]
         \/ /\ ~(t # NoTask /\ HasReceiver(t) /\ DataRoom(t))
            /\ UNCHANGED task
  /\ UNCHANGED <<phase, gen, linked, told, conns, down>>

(* The client's FIN: the proxy forgets the flow and sends Shutdown.  The   *)
(* signal is lost when the one-slot channel is occupied or closed, and     *)
(* nobody reads it any more once the writer has left its loop.             *)
Signallable(t) ==
  task[t].w \in {"run", "polled", "drain"} /\ ~task[t].shut

Shutdown(k) ==
  /\ linked[k[1]] /\ phase[k] \in {"opening", "open"}
  /\ phase' = [phase EXCEPT ![k] = "none"]
  /\ LET t == Lookup(k)
     IN  \/ /\ t # NoTask /\ Signallable(t)
            /\ task' = [task EXCEPT ![t].shut = TRUE,
                          ![t].due = Len(task[t].out) + Len(task[t].dq)]
         \/ /\ ~(t # NoTask /\ Signallable(t))
            /\ UNCHANGED task
  /\ UNCHANGED <<gen, sent, linked, told, conns, down>>

(* The client's RST: the proxy forgets the flow, the relay drops the entry. *)
Reset(k) ==
  /\ linked[k[1]] /\ phase[k] # "none"
  /\ phase' = [phase EXCEPT ![k] = "none"]
  /\ LET t == Lookup(k)
     IN  \/ /\ t # NoTask
            /\ task' = [task EXCEPT ![t].rst = TRUE]
         \/ /\ t = NoTask
            /\ UNCHANGED task
  /\ conns' = [conns EXCEPT ![k] = NoTask]
  /\ UNCHANGED <<gen, sent, linked, told, down>>
-----------------------------------------------------------------------------
(* handle_connect: connect, announce, register, split. *)

(* The proxy is told Connected before the channels are registered. *)
ConnectOk(t) ==
  /\ task[t].c = "connecting"
  /\ task' = [task EXCEPT ![t].c = "announced"]
  /\ SendToClient(t, "Connected", 0)
  /\ UNCHANGED <<proxy, conns>>

ConnectFails(t) ==
  /\ task[t].c = "connecting"
  /\ task' = [task EXCEPT ![t].c = "gone"]
  /\ SendToClient(t, "ConnectFailed", 0)
  /\ UNCHANGED <<proxy, conns>>

(* set_nodelay fails: the error is logged and nobody is told. *)
ConnectAborts(t) ==
  /\ task[t].c = "connecting"
  /\ task' = [task EXCEPT ![t].c = "gone"]
  /\ UNCHANGED <<proxy, conns, down>>

(* The insertion replaces an older entry of the flow, whose channels close. *)
Register(t) ==
  /\ task[t].c = "announced"
  /\ conns' = [conns EXCEPT ![task[t].flow] = t]
  /\ task' = [task EXCEPT ![t].c = "live", ![t].w = "run", ![t].r = "run"]
  /\ UNCHANGED <<proxy, down>>
-----------------------------------------------------------------------------
(* The writer: tunnel to server.  A turn of its biased select polls the    *)
(* data channel first ("run") and, only if it found that empty, the        *)
(* shutdown channel ("polled"); handlers may run between the two polls.    *)

NotPopped(d) == d               \* mutant: the payload stays in the channel

Written(d) == Tail(d)

WriteData(t) ==
  /\ task[t].w \in {"run", "drain"} /\ task[t].dq # <<>>
  /\ task' = [task EXCEPT ![t].out = Append(@, Head(task[t].dq)),
                          ![t].dq = Written(@)]
  /\ UNCHANGED <<proxy, conns, down>>

(* write_all fails.  While draining the socket is shut down all the same. *)
WriteFails(t) ==
  /\ task[t].w \in {"run", "drain"} /\ task[t].dq # <<>>
  /\ task' = [task EXCEPT ![t].w = "unregister", ![t].dq = Tail(@),
                          ![t].fin = (task[t].w = "drain")]
  /\ UNCHANGED <<proxy, conns, down>>

NeverHangsUp(t) == FALSE        \* mutant: the task keeps a sender of its own

(* recv() returns None: no data left and the sender is gone. *)
Hangup(t) == Closed(t)

WriteClosed(t) ==
  /\ task[t].w = "run" /\ task[t].dq = <<>> /\ Hangup(t)
  /\ task' = [task EXCEPT ![t].w = "unregister"]
  /\ UNCHANGED <<proxy, conns, down>>

(* The data channel was empty a moment ago. *)
PollsEmpty(t) ==
  /\ task[t].w = "run" /\ task[t].dq = <<>> /\ ~Hangup(t)
  /\ task' = [task EXCEPT ![t].w = "polled"]
  /\ UNCHANGED <<proxy, conns, down>>

HungUpOnly(t) == Hangup(t)      \* mutant: the shutdown branch is missing

(* Now a signal, or a closed signal channel, starts the drain; otherwise   *)
(* the next turn begins.                                                   *)
Signalled(t) == task[t].shut \/ Hangup(t)

WriteSignalled(t) ==
  /\ task[t].w = "polled" /\ Signalled(t)
  /\ task' = [task EXCEPT ![t].w = "drain", ![t].shut = FALSE]
  /\ UNCHANGED <<proxy, conns, down>>

PollsAgain(t) ==
  /\ task[t].w = "polled" /\ ~Signalled(t)
  /\ task' = [task EXCEPT ![t].w = "run"]
  /\ UNCHANGED <<proxy, conns, down>>

NoDrain(t) == TRUE              \* mutant: shut down without draining

(* The drain is over when try_recv finds the channel empty. *)
Drained(t) == task[t].dq = <<>>

WriteShutdown(t) ==
  /\ task[t].w = "drain" /\ Drained(t)
  /\ task' = [task EXCEPT ![t].w = "unregister", ![t].fin = TRUE,
                          ![t].drained = TRUE]
  /\ UNCHANGED <<proxy, conns, down>>

ForgetsEntry(k) == conns        \* mutant: the entry is left behind

(* Writer and reader remove the entry of their flow, whichever task owns   *)
(* it; the writer drops its channels and its half of the socket as well.   *)
Unregister(k) == [conns EXCEPT ![k] = NoTask]

WriterUnregister(t) ==
  /\ task[t].w = "unregister"
  /\ conns' = Unregister(task[t].flow)
  /\ task' = [task EXCEPT ![t].w = "done", ![t].dq = <<>>, ![t].fin = TRUE]
  /\ UNCHANGED <<proxy, down>>

(* An abort takes effect at some await of the writer. *)
WriterAborted(t) ==
  /\ task[t].r \in {"unregister", "done"}
  /\ task[t].w \in {"run", "polled", "drain", "unregister"}
  /\ task' = [task EXCEPT ![t].w = "done", ![t].dq = <<>>, ![t].fin = TRUE]
  /\ UNCHANGED <<proxy, conns, down>>
-----------------------------------------------------------------------------
(* The reader: server to tunnel. *)
ReadData(t) ==
  /\ task[t].r = "run" /\ task[t].reads < MaxDown
  /\ task' = [task EXCEPT ![t].reads = @ + 1]
  /\ SendToClient(t, "Data", task[t].reads + 1)
  /\ UNCHANGED <<proxy, conns>>

LoopsOn == "run"                \* mutant: the loop is not left

(* End of file or a read error: tell the proxy, leave the loop, and abort  *)
(* the writer.                                                             *)
AfterEnd == "unregister"

ReadEnds(t) ==
  /\ task[t].r = "run"
  /\ task' = [task EXCEPT ![t].r = AfterEnd]
  /\ \E type \in {"Shutdown", "Reset"} : SendToClient(t, type, 0)
  /\ UNCHANGED <<proxy, conns>>

ReaderUnregister(t) ==
  /\ task[t].r = "unregister"
  /\ conns' = Unregister(task[t].flow)
  /\ task' = [task EXCEPT ![t].r = "done"]
  /\ UNCHANGED <<proxy, down>>
-----------------------------------------------------------------------------
(* The environment: the proxy's end of the tunnel. *)
SkipNth(q, i) == [j \in 1..(Len(q) - 1) |-> IF j < i THEN q[j] ELSE q[j + 1]]

ProxyPhase(p, type) ==
  IF p = "none" \/ type \in {"ConnectFailed", "Reset"} THEN "none"
  ELSE CASE type = "Shutdown"                   -> "closing"
         [] type = "Connected" /\ p = "opening" -> "open"
         [] OTHER                               -> p

(* A tunnel delivers in order; datagrams overtake each other. *)
Deliver(s) ==
  \E i \in 1..Len(down[s]) :
    LET m == down[s][i]
        k == task[m.task].flow
    IN  /\ linked[s] => i = 1
        /\ down' = [down EXCEPT ![s] = SkipNth(@, i)]
        /\ told' = IF linked[s] THEN [told EXCEPT ![s] = Append(@, m)] ELSE told
        /\ phase' = [phase EXCEPT ![k] = ProxyPhase(@, m.type)]
        /\ UNCHANGED <<gen, sent, linked, conns, task>>

(* The client closes a flow the server has closed, or its timer expires. *)
Forget(k) ==
  /\ phase[k] = "closing"
  /\ phase' = [phase EXCEPT ![k] = "none"]
  /\ UNCHANGED <<gen, sent, linked, told, conns, task, down>>

(* The tunnel breaks, with whatever was queued for it. *)
TunnelLost(s) ==
  /\ linked[s]
  /\ linked' = [linked EXCEPT ![s] = FALSE]
  /\ down' = [down EXCEPT ![s] = <<>>]
  /\ UNCHANGED <<phase, gen, sent, told, conns, task>>
-----------------------------------------------------------------------------
WriterStep(t) ==
  \/ WriteData(t) \/ WriteFails(t) \/ WriteClosed(t)
  \/ PollsEmpty(t) \/ WriteSignalled(t) \/ PollsAgain(t) \/ WriteShutdown(t)
  \/ WriterUnregister(t) \/ WriterAborted(t)

Next ==
  \/ \E k \in Flow : Connect(k) \/ Data(k) \/ Shutdown(k) \/ Reset(k) \/ Forget(k)
  \/ \E t \in Task :
       \/ ConnectOk(t) \/ ConnectFails(t) \/ ConnectAborts(t) \/ Register(t)
       \/ WriterStep(t) \/ ReadData(t) \/ ReadEnds(t) \/ ReaderUnregister(t)
  \/ \E s \in Session : Deliver(s) \/ TunnelLost(s)

Spec == Init /\ [][Next]_vars

(* The runtime polls a task that is ready; a server that neither reads nor *)
(* fails would stop the writer, so fairness of the writer assumes that it  *)
(* does one or the other.                                                  *)
Fairness ==
  \A t \in Task : /\ WF_vars(Register(t))
                  /\ WF_vars(WriterStep(t))
                  /\ WF_vars(ReaderUnregister(t))

FairSpec == Spec /\ Fairness
-----------------------------------------------------------------------------
(* Types, and every channel keeps to the capacity it was created with,     *)
(* whatever proxies and servers send: full channels drop, they never grow. *)
TaskState ==
  [flow : Flow \union {NoFlow}, gen : 0..MaxGen,
   c : {"free", "connecting", "announced", "live", "gone"},
   w : {"off", "run", "polled", "drain", "unregister", "done"},
   r : {"off", "run", "unregister", "done"},
   dq : Seq(Payload), shut : BOOLEAN, out : Seq(Payload), fin : BOOLEAN,
   reads : 0..MaxDown, rst : BOOLEAN, due : Nat, drained : BOOLEAN]

TypeOK ==
  /\ phase \in [Flow -> {"none", "opening", "open", "closing"}]
  /\ gen \in [Flow -> 0..MaxGen]
  /\ sent \in [Flow -> 0..MaxUp]
  /\ linked \in [Session -> BOOLEAN]
  /\ told \in [Session -> Seq(Message)]
  /\ conns \in [Flow -> Task \union {NoTask}]
  /\ task \in [Task -> TaskState]
  /\ \A t \in Task : Len(task[t].dq) <= DataCap
  /\ down \in [Session -> Seq(Message)]
  /\ \A s \in Session : Len(down[s]) <= TxCap

(* "Scoped per session to avoid collisions when multiple clients use the   *)
(* same TUN IP": what a server is given, or will be given, was sent on the *)
(* task's own flow, and a session is only sent messages of its own flows.  *)
SessionIsolation ==
  /\ \A t \in Task : \A q \in {task[t].dq, task[t].out} :
       \A i \in 1..Len(q) : q[i].flow = task[t].flow
  /\ \A k \in Flow : conns[k] # NoTask => task[conns[k]].flow = k
  /\ \A s \in Session : \A i \in 1..Len(down[s]) :
       task[down[s][i].task].flow \in {s} \X ConnId

(* The server is never given a payload twice or out of order: through all  *)
(* incarnations of a flow, drops leave gaps but nothing else.              *)
Before(p, q) == p.gen < q.gen \/ (p.gen = q.gen /\ p.n < q.n)

UpstreamOrder ==
  \A t \in Task :
    LET all == task[t].out \o task[t].dq
    IN  \A i, j \in 1..Len(all) : i < j => Before(all[i], all[j])

(* "Drain all remaining data before shutting down TCP": a writer that ends *)
(* by shutting the socket down has written everything that was accepted    *)
(* before the Shutdown it obeys.                                           *)
FinAfterDrain == \A t \in Task : task[t].drained => Len(task[t].out) >= task[t].due

(* Through its tunnel a proxy is told of each connection in the order      *)
(* Connected, Data as the server sent it, one end: nothing comes twice and *)
(* nothing follows a Shutdown or Reset of the same connection.  A full     *)
(* channel drops messages, so any of them may be missing; once the tunnel  *)
(* is gone, datagrams bring what is left in any order.                     *)
Rank(m) == CASE m.type = "Connected" -> 0
             [] m.type = "Data"      -> m.n
             [] OTHER                -> MaxDown + 1

(* What has come through the tunnel of s, and what is still in it.         *)
Through(s) == told[s] \o (IF linked[s] THEN down[s] ELSE <<>>)

DownstreamOrder ==
  \A s \in Session :
    LET all == Through(s)
    IN  \A i, j \in 1..Len(all) :
          (i < j /\ all[i].task = all[j].task) => Rank(all[i]) < Rank(all[j])

(* An entry of the table is never stale: it belongs to a connection of     *)
(* which the writer or the reader is still there to remove it.             *)
RegisteredIsLive ==
  \A k \in Flow : conns[k] # NoTask =>
    LET t == conns[k]
    IN  /\ task[t].c = "live" /\ task[t].r # "done"
        /\ task[t].w = "done" => task[t].r = "unregister"
-----------------------------------------------------------------------------
(* What must come about, with fair tasks. *)

(* A connection that lost its entry, whoever removed it, gets its server   *)
(* side closed: no writer is left waiting for a sender that is gone.       *)
OrphanIsClosed == \A t \in Task : Closed(t) ~> task[t].fin

(* A Shutdown that was signalled reaches the server as a FIN. *)
ShutdownReachesServer == \A t \in Task : task[t].shut ~> task[t].fin
-----------------------------------------------------------------------------
(* What comments in the repository say, and the code does not do.          *)

(* relay.rs:44, conns: "(session_id, conn_id) -> active TCP connection     *)
(* state".  A connection with both halves running, which no one reset and  *)
(* no later connection of the flow replaced, is in the table.              *)
ActiveIsMapped ==
  \A t \in Task :
    (task[t].w \in {"run", "polled"} /\ task[t].r = "run" /\ ~task[t].rst) =>
      \/ conns[task[t].flow] = t
      \/ \E u \in Task \ {t} : /\ task[u].flow = task[t].flow
                              /\ task[u].gen > task[t].gen
=============================================================================
