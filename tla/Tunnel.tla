------------------------------- MODULE Tunnel -------------------------------
(***************************************************************************)
(* The tunnel client of the proxy (crates/aion2-proxy/src/tunnel.rs) with  *)
(* the threads and the loop of tun_windows.rs that it is chained to by     *)
(* bounded channels, and in its other build the test connection.           *)
(*                                                                         *)
(*   relay -> wire -> tcp_recv_loop -> relay_events -> main loop -> adapter *)
(*   relay <- wire <- write task <- tcp_tx <- main loop <- adapter         *)
(*                                                                         *)
(* All sends wait for room, except that of Data to relay_events, which     *)
(* drops it.  The relay never waits for its own output before it reads,    *)
(* and this alone keeps the two chains from waiting for one another.       *)
(*                                                                         *)
(* On Windows the main loop is NatTable's; here a handler is the list of   *)
(* channels it sends to.  The other build has no adapter: nobody reads     *)
(* relay_events, and one test connection takes its data from a buffer in   *)
(* the table conns, under a lock, when it is notified.                     *)
(*                                                                         *)
(* Environment: the relay, the network, and the applications.              *)
(***************************************************************************)
EXTENDS Naturals, Sequences, SequencesExt

CONSTANTS
  Builds,     \* the builds to look at: subset of {"windows", "dev"}
  EventCap,   \* capacity of relay_events (16384)
  SendCap,    \* capacity of tcp_tx (16384)
  WriteCap,   \* capacity of tun_write (4096)
  NotifyCap,  \* capacity of notify (32)
  WireCap,    \* messages the sockets and the network hold towards the proxy
  MaxMsg,     \* bound: messages of the relay
  MaxIn       \* bound: reads from the test connection's standard input

ASSUME BuildAssumption == Builds \subseteq {"windows", "dev"}
ASSUME CapAssumption ==
         /\ {EventCap, SendCap, WriteCap, NotifyCap, WireCap} \subseteq Nat \ {0}
         /\ {MaxMsg, MaxIn} \subseteq Nat

VARIABLES
  build,     \* how the proxy was built
  link,      \* the TCP connection to the relay: up or lost
  relay,     \* what the relay has said of each connection, and how often
  down,      \* messages on the wire to the proxy
  loop,      \* the receive loops: where they are, and with which message
  events,    \* relay_events
  tx,        \* how many messages are in tcp_tx
  writer,    \* the TCP write task
  main,      \* what the main loop's handler still has to send, and to whom
  out,       \* how many packets are in tun_write
  seen,      \* what events have told the main loop of the relay (history)
  entry,     \* the test connection's ConnState
  notify,    \* how many notifications are queued for it
  test       \* the test connection: position, drained, written, input read

wires   == <<link, relay, down>>
sending == <<tx, writer>>
windows == <<main, out, seen>>
dev     == <<entry, notify, test>>
vars    == <<build, wires, loop, events, sending, windows, dev>>
-----------------------------------------------------------------------------
Control == {"connected", "failed", "shutdown", "reset"}

Message == [n : 1..MaxMsg, kind : Control \union {"data"}]

Loops == {"tcp", "udp"}

Idle == [at |-> "read", msg |-> {}]

NoEntry == [ex |-> FALSE, buf |-> <<>>, connected |-> FALSE, shut |-> FALSE]

Init ==
  /\ build \in Builds
  /\ link = "up"
  /\ relay = [said |-> 0, st |-> "none"]
  /\ down = <<>>
  /\ loop = [d \in Loops |-> Idle]
  /\ events = <<>>
  /\ tx = 0 /\ writer = "idle"
  /\ main = <<>>
  /\ out = 0
  /\ seen = relay
  /\ entry = NoEntry
  /\ notify = 0
  /\ test = [at |-> "open", got |-> <<>>, out |-> <<>>, read |-> 0]
-----------------------------------------------------------------------------
(* The relay and the network. *)

RelayWaits == Len(down) < WireCap  \* mutant: the relay reads when it can write

RelayReads == TRUE

(* The relay takes what the write task has in hand, maybe a Connect. *)
RelayTakes ==
  /\ link = "up" /\ writer = "busy" /\ RelayReads
  /\ writer' = "idle"
  /\ \/ /\ relay.st = "none" \/ (relay.st = "over" /\ build = "windows")
        /\ relay' = [relay EXCEPT !.st = "asked"]
     \/ UNCHANGED relay
  /\ UNCHANGED <<build, link, down, loop, events, tx, windows, dev>>

Step == [connected |-> <<"asked", "up">>, failed |-> <<"asked", "over">>,
         data |-> <<"up", "up">>, shutdown |-> <<"up", "over">>,
         reset |-> <<"up", "over">>]

(* What a message tells of the relay. *)
Tells(r, m) == [said |-> m.n, st |-> Step[m.kind][2]]

Says(m) ==
  /\ m.n = relay.said + 1 /\ relay.st = Step[m.kind][1]
  /\ relay' = Tells(relay, m)

(* It answers through the tunnel. *)
RelaySays ==
  /\ link = "up" /\ Len(down) < WireCap
  /\ \E m \in Message : Says(m) /\ down' = Append(down, m)
  /\ UNCHANGED <<build, link, loop, events, sending, windows, dev>>

(* What was under way may arrive before the end of the stream, or not. *)
TunnelBreaks ==
  /\ link = "up" /\ link' = "lost"
  /\ \E i \in 0..Len(down) : down' = SubSeq(down, 1, i)
  /\ UNCHANGED <<build, relay, loop, events, sending, windows, dev>>
-----------------------------------------------------------------------------
(* The TCP write task.  When it ends nobody is told: sends fail from then  *)
(* on, at once, and the callers go on.                                     *)
AlwaysRoom == TRUE              \* mutant: an unbounded channel

SendRoom == writer = "ended" \/ tx < SendCap

Send == tx' = IF writer = "ended" THEN tx ELSE tx + 1

WriterTakes ==
  /\ writer = "idle" /\ tx > 0
  /\ writer' = "busy" /\ tx' = tx - 1
  /\ UNCHANGED <<build, wires, loop, events, windows, dev>>

WriterFails ==
  /\ writer = "busy" /\ link = "lost"
  /\ writer' = "ended" /\ tx' = 0
  /\ UNCHANGED <<build, wires, loop, events, windows, dev>>
-----------------------------------------------------------------------------
(* tcp_recv_loop and recv_loop, and dispatch_relay_message, which both run. *)
(* A step that takes conns' lock waits until nobody holds it.               *)

At(d, pos) == loop[d].at = pos

Goto(d, pos) ==
  loop' = [loop EXCEPT ![d] = IF pos = "read" THEN Idle ELSE [@ EXCEPT !.at = pos]]

LockFree == \A d \in Loops : ~At(d, "notify")

FirstStep(m) == CASE m.kind # "data"  -> "event"
                  [] build = "dev"    -> "buffer"
                  [] OTHER            -> "try"

Takes(d, m) == loop' = [loop EXCEPT ![d] = [at |-> FirstStep(m), msg |-> m]]

TcpReads ==
  /\ At("tcp", "read") /\ down # <<>>
  /\ down' = Tail(down)
  /\ Takes("tcp", Head(down))
  /\ UNCHANGED <<build, link, relay, events, sending, windows, dev>>

(* A relay without a tunnel to the proxy answers by datagram. *)
UdpReads ==
  /\ link = "lost"
  /\ \E m \in Message :
       /\ Says(m)
       /\ \/ At("udp", "read") /\ Takes("udp", m)
          \/ UNCHANGED loop
  /\ UNCHANGED <<build, link, down, events, sending, windows, dev>>

(* The stream has ended, or the socket reports that a datagram could not   *)
(* be delivered: the loop is over, and nobody is told.                     *)
LoopEnds(d) ==
  /\ link = "lost" /\ At(d, "read") /\ (d = "tcp" => down = <<>>)
  /\ Goto(d, "ended")
  /\ UNCHANGED <<build, wires, events, sending, windows, dev>>

EventDropped(d) == Len(events) = EventCap  \* mutant: try_send for all events

NeverDropped(d) == FALSE

(* relay_events.send().await *)
SendEvent(d) ==
  /\ At(d, "event")
  /\ \/ Len(events) < EventCap /\ events' = Append(events, loop[d].msg)
     \/ NeverDropped(d) /\ UNCHANGED events
  /\ Goto(d, IF build = "dev" \/ loop[d].msg.kind \in {"failed", "reset"}
             THEN "buffer" ELSE "read")
  /\ UNCHANGED <<build, wires, sending, windows, dev>>

(* relay_events.try_send() *)
TryEvent(d) ==
  /\ At(d, "try")
  /\ events' = IF Len(events) < EventCap THEN Append(events, loop[d].msg) ELSE events
  /\ Goto(d, "read")
  /\ UNCHANGED <<build, wires, sending, windows, dev>>

AfterNotify(d) == IF loop[d].msg.kind = "data" THEN "try" ELSE "read"

(* The connection's entry in conns: updated, or removed. *)
UpdateEntry(d) ==
  /\ At(d, "buffer") /\ LockFree
  /\ LET m == loop[d].msg
     IN  IF m.kind \in {"failed", "reset"}
         THEN entry' = NoEntry /\ Goto(d, "read")
         ELSE IF entry.ex
         THEN /\ entry' = CASE m.kind = "data"     -> [entry EXCEPT !.buf = Append(@, m.n)]
                            [] m.kind = "shutdown" -> [entry EXCEPT !.shut = TRUE]
                            [] OTHER               -> [entry EXCEPT !.connected = TRUE]
              /\ Goto(d, "notify")
         ELSE UNCHANGED entry /\ Goto(d, AfterNotify(d))
  /\ UNCHANGED <<build, wires, events, sending, windows, notify, test>>

(* notify.send().await, still under the lock *)
Notify(d) ==
  /\ At(d, "notify") /\ notify < NotifyCap
  /\ notify' = notify + 1
  /\ Goto(d, AfterNotify(d))
  /\ UNCHANGED <<build, wires, events, sending, windows, entry, test>>
-----------------------------------------------------------------------------
(* run_tun: the write thread and the main loop.  The read thread always    *)
(* has another packet.                                                     *)
WriteThread ==
  /\ out > 0 /\ out' = out - 1
  /\ UNCHANGED <<build, wires, loop, events, sending, main, seen, dev>>

(* Where a handler sends to, in order: a SYN, a RST, a segment with data,  *)
(* with FIN, with both, to a closing entry, to none.                       *)
PacketSends ==
  { <<"out", "tx">>, <<"tx">>, <<"out", "tx", "out", "tx">>,
    <<"out">>, <<"out", "out">>, <<>> }

(* Connected flushes what is pending, Data is cut into segments; an event  *)
(* without an entry is ignored.                                            *)
EventSends(k) ==
  CASE k = "connected" -> {<<>>, <<"tx">>, <<"tx", "tx">>}
    [] k = "data"      -> {<<>>, <<"out">>, <<"out", "out">>}
    [] OTHER           -> {<<>>, <<"out">>}

MainTakesPacket ==
  /\ main = <<>> /\ main' \in PacketSends
  /\ UNCHANGED <<build, wires, loop, events, sending, out, seen, dev>>

MainTakesEvent ==
  /\ main = <<>> /\ events # <<>>
  /\ events' = Tail(events)
  /\ seen' = Tells(seen, Head(events))
  /\ main' \in EventSends(Head(events).kind)
  /\ UNCHANGED <<build, wires, loop, sending, out, dev>>

MainSends ==
  /\ main # <<>> /\ main' = Tail(main)
  /\ \/ /\ Head(main) = "out" /\ out < WriteCap
        /\ out' = out + 1
        /\ UNCHANGED tx
     \/ /\ Head(main) = "tx" /\ SendRoom
        /\ Send
        /\ UNCHANGED out
  /\ UNCHANGED <<build, wires, loop, events, writer, seen, dev>>
-----------------------------------------------------------------------------
(* test_single_connection. *)
TestAt(pos) == test.at = pos

TestGoto(pos) == test' = [test EXCEPT !.at = pos]

(* open_connection: the entry first, then the message. *)
TestOpens ==
  /\ TestAt("open") /\ LockFree
  /\ entry' = [NoEntry EXCEPT !.ex = TRUE]
  /\ test' = [test EXCEPT !.at = "connect"]
  /\ UNCHANGED <<build, wires, loop, events, sending, windows, notify>>

(* An error ends the test. *)
TestSends ==
  /\ test.at \in {"connect", "send", "finish"} /\ SendRoom
  /\ Send
  /\ TestGoto(IF writer = "ended" \/ TestAt("finish") THEN "done"
              ELSE IF TestAt("connect") THEN "wait" ELSE "select")
  /\ UNCHANGED <<build, wires, loop, events, writer, windows, entry, notify>>

(* notify.recv().await: returns at once when the entry, which holds the    *)
(* sender, is gone.                                                        *)
TestNotified ==
  /\ test.at \in {"wait", "select"}
  /\ notify > 0 \/ ~entry.ex
  /\ notify' = IF notify > 0 THEN notify - 1 ELSE 0
  /\ TestGoto(IF TestAt("wait") THEN "connected?" ELSE "drain")
  /\ UNCHANGED <<build, wires, loop, events, sending, windows, entry>>

TestChecks ==
  /\ LockFree
  /\ \/ TestAt("connected?") /\ TestGoto(IF entry.connected THEN "select" ELSE "wait")
     \/ TestAt("shutdown?") /\ TestGoto(IF entry.shut THEN "done" ELSE "select")
  /\ UNCHANGED <<build, wires, loop, events, sending, windows, entry, notify>>

TestReadsInput ==
  /\ TestAt("select") /\ test.read < MaxIn
  /\ \E pos \in {"send", "finish", "done"} :
       test' = [test EXCEPT !.at = pos, !.read = @ + 1]
  /\ UNCHANGED <<build, wires, loop, events, sending, windows, entry, notify>>

KeepsBuffer(e) == e             \* mutant: the buffer is copied, not taken

Drained(e) == [e EXCEPT !.buf = <<>>]

TestDrains ==
  /\ TestAt("drain") /\ LockFree
  /\ entry' = Drained(entry)
  /\ test' = [test EXCEPT !.at = "write", !.got = entry.buf]
  /\ UNCHANGED <<build, wires, loop, events, sending, windows, notify>>

TestWrites ==
  /\ TestAt("write")
  /\ test' = [test EXCEPT !.at = "shutdown?", !.got = <<>>, !.out = @ \o test.got]
  /\ UNCHANGED <<build, wires, loop, events, sending, windows, entry, notify>>
-----------------------------------------------------------------------------
(* The proxy ends with the test connection. *)
Running == ~TestAt("done")

Receive(d) ==
  /\ Running
  /\ \/ d = "tcp" /\ TcpReads
     \/ LoopEnds(d) \/ SendEvent(d) \/ TryEvent(d) \/ UpdateEntry(d) \/ Notify(d)

Write == Running /\ (WriterTakes \/ WriterFails)

Threads ==
  /\ build = "windows"
  /\ WriteThread \/ MainTakesPacket \/ MainTakesEvent \/ MainSends

Test ==
  /\ build = "dev"
  /\ \/ TestOpens \/ TestSends \/ TestNotified \/ TestChecks
     \/ TestDrains \/ TestWrites \/ TestReadsInput

Network == Running /\ (RelayTakes \/ RelaySays \/ TunnelBreaks \/ UdpReads)

Next == Network \/ (\E d \in Loops : Receive(d)) \/ Write \/ Threads \/ Test

Spec == Init /\ [][Next]_vars

(* Tasks and threads run when they can, the main loop's select! picks its  *)
(* branch at random, and the relay's read loop reads.  Nothing is assumed  *)
(* of what the relay says, of the network, or of the test's input.         *)
Fairness ==
  /\ WF_vars(Running /\ RelayTakes)
  /\ \A d \in Loops : WF_vars(Receive(d))
  /\ WF_vars(Write)
  /\ WF_vars(build = "windows" /\ WriteThread)
  /\ WF_vars(build = "windows" /\ MainSends)
  /\ SF_vars(build = "windows" /\ MainTakesEvent)
  /\ WF_vars(Test)

FairSpec == Spec /\ Fairness
-----------------------------------------------------------------------------
Relay == [said : 0..MaxMsg, st : {"none", "asked", "up", "over"}]

TypeOK ==
  /\ build \in Builds /\ link \in {"up", "lost"}
  /\ relay \in Relay
  /\ down \in Seq(Message) /\ Len(down) <= WireCap
  /\ DOMAIN loop = Loops
  /\ \A d \in Loops :
       IF loop[d].at \in {"read", "ended"}
       THEN loop[d] \in [at : {"read", "ended"}, msg : {{}}]
       ELSE loop[d] \in [at : {"event", "try", "buffer", "notify"}, msg : Message]
  /\ events \in Seq(Message) /\ Len(events) <= EventCap
  /\ tx \in 0..SendCap /\ writer \in {"idle", "busy", "ended"}
  /\ main \in Seq({"out", "tx"}) /\ seen \in Relay
  /\ out \in 0..WriteCap
  /\ entry \in [ex : BOOLEAN, buf : Seq(1..MaxMsg), connected : BOOLEAN, shut : BOOLEAN]
  /\ notify \in 0..NotifyCap
  /\ test \in [at : {"open", "connect", "wait", "connected?", "select", "send",
                     "finish", "drain", "write", "shutdown?", "done"},
               got : Seq(1..MaxMsg), out : Seq(1..MaxMsg), read : 0..MaxIn]

(* While the tunnel is up, what the main loop has taken from relay_events  *)
(* and what is still on its way to it are in the order the relay said it,  *)
(* and nothing but Data is missing: however full the channels are,         *)
(* Connected, ConnectFailed, Shutdown and Reset get through.  Without Data *)
(* the messages of a connection still follow one another, up to where the  *)
(* relay is; without one of the others they would not.                     *)
Held == IF loop["tcp"].at \in {"event", "try"} THEN <<loop["tcp"].msg>> ELSE <<>>

Way == events \o Held \o down

Follows(a, b) == a = b \/ (a \in {"none", "over"} /\ b = "asked")

Chained(q, first, last) ==
  \A i \in 0..Len(q) :
    Follows(IF i = 0 THEN first ELSE Step[q[i].kind][2],
            IF i = Len(q) THEN last ELSE Step[q[i + 1].kind][1])

ControlArrives ==
  (link = "up" /\ build = "windows") =>
    /\ \A i \in 1..Len(Way) : Way[i].n > IF i = 1 THEN seen.said ELSE Way[i - 1].n
    /\ Chained(Way, seen.st, relay.st)

(* On Windows no receive loop and no handler waits for ever, whatever      *)
(* either side sends, and also when the tunnel is lost.                    *)
KeepsMoving ==
  build = "windows" =>
    /\ \A d \in Loops : At(d, "event") ~> ~At(d, "event")
    /\ main # <<>> ~> main = <<>>

(* What the test connection has written and drained, what is in its buffer *)
(* and what is on its way there is all that its server sent, in order.     *)
(* The server's first Data is the relay's second message.                  *)
Arrived == test.out \o test.got \o entry.buf

Unapplied == IF loop["tcp"].at \in {"event", "buffer"} THEN <<loop["tcp"].msg>> ELSE <<>>

Coming == Unapplied \o down

TestStream ==
  (link = "up" /\ build = "dev" /\ entry.ex) =>
    /\ \A i \in 1..Len(Arrived) : Arrived[i] = i + 1
    /\ \A i \in 1..Len(Coming) : Coming[i].kind = "data" =>
         Coming[i].n = 1 + IF i > 1 /\ Coming[i - 1].kind = "data" THEN Coming[i - 1].n
                           ELSE Len(Arrived) + 1
-----------------------------------------------------------------------------
(* What comments in the repository say, and the code does not do.          *)

(* tunnel.rs:445, test_single_connection: "Test mode: proxy a single TCP   *)
(* connection through the tunnel".  While the tunnel is up, what is in the *)
(* connection's buffer gets written, unless the input or a Reset ends it.  *)
Ended == link = "lost" \/ ~entry.ex \/ (TestAt("done") /\ test.read > 0)

TestIsProxied ==
  \A n \in 1..MaxMsg :
    n \in Range(entry.buf) ~> (n \in Range(test.out) \/ Ended)
=============================================================================
