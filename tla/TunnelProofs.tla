------------------------------ MODULE TunnelProofs ------------------------------
(***************************************************************************)
(* Proofs about the tunnel client, for any capacities and any number of    *)
(* messages: no control message is lost on Windows, and the test           *)
(* connection of the other build gets its server's bytes in order.         *)
(***************************************************************************)
EXTENDS Tunnel, SequenceTheorems, TLAPS

(* Where the relay stands before and after a message.                      *)
From(m) == Step[m.kind][1]

To(m) == Step[m.kind][2]

(* The messages of q lead from what s tells of the relay to r.             *)
Rising(q, s, r) ==
  /\ s.said <= r.said
  /\ \A i \in 1..Len(q) : s.said < q[i].n /\ q[i].n <= r.said
  /\ \A i, j \in 1..Len(q) : i < j => q[i].n < q[j].n

Leads(q, s, r) == Rising(q, s, r) /\ Chained(q, s.st, r.st)

(***************************************************************************)
(* On Windows only a ConnectFailed or a Reset touches conns, only Data is  *)
(* tried, and the datagram loop has nothing while the tunnel is up.        *)
(***************************************************************************)
InOrder ==
  /\ loop["udp"] = Idle
  /\ At("tcp", "try") => loop["tcp"].msg.kind = "data"
  /\ At("tcp", "buffer") => loop["tcp"].msg.kind \in {"failed", "reset"}
  /\ ~At("tcp", "notify")
  /\ Leads(Way, seen, relay)

ControlInv == (link = "up" /\ build = "windows") => InOrder

(* What the messages that are applied told of the relay.                   *)
Applied(q, r) ==
  IF q = <<>> THEN r ELSE [said |-> q[1].n - 1, st |-> From(q[1])]

(* Message by message, without a gap.                                      *)
Exact(q, r) ==
  /\ q # <<>> => q[Len(q)].n = r.said /\ To(q[Len(q)]) = r.st
  /\ \A i \in 1..(Len(q) - 1) : q[i + 1].n = q[i].n + 1 /\ From(q[i + 1]) = To(q[i])
  /\ \A i \in 1..Len(q) : q[i].kind \in {"connected", "failed"} => q[i].n = 1

(* The relay's second message is the first Data.                           *)
Stored(p, a) ==
  /\ p.st \in {"none", "asked"} => p.said = 0 /\ a = <<>>
  /\ p.st = "up" => p.said = Len(a) + 1
  /\ \A i \in 1..Len(a) : a[i] = i + 1

Fresh ==
  /\ relay = [said |-> 0, st |-> "none"]
  /\ down = <<>> /\ loop["tcp"] = Idle
  /\ tx = 0 /\ writer = "idle"
  /\ entry = NoEntry /\ test.out = <<>> 

Streaming ==
  /\ loop["udp"] = Idle
  /\ test.got # <<>> => TestAt("write")
  /\ relay.st \in {"none", "asked"} => relay.said = 0
  /\ TestAt("open") => Fresh
  /\ entry.ex => /\ Exact(Coming, relay)
                 /\ Stored(Applied(Coming, relay), Arrived)

StreamInv == (link = "up" /\ build = "dev") => Streaming
-----------------------------------------------------------------------------
(* Type correctness. *)

LoopOK(x) ==
  IF x.at \in {"read", "ended"}
  THEN x \in [at : {"read", "ended"}, msg : {{}}]
  ELSE x \in [at : {"event", "try", "buffer", "notify"}, msg : Message]

LEMMA Capacities ==
  /\ EventCap \in Nat \ {0} /\ SendCap \in Nat \ {0} /\ WriteCap \in Nat \ {0}
  /\ NotifyCap \in Nat \ {0} /\ WireCap \in Nat \ {0}
  /\ MaxMsg \in Nat /\ MaxIn \in Nat
  BY CapAssumption

EntryState == [ex : BOOLEAN, buf : Seq(1..MaxMsg), connected : BOOLEAN, shut : BOOLEAN]

TestState ==
  [at : {"open", "connect", "wait", "connected?", "select", "send",
         "finish", "drain", "write", "shutdown?", "done"},
   got : Seq(1..MaxMsg), out : Seq(1..MaxMsg), read : 0..MaxIn]

Typed ==
  /\ build \in Builds /\ link \in {"up", "lost"}
  /\ relay \in Relay
  /\ down \in Seq(Message) /\ Len(down) <= WireCap
  /\ DOMAIN loop = Loops /\ \A d \in Loops : LoopOK(loop[d])
  /\ events \in Seq(Message) /\ Len(events) <= EventCap
  /\ tx \in 0..SendCap /\ writer \in {"idle", "busy", "ended"}
  /\ main \in Seq({"out", "tx"}) /\ seen \in Relay
  /\ out \in 0..WriteCap
  /\ entry \in EntryState
  /\ notify \in 0..NotifyCap
  /\ test \in TestState

LEMMA TypeParts == TypeOK <=> Typed
  BY DEF TypeOK, LoopOK, Typed, EntryState, TestState

(* What a message tells of the relay.                                      *)
LEMMA MessageMeaning ==
  ASSUME NEW m \in Message
  PROVE  /\ m.n \in 1..MaxMsg /\ m.n \in Nat /\ m.n >= 1
         /\ m.kind \in Control \union {"data"}
         /\ From(m) = IF m.kind \in {"connected", "failed"} THEN "asked" ELSE "up"
         /\ To(m) = IF m.kind \in {"connected", "data"} THEN "up" ELSE "over"
  <1>1. /\ m.n \in 1..MaxMsg /\ m.kind \in Control \union {"data"}
    BY DEF Message
  <1>2. m.n \in Nat /\ m.n >= 1
    BY <1>1, Capacities
  <1>3. /\ Step["connected"] = <<"asked", "up">> /\ Step["failed"] = <<"asked", "over">>
        /\ Step["data"] = <<"up", "up">> /\ Step["shutdown"] = <<"up", "over">>
        /\ Step["reset"] = <<"up", "over">>
    BY DEF Step
  <1> QED
    BY <1>1, <1>2, <1>3 DEF Control, From, To

LEMMA TellsType ==
  ASSUME NEW r \in Relay, NEW m \in Message
  PROVE  /\ Tells(r, m) \in Relay
         /\ Tells(r, m).said = m.n /\ Tells(r, m).st = To(m)
  <1>1. Tells(r, m) = [said |-> m.n, st |-> To(m)]
    BY DEF Tells, To
  <1>2. m.n \in 0..MaxMsg /\ To(m) \in {"none", "asked", "up", "over"}
    BY MessageMeaning, Capacities
  <1> QED
    BY <1>1, <1>2 DEF Relay

(* A loop that moves is still a loop.                                      *)
LEMMA LoopMoves ==
  ASSUME DOMAIN loop = Loops, \A e \in Loops : LoopOK(loop[e]),
         NEW d \in Loops, NEW pos \in {"event", "try", "buffer", "notify", "read", "ended"},
         Goto(d, pos),
         pos = "ended" => At(d, "read"),
         pos \in {"event", "try", "buffer", "notify"} => ~At(d, "read") /\ ~At(d, "ended")
  PROVE  /\ DOMAIN loop' = Loops /\ \A e \in Loops : LoopOK(loop'[e])
         /\ \A e \in Loops \ {d} : loop'[e] = loop[e]
         /\ loop'[d].at = pos
         /\ IF pos = "read" THEN loop'[d] = Idle ELSE loop'[d].msg = loop[d].msg
  <1>1. /\ DOMAIN loop' = Loops /\ \A e \in Loops \ {d} : loop'[e] = loop[e]
        /\ loop'[d] = IF pos = "read" THEN Idle ELSE [loop[d] EXCEPT !.at = pos]
    BY DEF Goto
  <1>2. LoopOK(loop'[d]) /\ loop'[d].at = pos
    BY <1>1 DEF LoopOK, Idle, At
  <1>3. IF pos = "read" THEN loop'[d] = Idle ELSE loop'[d].msg = loop[d].msg
    BY <1>1 DEF LoopOK
  <1> QED
    BY <1>1, <1>2, <1>3

(* A loop that has read a message has it in hand.                          *)
LEMMA LoopTakes ==
  ASSUME DOMAIN loop = Loops, \A e \in Loops : LoopOK(loop[e]),
         NEW d \in Loops, NEW m \in Message, Takes(d, m)
  PROVE  /\ DOMAIN loop' = Loops /\ \A e \in Loops : LoopOK(loop'[e])
         /\ \A e \in Loops \ {d} : loop'[e] = loop[e]
         /\ loop'[d] = [at |-> FirstStep(m), msg |-> m]
  <1>1. FirstStep(m) \in {"event", "try", "buffer"}
    BY DEF FirstStep
  <1> QED
    BY <1>1 DEF Takes, LoopOK

(* What a handler sends is a list of channels.                             *)
LEMMA HandlerSends ==
  /\ PacketSends \subseteq Seq({"out", "tx"})
  /\ \A k : EventSends(k) \subseteq Seq({"out", "tx"})
  <1> DEFINE C == {"out", "tx"}
  <1>1. /\ <<>> \in Seq(C) /\ <<"out">> \in Seq(C) /\ <<"tx">> \in Seq(C)
        /\ <<"out", "tx">> \in Seq(C) /\ <<"out", "out">> \in Seq(C)
        /\ <<"tx", "tx">> \in Seq(C) /\ <<"out", "tx", "out", "tx">> \in Seq(C)
    OBVIOUS
  <1> QED
    BY <1>1 DEF PacketSends, EventSends

(* Updates of the test connection's records.                               *)
LEMMA EntryChanges ==
  /\ NoEntry \in EntryState /\ [NoEntry EXCEPT !.ex = TRUE] \in EntryState
  /\ \A e \in EntryState :
       /\ \A b \in Seq(1..MaxMsg) : [e EXCEPT !.buf = b] \in EntryState
       /\ [e EXCEPT !.shut = TRUE] \in EntryState
       /\ [e EXCEPT !.connected = TRUE] \in EntryState
  <1>1. <<>> \in Seq(1..MaxMsg)
    OBVIOUS
  <1> QED
    BY <1>1 DEF EntryState, NoEntry

LEMMA TestChanges ==
  ASSUME NEW t \in TestState,
         NEW p \in {"open", "connect", "wait", "connected?", "select", "send",
                    "finish", "drain", "write", "shutdown?", "done"},
         NEW q \in Seq(1..MaxMsg)
  PROVE  /\ [t EXCEPT !.at = p] \in TestState
         /\ [t EXCEPT !.at = p, !.got = q] \in TestState
         /\ [t EXCEPT !.at = p, !.got = <<>>, !.out = q] \in TestState
         /\ t.read < MaxIn => [t EXCEPT !.at = p, !.read = @ + 1] \in TestState
  <1>1. <<>> \in Seq(1..MaxMsg)
    OBVIOUS
  <1>2. t.read < MaxIn => t.read + 1 \in 0..MaxIn
    BY Capacities DEF TestState
  <1> QED
    BY <1>1, <1>2 DEF TestState

(* Every step keeps the types.                                             *)
LEMMA TypeStep == Typed /\ [Next]_vars => Typed'
  <1> SUFFICES ASSUME Typed, [Next]_vars PROVE Typed'
    OBVIOUS
  <1> USE Capacities DEF Typed
  <1>1. CASE UNCHANGED vars
    BY <1>1 DEF vars, wires, sending, windows, dev
  <1>2. CASE RelayTakes
    BY <1>2 DEF RelayTakes, windows, dev, Relay, LoopOK
  <1>3. CASE RelaySays
    <2>1. PICK m \in Message : Says(m) /\ down' = Append(down, m)
      BY <1>3 DEF RelaySays
    <2>2. relay' \in Relay
      BY <2>1, TellsType DEF Says
    <2>3. down' \in Seq(Message) /\ Len(down') <= WireCap
      BY <1>3, <2>1, AppendProperties, LenProperties DEF RelaySays
    <2> QED
      BY <1>3, <2>2, <2>3 DEF RelaySays, sending, windows, dev
  <1>4. CASE TunnelBreaks
    <2>1. PICK i \in 0..Len(down) : down' = SubSeq(down, 1, i)
      BY <1>4 DEF TunnelBreaks
    <2>2. down' \in Seq(Message) /\ Len(down') <= WireCap
      BY <2>1, SubSeqProperties, LenProperties
    <2> QED
      BY <1>4, <2>2 DEF TunnelBreaks, sending, windows, dev
  <1>5. CASE UdpReads
    <2>1. PICK m \in Message : Says(m) /\ (Takes("udp", m) \/ UNCHANGED loop)
      BY <1>5 DEF UdpReads
    <2>2. relay' \in Relay
      BY <2>1, TellsType DEF Says
    <2>3. DOMAIN loop' = Loops /\ \A e \in Loops : LoopOK(loop'[e])
      BY <2>1, LoopTakes DEF Loops
    <2> QED
      BY <1>5, <2>2, <2>3 DEF UdpReads, sending, windows, dev
  <1>6. ASSUME NEW d \in Loops, Receive(d) PROVE Typed'
    <2>1. CASE TcpReads
      <3>1. Head(down) \in Message /\ Tail(down) \in Seq(Message) /\ Len(down') <= WireCap
        BY <2>1, HeadTailProperties, LenProperties DEF TcpReads
      <3>2. DOMAIN loop' = Loops /\ \A e \in Loops : LoopOK(loop'[e])
        BY <2>1, <3>1, LoopTakes DEF Loops, TcpReads
      <3> QED
        BY <2>1, <3>1, <3>2 DEF TcpReads, sending, windows, dev
    <2>2. CASE LoopEnds(d)
      BY <2>2, LoopMoves DEF LoopEnds, At, wires, sending, windows, dev
    <2>3. CASE SendEvent(d)
      <3>1. loop[d].msg \in Message
        BY <2>3 DEF SendEvent, At, LoopOK
      <3>2. events' \in Seq(Message) /\ Len(events') <= EventCap
        <4>1. /\ Append(events, loop[d].msg) \in Seq(Message)
              /\ Len(Append(events, loop[d].msg)) = Len(events) + 1
              /\ Len(events) \in Nat
          BY <3>1, AppendProperties, LenProperties
        <4>2. Len(events) < EventCap /\ events' = Append(events, loop[d].msg)
          BY <2>3 DEF SendEvent, NeverDropped
        <4> QED
          BY <4>1, <4>2
      <3>3. DOMAIN loop' = Loops /\ \A e \in Loops : LoopOK(loop'[e])
        BY <2>3, LoopMoves DEF SendEvent, At
      <3> QED
        BY <2>3, <3>2, <3>3 DEF SendEvent, wires, sending, windows, dev
    <2>4. CASE TryEvent(d)
      <3>1. loop[d].msg \in Message
        BY <2>4 DEF TryEvent, At, LoopOK
      <3>2. events' \in Seq(Message) /\ Len(events') <= EventCap
        <4>1. /\ Append(events, loop[d].msg) \in Seq(Message)
              /\ Len(Append(events, loop[d].msg)) = Len(events) + 1
              /\ Len(events) \in Nat
          BY <3>1, AppendProperties, LenProperties
        <4> QED
          BY <2>4, <4>1 DEF TryEvent
      <3>3. DOMAIN loop' = Loops /\ \A e \in Loops : LoopOK(loop'[e])
        BY <2>4, LoopMoves DEF TryEvent, At
      <3> QED
        BY <2>4, <3>2, <3>3 DEF TryEvent, wires, sending, windows, dev
    <2>5. CASE UpdateEntry(d)
      <3>1. loop[d].msg \in Message /\ loop[d].msg.n \in 1..MaxMsg
        BY <2>5, MessageMeaning DEF UpdateEntry, At, LoopOK
      <3>2. entry' \in EntryState
        <4>1. Append(entry.buf, loop[d].msg.n) \in Seq(1..MaxMsg)
          BY <3>1, AppendProperties DEF EntryState
        <4>2. CASE entry' = NoEntry
          BY <4>2, EntryChanges
        <4>3. CASE entry' = [entry EXCEPT !.buf = Append(entry.buf, loop[d].msg.n)]
          BY <4>1, <4>3, EntryChanges
        <4>4. CASE entry' \in {entry, [entry EXCEPT !.shut = TRUE], [entry EXCEPT !.connected = TRUE]}
          BY <4>4, EntryChanges
        <4> QED
          BY <2>5, <4>2, <4>3, <4>4 DEF UpdateEntry
      <3>3. DOMAIN loop' = Loops /\ \A e \in Loops : LoopOK(loop'[e])
        <4>1. PICK pos \in {"try", "notify", "read"} : Goto(d, pos)
          BY <2>5 DEF UpdateEntry, AfterNotify
        <4> QED
          BY <2>5, <4>1, LoopMoves DEF UpdateEntry, At
      <3> QED
        BY <2>5, <3>2, <3>3 DEF UpdateEntry, wires, sending, windows
    <2>6. CASE Notify(d)
      <3>1. DOMAIN loop' = Loops /\ \A e \in Loops : LoopOK(loop'[e])
        BY <2>6, LoopMoves DEF Notify, AfterNotify, At
      <3> QED
        BY <2>6, <3>1 DEF Notify, wires, sending, windows
    <2> QED
      BY <1>6, <2>1, <2>2, <2>3, <2>4, <2>5, <2>6 DEF Receive
  <1>7. CASE Write
    <2>1. tx' \in 0..SendCap /\ writer' \in {"idle", "busy", "ended"}
      <3>1. tx \in 0..SendCap /\ (tx' = 0 \/ (tx > 0 /\ tx' = tx - 1))
        BY <1>7 DEF Write, WriterTakes, WriterFails
      <3>2. tx' \in 0..SendCap
        BY ONLY <3>1, Capacities
      <3> QED
        BY <1>7, <3>2 DEF Write, WriterTakes, WriterFails
    <2> QED
      BY <1>7, <2>1 DEF Write, WriterTakes, WriterFails, wires, windows, dev
  <1>8. CASE Threads
    <2>1. CASE WriteThread
      BY <2>1 DEF WriteThread, wires, sending, dev
    <2>2. CASE MainTakesPacket
      <3>1. main' \in Seq({"out", "tx"})
        BY <2>2, HandlerSends DEF MainTakesPacket
      <3> QED
        BY <2>2, <3>1 DEF MainTakesPacket, wires, sending, dev
    <2>3. CASE MainTakesEvent
      <3>1. Head(events) \in Message /\ Tail(events) \in Seq(Message) /\ Len(events') <= EventCap
        BY <2>3, HeadTailProperties, LenProperties DEF MainTakesEvent
      <3>2. main' \in Seq({"out", "tx"})
        BY <2>3, HandlerSends DEF MainTakesEvent
      <3>3. seen' \in Relay
        BY <2>3, <3>1, TellsType DEF MainTakesEvent
      <3> QED
        BY <2>3, <3>1, <3>2, <3>3 DEF MainTakesEvent, wires, sending, dev
    <2>4. CASE MainSends
      <3>1. main' \in Seq({"out", "tx"})
        BY <2>4, HeadTailProperties DEF MainSends
      <3>2. out' \in 0..WriteCap /\ tx' \in 0..SendCap
        <4>1. /\ out \in 0..WriteCap /\ tx \in 0..SendCap
              /\ out' = out \/ (out < WriteCap /\ out' = out + 1)
              /\ tx' = tx \/ (tx < SendCap /\ tx' = tx + 1)
          BY <2>4 DEF MainSends, SendRoom, Send
        <4> QED
          BY ONLY <4>1, Capacities
      <3> QED
        BY <2>4, <3>1, <3>2 DEF MainSends, wires, dev
    <2> QED
      BY <1>8, <2>1, <2>2, <2>3, <2>4 DEF Threads
  <1>9. CASE Test
    <2>1. CASE TestOpens
      <3>1. test' \in TestState
        BY <2>1 DEF TestOpens, TestState
      <3>2. entry' \in EntryState
        BY <2>1, EntryChanges DEF TestOpens
      <3> QED
        BY <2>1, <3>1, <3>2 DEF TestOpens, wires, sending, windows
    <2>2. CASE TestSends
      <3>1. tx' \in 0..SendCap
        <4>1. tx \in 0..SendCap /\ (tx' = tx \/ (tx < SendCap /\ tx' = tx + 1))
          BY <2>2 DEF TestSends, SendRoom, Send
        <4> QED
          BY ONLY <4>1, Capacities
      <3>2. test' \in TestState
        BY <2>2 DEF TestSends, TestGoto, TestState
      <3> QED
        BY <2>2, <3>1, <3>2 DEF TestSends, wires, windows
    <2>3. CASE TestNotified
      <3>1. test' \in TestState
        BY <2>3 DEF TestNotified, TestGoto, TestState
      <3>2. notify' \in 0..NotifyCap
        <4>1. notify \in 0..NotifyCap /\ (notify' = 0 \/ (notify > 0 /\ notify' = notify - 1))
          BY <2>3 DEF TestNotified
        <4> QED
          BY ONLY <4>1, Capacities
      <3> QED
        BY <2>3, <3>1, <3>2 DEF TestNotified, wires, sending, windows
    <2>4. CASE TestChecks
      <3>1. test' \in TestState
        BY <2>4 DEF TestChecks, TestGoto, TestState
      <3> QED
        BY <2>4, <3>1 DEF TestChecks, wires, sending, windows
    <2>5. CASE TestDrains
      <3>1. entry.buf \in Seq(1..MaxMsg)
        BY DEF EntryState
      <3>2. test' \in TestState
        BY <2>5, <3>1, TestChanges DEF TestDrains
      <3>3. entry' \in EntryState
        <4>1. <<>> \in Seq(1..MaxMsg)
          OBVIOUS
        <4> QED
          BY <2>5, <4>1, EntryChanges DEF TestDrains, Drained
      <3> QED
        BY <2>5, <3>2, <3>3 DEF TestDrains, wires, sending, windows
    <2>6. CASE TestWrites
      <3>1. test.out \o test.got \in Seq(1..MaxMsg)
        BY ConcatProperties DEF TestState
      <3>2. test' \in TestState
        BY <2>6, <3>1, TestChanges DEF TestWrites
      <3> QED
        BY <2>6, <3>2 DEF TestWrites, wires, sending, windows
    <2>7. CASE TestReadsInput
      <3>1. test' \in TestState
        <4>1. PICK pos \in {"send", "finish", "done"} :
                test' = [test EXCEPT !.at = pos, !.read = @ + 1]
          BY <2>7 DEF TestReadsInput
        <4>2. test.read < MaxIn
          BY <2>7 DEF TestReadsInput
        <4>3. <<>> \in Seq(1..MaxMsg)
          OBVIOUS
        <4> QED
          BY <4>1, <4>2, <4>3, TestChanges
      <3> QED
        BY <2>7, <3>1 DEF TestReadsInput, wires, sending, windows
    <2> QED
      BY <1>9, <2>1, <2>2, <2>3, <2>4, <2>5, <2>6, <2>7 DEF Test
  <1> QED
    BY <1>1, <1>2, <1>3, <1>4, <1>5, <1>6, <1>7, <1>8, <1>9 DEF Next, Network

LEMMA TypeInit == Init => Typed
  <1> SUFFICES ASSUME Init PROVE Typed
    OBVIOUS
  <1> USE Capacities DEF Typed
  <1>1. relay \in Relay /\ seen \in Relay /\ DOMAIN loop = Loops
        /\ \A d \in Loops : LoopOK(loop[d])
    BY DEF Init, Relay, LoopOK, Idle
  <1> QED
    BY <1>1 DEF Init, NoEntry, EntryState, TestState

(* Whatever the capacities, every channel keeps to its own: no step puts a *)
(* message where there is no room, and a loop that holds a message is at a *)
(* place where it has one.                                                 *)
THEOREM TypeCorrect == Spec => []TypeOK
  BY TypeInit, TypeStep, TypeParts, PTL DEF Spec
-----------------------------------------------------------------------------
(* No control message is lost on Windows. *)

LEMMA HeadThenTail ==
  ASSUME NEW S, NEW q \in Seq(S), q # <<>>
  PROVE  q = <<Head(q)>> \o Tail(q)
  <1> DEFINE h == <<Head(q)>>
             t == Tail(q)
  <1>1. /\ Len(q) \in Nat /\ Len(q) >= 1
        /\ t \in Seq(S) /\ Len(t) = Len(q) - 1
        /\ \A i \in 1..Len(t) : t[i] = q[i + 1]
    BY HeadTailProperties, LenProperties, EmptySeq
  <1>2. h \in Seq(S) /\ Len(h) = 1 /\ h[1] = q[1]
    BY <1>1, HeadTailProperties
  <1> HIDE DEF h, t
  <1>3. /\ h \o t \in Seq(S) /\ Len(h \o t) = Len(q)
        /\ \A i \in 1..Len(q) : (h \o t)[i] = IF i <= 1 THEN h[i] ELSE t[i - 1]
    <2>1. Len(h) + Len(t) = Len(q)
      BY <1>1, <1>2
    <2>2. /\ h \o t \in Seq(S) /\ Len(h \o t) = Len(h) + Len(t)
          /\ \A i \in 1..(Len(h) + Len(t)) :
               (h \o t)[i] = IF i <= Len(h) THEN h[i] ELSE t[i - Len(h)]
      <3>1. h \in Seq(S) /\ t \in Seq(S)
        BY <1>1, <1>2
      <3> QED
        BY <3>1, ConcatProperties
    <2> QED
      BY <1>2, <2>1, <2>2
  <1>4. ASSUME NEW i \in 1..Len(q) PROVE (h \o t)[i] = q[i]
    <2>1. CASE i = 1
      BY <1>1, <1>2, <1>3, <2>1
    <2>2. CASE i # 1
      <3>1. i - 1 \in 1..Len(t) /\ (i - 1) + 1 = i /\ ~(i <= 1)
        BY <1>1, <2>2
      <3>2. t[i - 1] = q[i]
        BY <1>1, <3>1
      <3> QED
        BY <1>3, <3>1, <3>2
    <2> QED
      BY <2>1, <2>2
  <1> QED
    BY <1>3, <1>4, SeqEqual DEF h, t

(* The relay's next message follows the last one.                          *)
LEMMA LeadsAppend ==
  ASSUME NEW q \in Seq(Message), NEW s \in Relay, NEW r \in Relay, NEW m \in Message,
         Leads(q, s, r), m.n = r.said + 1, From(m) = r.st
  PROVE  Leads(Append(q, m), s, Tells(r, m))
  <1> DEFINE p == Append(q, m)
             x == Tells(r, m)
  <1>1. /\ Len(q) \in Nat /\ Len(p) = Len(q) + 1
        /\ \A i \in 1..Len(q) : p[i] = q[i] /\ q[i] \in Message
        /\ p[Len(q) + 1] = m
    BY AppendProperties, LenProperties, ElementOfSeq
  <1>2. x.said = r.said + 1 /\ x.st = To(m)
    BY TellsType
  <1>3. /\ s.said \in Nat /\ r.said \in Nat /\ m.n \in Nat
        /\ \A i \in 1..Len(q) : q[i].n \in Nat
    BY <1>1, MessageMeaning, Capacities DEF Relay
  <1> HIDE DEF p, x
  <1>4. Rising(p, s, x)
    <2>1. s.said <= x.said
      BY <1>2, <1>3 DEF Leads, Rising
    <2>2. ASSUME NEW i \in 1..Len(p) PROVE s.said < p[i].n /\ p[i].n <= x.said
      <3>1. i \in 1..Len(q) \/ i = Len(q) + 1
        BY <1>1
      <3> QED
        BY <1>1, <1>2, <1>3, <3>1 DEF Leads, Rising
    <2>3. ASSUME NEW i \in 1..Len(p), NEW j \in 1..Len(p), i < j PROVE p[i].n < p[j].n
      <3>1. i \in 1..Len(q) /\ (j \in 1..Len(q) \/ j = Len(q) + 1)
        BY <1>1, <2>3
      <3> QED
        BY <1>1, <1>3, <2>3, <3>1 DEF Leads, Rising
    <2> QED
      BY <2>1, <2>2, <2>3 DEF Rising
  <1>5. Chained(p, s.st, x.st)
    <2> SUFFICES ASSUME NEW i \in 0..Len(p)
                 PROVE  Follows(IF i = 0 THEN s.st ELSE To(p[i]),
                                IF i = Len(p) THEN x.st ELSE From(p[i + 1]))
      BY DEF Chained, From, To
    <2>1. CASE i = Len(q) + 1
      BY <1>1, <1>2, <2>1 DEF Follows
    <2>2. CASE i = Len(q)
      <3>1. Follows(IF i = 0 THEN s.st ELSE To(q[i]), r.st)
        BY <1>1, <2>2 DEF Leads, Chained, To
      <3>2. IF i = 0 THEN TRUE ELSE p[i] = q[i]
        BY <1>1, <2>2
      <3> QED
        BY <1>1, <2>2, <3>1, <3>2
    <2>3. CASE i < Len(q)
      <3>1. Follows(IF i = 0 THEN s.st ELSE To(q[i]), From(q[i + 1]))
        BY <1>1, <2>3 DEF Leads, Chained, To, From
      <3>2. (IF i = 0 THEN TRUE ELSE p[i] = q[i]) /\ p[i + 1] = q[i + 1] /\ i # Len(p)
        BY <1>1, <2>3
      <3> QED
        BY <3>1, <3>2
    <2> QED
      BY <1>1, <2>1, <2>2, <2>3
  <1> QED
    BY <1>4, <1>5 DEF Leads, p, x

(* A Connect may follow the end of a connection.                           *)
LEMMA LeadsAsked ==
  ASSUME NEW q \in Seq(Message), NEW s \in Relay, NEW r \in Relay,
         Leads(q, s, r), r.st \in {"none", "over"}
  PROVE  Leads(q, s, [r EXCEPT !.st = "asked"])
  <1> DEFINE x == [r EXCEPT !.st = "asked"]
  <1>1. x.said = r.said /\ x.st = "asked"
    BY DEF Relay
  <1> HIDE DEF x
  <1>2. Rising(q, s, x)
    BY <1>1 DEF Leads, Rising
  <1>3. Chained(q, s.st, x.st)
    <2> SUFFICES ASSUME NEW i \in 0..Len(q)
                 PROVE  Follows(IF i = 0 THEN s.st ELSE To(q[i]),
                                IF i = Len(q) THEN x.st ELSE From(q[i + 1]))
      BY DEF Chained, From, To
    <2>1. Follows(IF i = 0 THEN s.st ELSE To(q[i]),
                  IF i = Len(q) THEN r.st ELSE From(q[i + 1]))
      BY DEF Leads, Chained, From, To
    <2> QED
      BY <1>1, <2>1 DEF Follows
  <1> QED
    BY <1>2, <1>3 DEF Leads, x

(* A message that is taken is what the next one follows.                   *)
LEMMA LeadsTaken ==
  ASSUME NEW q \in Seq(Message), NEW s \in Relay, NEW r \in Relay, NEW m \in Message,
         Leads(<<m>> \o q, s, r)
  PROVE  Leads(q, Tells(s, m), r)
  <1> DEFINE p == <<m>> \o q
             x == Tells(s, m)
  <1>1. /\ Len(q) \in Nat /\ p \in Seq(Message) /\ Len(p) = Len(q) + 1
        /\ p[1] = m
        /\ \A i \in 1..Len(q) : p[i + 1] = q[i] /\ q[i] \in Message
    <2>1. <<m>> \in Seq(Message) /\ Len(<<m>>) = 1 /\ <<m>>[1] = m
      OBVIOUS
    <2>2. /\ p \in Seq(Message) /\ Len(p) = 1 + Len(q)
          /\ \A i \in 1..(1 + Len(q)) : p[i] = IF i <= 1 THEN <<m>>[i] ELSE q[i - 1]
      BY <2>1, ConcatProperties
    <2>3. Len(q) \in Nat /\ \A i \in 1..Len(q) : q[i] \in Message
      BY LenProperties, ElementOfSeq
    <2> HIDE DEF p
    <2>4. ASSUME NEW i \in 1..Len(q) PROVE p[i + 1] = q[i]
      <3>1. i + 1 \in 1..(1 + Len(q)) /\ (i + 1) - 1 = i /\ ~(i + 1 <= 1)
        BY <2>3
      <3> QED
        BY <2>2, <3>1
    <2> QED
      BY <2>1, <2>2, <2>3, <2>4
  <1>2. x.said = m.n /\ x.st = To(m)
    BY TellsType
  <1>3. s.said \in Nat /\ r.said \in Nat /\ m.n \in Nat
    BY MessageMeaning, Capacities DEF Relay
  <1> HIDE DEF p, x
  <1>4. Rising(q, x, r)
    <2>1. x.said <= r.said
      BY <1>1, <1>2 DEF Leads, Rising, p
    <2>2. ASSUME NEW i \in 1..Len(q) PROVE x.said < q[i].n /\ q[i].n <= r.said
      <3>1. 1 \in 1..Len(p) /\ i + 1 \in 1..Len(p) /\ 1 < i + 1
        BY <1>1
      <3> QED
        BY <1>1, <1>2, <3>1 DEF Leads, Rising, p
    <2>3. ASSUME NEW i \in 1..Len(q), NEW j \in 1..Len(q), i < j PROVE q[i].n < q[j].n
      <3>1. i + 1 \in 1..Len(p) /\ j + 1 \in 1..Len(p) /\ i + 1 < j + 1
        BY <1>1, <2>3
      <3>2. p[i + 1].n < p[j + 1].n
        BY <3>1 DEF Leads, Rising, p
      <3> QED
        BY <1>1, <3>2
    <2> QED
      BY <2>1, <2>2, <2>3 DEF Rising
  <1>5. Chained(q, x.st, r.st)
    <2> SUFFICES ASSUME NEW i \in 0..Len(q)
                 PROVE  Follows(IF i = 0 THEN x.st ELSE To(q[i]),
                                IF i = Len(q) THEN r.st ELSE From(q[i + 1]))
      BY DEF Chained, From, To
    <2> DEFINE k == i + 1
    <2>1. k \in 0..Len(p) /\ k # 0 /\ (k = Len(p) <=> i = Len(q))
      BY <1>1
    <2>2. Follows(To(p[k]), IF k = Len(p) THEN r.st ELSE From(p[k + 1]))
      <3> HIDE DEF k
      <3> QED
        BY <2>1 DEF Leads, Chained, From, To, p
    <2>3. To(p[k]) = IF i = 0 THEN x.st ELSE To(q[i])
      BY <1>1, <1>2
    <2>4. i # Len(q) => p[k + 1] = q[i + 1]
      BY <1>1
    <2> HIDE DEF k
    <2> QED
      BY <2>1, <2>2, <2>3, <2>4
  <1> QED
    BY <1>4, <1>5 DEF Leads, p, x

(* Without a Data the others still follow one another.                     *)
LEMMA LeadsDropped ==
  ASSUME NEW a \in Seq(Message), NEW d \in Seq(Message), NEW m \in Message,
         NEW s \in Relay, NEW r \in Relay,
         Leads((a \o <<m>>) \o d, s, r), m.kind = "data"
  PROVE  Leads(a \o d, s, r)
  <1> DEFINE q == (a \o <<m>>) \o d
             p == a \o d
             k == Len(a)
  <1>1. k \in Nat /\ Len(d) \in Nat
    BY LenProperties
  <1>2. /\ Len(p) = k + Len(d) /\ Len(q) = k + 1 + Len(d)
        /\ \A i \in 1..k : p[i] = q[i]
        /\ \A i \in (k + 1)..Len(p) : p[i] = q[i + 1]
        /\ q[k + 1] = m
    <2>1. <<m>> \in Seq(Message) /\ Len(<<m>>) = 1 /\ <<m>>[1] = m
      OBVIOUS
    <2> DEFINE b == a \o <<m>>
    <2>2. /\ b \in Seq(Message) /\ Len(b) = k + 1
          /\ \A i \in 1..(k + 1) : b[i] = IF i <= k THEN a[i] ELSE <<m>>[i - k]
      BY <2>1, ConcatProperties
    <2>3. b[k + 1] = m /\ \A i \in 1..k : b[i] = a[i]
      <3>1. k + 1 \in 1..(k + 1) /\ ~(k + 1 <= k) /\ (k + 1) - k = 1
        BY <1>1
      <3> QED
        BY <1>1, <2>1, <2>2, <3>1
    <2> HIDE DEF b
    <2>4. /\ Len(b \o d) = k + 1 + Len(d)
          /\ \A i \in 1..(k + 1 + Len(d)) : (b \o d)[i] = IF i <= k + 1 THEN b[i] ELSE d[i - (k + 1)]
      <3>1. /\ Len(b \o d) = Len(b) + Len(d)
            /\ \A i \in 1..(Len(b) + Len(d)) :
                 (b \o d)[i] = IF i <= Len(b) THEN b[i] ELSE d[i - Len(b)]
        <4>1. b \in Seq(Message)
          BY <2>2
        <4> QED
          BY <4>1, ConcatProperties
      <3> QED
        BY <2>2, <3>1
    <2>5. /\ Len(p) = k + Len(d)
          /\ \A i \in 1..(k + Len(d)) : p[i] = IF i <= k THEN a[i] ELSE d[i - k]
      BY ConcatProperties
    <2>6. q = b \o d
      BY DEF b
    <2> HIDE DEF p, q, k
    <2>7. ASSUME NEW i \in 1..k PROVE p[i] = q[i]
      <3>1. i \in 1..(k + Len(d)) /\ i \in 1..(k + 1 + Len(d)) /\ i <= k /\ i <= k + 1
        BY <1>1
      <3> QED
        BY <2>3, <2>4, <2>5, <2>6, <3>1
    <2>8. ASSUME NEW i \in (k + 1)..Len(p) PROVE p[i] = q[i + 1]
      <3>1. /\ i \in 1..(k + Len(d)) /\ i + 1 \in 1..(k + 1 + Len(d))
            /\ ~(i <= k) /\ ~(i + 1 <= k + 1) /\ (i + 1) - (k + 1) = i - k
        BY <1>1, <2>5
      <3> QED
        BY <2>4, <2>5, <2>6, <3>1
    <2>9. q[k + 1] = m
      <3>1. k + 1 \in 1..(k + 1 + Len(d)) /\ k + 1 <= k + 1
        BY <1>1
      <3> QED
        BY <2>3, <2>4, <2>6, <3>1
    <2> QED
      BY <2>4, <2>5, <2>6, <2>7, <2>8, <2>9
  <1>3. From(m) = "up" /\ To(m) = "up" /\ m.n \in Nat
    BY MessageMeaning
  <1>4. s.said \in Nat /\ r.said \in Nat
    BY Capacities DEF Relay
  <1>5. Leads(q, s, r)
    OBVIOUS
  <1>6. p \in Seq(Message)
    BY ConcatProperties
  <1>7. \A i \in 1..Len(p) : p[i].n \in Nat
    BY <1>6, ElementOfSeq, MessageMeaning
  <1> HIDE DEF p, q, k
  <1>8. Rising(p, s, r)
    <2> DEFINE f(i) == IF i <= k THEN i ELSE i + 1
    <2>1. \A i \in 1..Len(p) : f(i) \in 1..Len(q) /\ p[i] = q[f(i)]
      BY <1>1, <1>2
    <2>2. \A i, j \in 1..Len(p) : i < j => f(i) < f(j)
      BY <1>1, <1>2
    <2> HIDE DEF f
    <2>3. /\ s.said <= r.said
          /\ \A i \in 1..Len(q) : s.said < q[i].n /\ q[i].n <= r.said
          /\ \A i, j \in 1..Len(q) : i < j => q[i].n < q[j].n
      BY <1>5 DEF Leads, Rising
    <2> QED
      BY <2>1, <2>2, <2>3 DEF Rising
  <1>9. Chained(p, s.st, r.st)
    <2> SUFFICES ASSUME NEW i \in 0..Len(p)
                 PROVE  Follows(IF i = 0 THEN s.st ELSE To(p[i]),
                                IF i = Len(p) THEN r.st ELSE From(p[i + 1]))
      BY DEF Chained, From, To
    <2>0. \A j \in 0..Len(q) :
            Follows(IF j = 0 THEN s.st ELSE To(q[j]),
                    IF j = Len(q) THEN r.st ELSE From(q[j + 1]))
      BY <1>5 DEF Leads, Chained, From, To
    <2>1. CASE i < k
      <3>1. /\ i \in 0..Len(q) /\ i # Len(p) /\ i # Len(q) /\ p[i + 1] = q[i + 1]
            /\ IF i = 0 THEN TRUE ELSE p[i] = q[i]
        BY <1>1, <1>2, <2>1
      <3> QED
        BY <2>0, <3>1
    <2>2. CASE i > k
      <3>1. /\ i + 1 \in 0..Len(q) /\ i # 0 /\ i + 1 # 0 /\ p[i] = q[i + 1]
            /\ (i = Len(p) <=> i + 1 = Len(q))
            /\ i # Len(p) => p[i + 1] = q[i + 2] /\ (i + 1) + 1 = i + 2
        BY <1>1, <1>2, <2>2
      <3>2. Follows(To(q[i + 1]), IF i + 1 = Len(q) THEN r.st ELSE From(q[(i + 1) + 1]))
        BY <2>0, <3>1
      <3> QED
        BY <3>1, <3>2
    <2>3. CASE i = k
      <3>1. /\ k \in 0..Len(q) /\ k # Len(q) /\ k + 1 \in 0..Len(q) /\ k + 1 # 0
            /\ (k = Len(p) <=> k + 1 = Len(q))
            /\ k # Len(p) => p[k + 1] = q[(k + 1) + 1]
            /\ IF k = 0 THEN TRUE ELSE p[k] = q[k]
        BY <1>1, <1>2
      <3>2. Follows(IF k = 0 THEN s.st ELSE To(q[k]), "up")
        BY <1>2, <1>3, <2>0, <3>1
      <3>3. Follows("up", IF k + 1 = Len(q) THEN r.st ELSE From(q[(k + 1) + 1]))
        BY <1>2, <1>3, <2>0, <3>1
      <3>4. (IF k = 0 THEN s.st ELSE To(q[k])) = "up"
        BY <3>2 DEF Follows
      <3>5. (IF k = 0 THEN s.st ELSE To(p[k])) = "up"
        BY <3>1, <3>4
      <3>6. Follows("up", IF k = Len(p) THEN r.st ELSE From(p[k + 1]))
        BY <3>1, <3>3
      <3> QED
        BY <2>3, <3>5, <3>6
    <2> QED
      BY <1>1, <1>2, <2>1, <2>2, <2>3
  <1> QED
    BY <1>8, <1>9 DEF Leads, p

(* Joining is associative.  Stated of a name that the provers do not look  *)
(* into: the elements of three joined sequences are more than they need.   *)
Messages(q) == q \in Seq(Message)

Cat(p, q) == p \o q

LEMMA FourParts ==
  ASSUME NEW g, NEW t, NEW h, NEW d,
         Messages(g), Messages(t), Messages(h), Messages(d)
  PROVE  Cat(Cat(Cat(g, t), h), d) = Cat(g, Cat(Cat(t, h), d))
  <1>1. g \in Seq(Message) /\ t \in Seq(Message) /\ h \in Seq(Message) /\ d \in Seq(Message)
    BY DEF Messages
  <1>2. (g \o t) \o h = g \o (t \o h)
    BY <1>1, ConcatAssociative
  <1>3. t \o h \in Seq(Message)
    BY <1>1, ConcatProperties
  <1>4. (g \o (t \o h)) \o d = g \o ((t \o h) \o d)
    BY <1>1, <1>3, ConcatAssociative
  <1> QED
    BY <1>2, <1>4, Zenon DEF Cat

(* What a step makes of the way to the main loop.                          *)
LEMMA WayChanges ==
  ASSUME NEW a \in Seq(Message), NEW h \in Seq(Message), NEW d \in Seq(Message),
         NEW m \in Message
  PROVE  /\ (a \o h) \o d \in Seq(Message)
         /\ (a \o h) \o Append(d, m) = Append((a \o h) \o d, m)
         /\ Append(a, m) \o <<>> = a \o <<m>>
         /\ a # <<>> => (a \o h) \o d = <<Head(a)>> \o ((Tail(a) \o h) \o d)
         /\ a \o <<>> = a
         /\ d # <<>> => (a \o <<Head(d)>>) \o Tail(d) = a \o d
  <1>1. <<m>> \in Seq(Message) /\ Append(a, m) \in Seq(Message)
    BY AppendProperties
  <1>2. a \o h \in Seq(Message) /\ (a \o h) \o d \in Seq(Message)
    <2>1. a \o h \in Seq(Message)
      BY ConcatProperties
    <2> QED
      BY <2>1, ConcatProperties
  <1>3. (a \o h) \o Append(d, m) = Append((a \o h) \o d, m)
    <2>1. Append(d, m) = d \o <<m>>
      BY AppendIsConcat
    <2>2. Append((a \o h) \o d, m) = ((a \o h) \o d) \o <<m>>
      BY <1>2, AppendIsConcat
    <2>3. ((a \o h) \o d) \o <<m>> = (a \o h) \o (d \o <<m>>)
      BY <1>1, <1>2, ConcatAssociative
    <2> QED
      BY <2>1, <2>2, <2>3, Zenon
  <1>4. Append(a, m) \o <<>> = a \o <<m>>
    <2>1. Append(a, m) \o <<>> = Append(a, m)
      BY <1>1, ConcatEmptySeq
    <2>2. Append(a, m) = a \o <<m>>
      BY AppendIsConcat
    <2> QED
      BY <2>1, <2>2, Zenon
  <1>5. ASSUME a # <<>>
        PROVE  (a \o h) \o d = <<Head(a)>> \o ((Tail(a) \o h) \o d)
    <2>1. /\ <<Head(a)>> \in Seq(Message) /\ Tail(a) \in Seq(Message)
          /\ a = <<Head(a)>> \o Tail(a)
      BY <1>5, HeadTailProperties, HeadThenTail
    <2>2. Messages(<<Head(a)>>) /\ Messages(Tail(a)) /\ Messages(h) /\ Messages(d)
      BY <2>1 DEF Messages
    <2>3. ((<<Head(a)>> \o Tail(a)) \o h) \o d = <<Head(a)>> \o ((Tail(a) \o h) \o d)
      <3>1. Cat(Cat(Cat(<<Head(a)>>, Tail(a)), h), d) = Cat(<<Head(a)>>, Cat(Cat(Tail(a), h), d))
        BY ONLY <2>2, FourParts
      <3> QED
        BY ONLY <3>1 DEF Cat
    <2> QED
      BY <2>1, <2>3, Zenon
  <1>6. a \o <<>> = a
    BY ConcatEmptySeq
  <1>7. ASSUME d # <<>>
        PROVE  (a \o <<Head(d)>>) \o Tail(d) = a \o d
    <2> DEFINE g == <<Head(d)>>
               t == Tail(d)
    <2>1. t \in Seq(Message) /\ g \in Seq(Message)
      BY <1>7, HeadTailProperties
    <2>2. d = g \o t
      BY <1>7, HeadThenTail
    <2> HIDE DEF g, t
    <2>3. (a \o g) \o t = a \o (g \o t)
      BY <2>1, ConcatAssociative
    <2>4. (a \o g) \o t = a \o d
      BY <2>2, <2>3, Zenon
    <2> QED
      BY <2>4 DEF g, t
  <1> QED
    BY <1>2, <1>3, <1>4, <1>5, <1>6, <1>7

(* What the loop holds.                                                    *)
LEMMA HeldType ==
  ASSUME Typed
  PROVE  /\ Held \in Seq(Message)
         /\ ~At("tcp", "read") /\ ~At("tcp", "ended") => loop["tcp"].msg \in Message
         /\ At("tcp", "event") \/ At("tcp", "try") => Held = <<loop["tcp"].msg>>
         /\ ~At("tcp", "event") /\ ~At("tcp", "try") => Held = <<>>
         /\ Way = (events \o Held) \o down /\ Way \in Seq(Message)
  <1>1. LoopOK(loop["tcp"])
    BY DEF Typed, Loops
  <1>2. ~At("tcp", "read") /\ ~At("tcp", "ended") => loop["tcp"].msg \in Message
    BY <1>1 DEF LoopOK, At
  <1>3. /\ At("tcp", "event") \/ At("tcp", "try") => Held = <<loop["tcp"].msg>>
        /\ ~At("tcp", "event") /\ ~At("tcp", "try") => Held = <<>>
    BY DEF Held, At
  <1>4. Held \in Seq(Message)
    <2>1. CASE At("tcp", "event") \/ At("tcp", "try")
      <3>1. loop["tcp"].msg \in Message
        BY <1>2, <2>1 DEF At
      <3>2. <<loop["tcp"].msg>> \in Seq(Message)
        BY <3>1
      <3> QED
        BY <1>3, <2>1, <3>2, Zenon
    <2>2. CASE ~At("tcp", "event") /\ ~At("tcp", "try")
      BY <1>3, <2>2
    <2> QED
      BY <2>1, <2>2
  <1>5. Way \in Seq(Message)
    <2>1. events \o Held \in Seq(Message)
      BY <1>4, ConcatProperties DEF Typed
    <2> QED
      BY <2>1, ConcatProperties DEF Way, Typed
  <1> QED
    BY <1>2, <1>3, <1>4, <1>5 DEF Way

(* The relay takes a message or sends one, or the tunnel is lost.          *)
LEMMA ControlNetwork ==
  ASSUME Typed, Typed', link = "up", InOrder, Network, link' = "up"
  PROVE  InOrder'
  <1>1. /\ relay \in Relay /\ seen \in Relay /\ down \in Seq(Message) /\ events \in Seq(Message)
        /\ Held \in Seq(Message) /\ Way \in Seq(Message)
    BY HeldType DEF Typed
  <1>2. CASE RelayTakes
    <2>1. Way' = Way /\ seen' = seen /\ loop' = loop
      BY <1>2 DEF RelayTakes, Way, Held, windows
    <2>2. \/ relay' = relay
          \/ relay.st \in {"none", "over"} /\ relay' = [relay EXCEPT !.st = "asked"]
      BY <1>2 DEF RelayTakes
    <2>3. Leads(Way, seen, relay')
      BY <1>1, <2>2, LeadsAsked DEF InOrder
    <2> QED
      BY <2>1, <2>3 DEF InOrder, At
  <1>3. CASE RelaySays
    <2>1. PICK m \in Message : Says(m) /\ down' = Append(down, m)
      BY <1>3 DEF RelaySays
    <2>2. seen' = seen /\ loop' = loop /\ events' = events /\ Held' = Held
      BY <1>3 DEF RelaySays, windows, Held
    <2>3. Way' = Append(Way, m)
      BY <1>1, <2>1, <2>2, WayChanges DEF Way
    <2>4. /\ m.n = relay.said + 1 /\ From(m) = relay.st
          /\ relay' = Tells(relay, m)
      BY <2>1 DEF Says, From
    <2>5. Leads(Way', seen, relay')
      BY <1>1, <2>3, <2>4, LeadsAppend DEF InOrder
    <2> QED
      BY <2>2, <2>5 DEF InOrder, At
  <1>4. CASE TunnelBreaks \/ UdpReads
    BY <1>4 DEF TunnelBreaks, UdpReads
  <1> QED
    BY <1>2, <1>3, <1>4 DEF Network

(* The loop takes a message off the wire, hands it on, or drops it.        *)
LEMMA ControlReceive ==
  ASSUME Typed, Typed', link = "up", build = "windows", InOrder,
         NEW d \in Loops, Receive(d)
  PROVE  InOrder'
  <1>1. /\ relay \in Relay /\ seen \in Relay /\ down \in Seq(Message) /\ events \in Seq(Message)
        /\ DOMAIN loop = Loops /\ \A e \in Loops : LoopOK(loop[e])
    BY DEF Typed
  <1>2. /\ ~At("udp", "event") /\ ~At("udp", "try") /\ ~At("udp", "buffer")
        /\ ~At("udp", "notify") /\ ~At("tcp", "notify")
    BY DEF InOrder, Idle, At
  <1>3. CASE TcpReads
    <2> DEFINE m == Head(down)
    <2>1. /\ m \in Message /\ At("tcp", "read") /\ down # <<>> /\ down' = Tail(down)
          /\ events' = events /\ seen' = seen /\ relay' = relay /\ Takes("tcp", m)
      BY <1>1, <1>3, HeadTailProperties DEF TcpReads, windows
    <2> HIDE DEF m
    <2>2. /\ loop'["tcp"] = [at |-> FirstStep(m), msg |-> m] /\ loop'["udp"] = loop["udp"]
      BY <1>1, <2>1, LoopTakes DEF Loops
    <2>3. FirstStep(m) = IF m.kind = "data" THEN "try" ELSE "event"
      BY DEF FirstStep
    <2>4. Held = <<>> /\ Held' = <<m>>
      <3>1. loop'["tcp"].at \in {"event", "try"} /\ loop'["tcp"].msg = m
        BY <2>2, <2>3
      <3> QED
        BY <2>1, <3>1 DEF Held, At
    <2>5. Way' = Way
      <3>1. Way = (events \o <<>>) \o down /\ Way' = (events \o <<m>>) \o Tail(down)
        BY <2>1, <2>4 DEF Way
      <3>2. /\ events \o <<>> = events
            /\ (events \o <<m>>) \o Tail(down) = events \o down
        BY <1>1, <2>1, WayChanges DEF m
      <3> QED
        BY <3>1, <3>2, Zenon
    <2> QED
      BY <2>1, <2>2, <2>3, <2>5 DEF InOrder, At
  <1>4. CASE SendEvent(d)
    <2> DEFINE m == loop["tcp"].msg
    <2>1. d = "tcp" /\ At("tcp", "event") /\ events' = Append(events, m)
      BY <1>2, <1>4 DEF SendEvent, NeverDropped, Loops
    <2>2. m \in Message /\ Held = <<m>>
      BY <2>1, HeldType DEF At
    <2>3. PICK pos \in {"buffer", "read"} :
             Goto("tcp", pos) /\ (pos = "buffer" => m.kind \in {"failed", "reset"})
      BY <1>4, <2>1 DEF SendEvent
    <2>4. /\ loop'["tcp"].at = pos /\ loop'["udp"] = loop["udp"]
          /\ pos = "buffer" => loop'["tcp"].msg = m
      BY <1>1, <2>1, <2>3, LoopMoves DEF Loops, At
    <2>5. Held' = <<>> /\ down' = down /\ relay' = relay /\ seen' = seen
      BY <1>4, <2>4 DEF Held, SendEvent, wires, windows
    <2> HIDE DEF m
    <2>6. Way' = Way
      <3>1. Way = (events \o <<m>>) \o down /\ Way' = (Append(events, m) \o <<>>) \o down
        BY <2>1, <2>2, <2>5 DEF Way
      <3>2. Append(events, m) \o <<>> = events \o <<m>>
        BY <1>1, <2>2, WayChanges
      <3> QED
        BY <3>1, <3>2, Zenon
    <2> QED
      BY <2>3, <2>4, <2>5, <2>6 DEF InOrder, At
  <1>5. CASE TryEvent(d)
    <2> DEFINE m == loop["tcp"].msg
    <2>1. /\ d = "tcp" /\ At("tcp", "try")
          /\ events' = Append(events, m) \/ events' = events
          /\ Goto("tcp", "read")
      BY <1>2, <1>5 DEF TryEvent, Loops
    <2>2. m \in Message /\ Held = <<m>> /\ m.kind = "data"
      BY <2>1, HeldType DEF At, InOrder
    <2>3. loop'["tcp"] = Idle /\ loop'["udp"] = loop["udp"]
      BY <1>1, <2>1, LoopMoves DEF Loops, At
    <2>4. Held' = <<>> /\ down' = down /\ relay' = relay /\ seen' = seen
      BY <1>5, <2>3 DEF Held, TryEvent, wires, windows, Idle
    <2> HIDE DEF m
    <2>5. Way = (events \o <<m>>) \o down /\ Way' = (events' \o <<>>) \o down
      BY <2>2, <2>4 DEF Way
    <2>6. Leads(Way', seen, relay)
      <3>1. CASE events' = Append(events, m)
        <4>1. Append(events, m) \o <<>> = events \o <<m>>
          BY <1>1, <2>2, WayChanges
        <4>2. Way' = Way
          BY <2>5, <3>1, <4>1, Zenon
        <4> QED
          BY <4>2 DEF InOrder
      <3>2. CASE events' = events
        <4>1. events \o <<>> = events
          BY <1>1, <2>2, WayChanges
        <4>2. Way' = events \o down
          BY <2>5, <3>2, <4>1, Zenon
        <4>3. Leads((events \o <<m>>) \o down, seen, relay)
          BY <2>5 DEF InOrder
        <4>4. Leads(events \o down, seen, relay)
          BY <1>1, <2>2, <4>3, LeadsDropped
        <4> QED
          BY <4>2, <4>4
      <3> QED
        BY <2>1, <3>1, <3>2
    <2> QED
      BY <2>3, <2>4, <2>6 DEF InOrder, At, Idle
  <1>6. CASE UpdateEntry(d)
    <2>1. d = "tcp" /\ At("tcp", "buffer") /\ loop["tcp"].msg.kind \in {"failed", "reset"}
      BY <1>2, <1>6 DEF UpdateEntry, Loops, InOrder
    <2>2. Goto("tcp", "read")
      BY <1>6, <2>1 DEF UpdateEntry
    <2>3. loop'["tcp"] = Idle /\ loop'["udp"] = loop["udp"]
      BY <1>1, <2>1, <2>2, LoopMoves DEF Loops, At
    <2>4. Held = <<>> /\ Held' = <<>>
      BY <2>1, <2>3 DEF Held, Idle, At
    <2>5. Way' = Way /\ seen' = seen /\ relay' = relay
      BY <1>6, <2>4 DEF Way, UpdateEntry, wires, windows
    <2> QED
      BY <2>3, <2>5 DEF InOrder, At, Idle
  <1>7. CASE LoopEnds(d) \/ Notify(d)
    BY <1>2, <1>7 DEF LoopEnds, Notify, Loops
  <1> QED
    BY <1>3, <1>4, <1>5, <1>6, <1>7 DEF Receive

(* The main loop takes the oldest event.                                   *)
LEMMA ControlMain ==
  ASSUME Typed, InOrder, MainTakesEvent
  PROVE  InOrder'
  <1> DEFINE m == Head(events)
  <1>1. /\ relay \in Relay /\ seen \in Relay /\ down \in Seq(Message) /\ events \in Seq(Message)
        /\ Held \in Seq(Message)
    BY HeldType DEF Typed
  <1>2. /\ events # <<>> /\ events' = Tail(events) /\ seen' = Tells(seen, m)
        /\ m \in Message /\ Tail(events) \in Seq(Message)
    BY <1>1, HeadTailProperties DEF MainTakesEvent
  <1>3. relay' = relay /\ down' = down /\ loop' = loop /\ Held' = Held
    BY DEF MainTakesEvent, wires, Held
  <1>4. Way = <<m>> \o Way'
    <2>1. (events \o Held) \o down = <<m>> \o ((Tail(events) \o Held) \o down)
      BY <1>1, <1>2, WayChanges
    <2> QED
      BY <1>2, <1>3, <2>1 DEF Way
  <1>5. Way' \in Seq(Message)
    <2>1. (Tail(events) \o Held) \o down \in Seq(Message)
      BY <1>1, <1>2, WayChanges
    <2> QED
      BY <1>2, <1>3, <2>1 DEF Way
  <1> HIDE DEF m
  <1>6. Leads(<<m>> \o Way', seen, relay)
    BY <1>4 DEF InOrder
  <1>7. Leads(Way', Tells(seen, m), relay)
    BY <1>1, <1>2, <1>5, <1>6, LeadsTaken
  <1> QED
    BY <1>2, <1>3, <1>7 DEF InOrder, At

LEMMA ControlStep == Typed /\ Typed' /\ ControlInv /\ [Next]_vars => ControlInv'
  <1> SUFFICES ASSUME Typed, Typed', ControlInv, [Next]_vars, link' = "up", build' = "windows"
               PROVE  InOrder'
    BY DEF ControlInv
  <1>1. CASE UNCHANGED <<build, wires, loop, events, seen>>
    BY <1>1 DEF wires, ControlInv, InOrder, Way, Held, At
  <1>2. CASE Network
    <2>1. build' = build /\ link = "up"
      BY <1>2 DEF Network, RelayTakes, RelaySays, TunnelBreaks, UdpReads
    <2> QED
      BY <1>2, <2>1, ControlNetwork DEF ControlInv
  <1>3. CASE \E d \in Loops : Receive(d)
    <2>1. build' = build /\ link' = link
      BY <1>3 DEF Receive, TcpReads, LoopEnds, SendEvent, TryEvent, UpdateEntry, Notify, wires
    <2> QED
      BY <1>3, <2>1, ControlReceive DEF ControlInv
  <1>4. CASE MainTakesEvent
    <2>1. build' = build /\ link' = link
      BY <1>4 DEF MainTakesEvent, wires
    <2> QED
      BY <1>4, <2>1, ControlMain DEF ControlInv
  <1>5. CASE Write
    <2>1. UNCHANGED <<build, wires, loop, events, seen>>
      BY <1>5 DEF Write, WriterTakes, WriterFails, wires, windows
    <2> QED
      BY <1>1, <2>1
  <1>6. CASE WriteThread \/ MainTakesPacket \/ MainSends
    <2>1. UNCHANGED <<build, wires, loop, events, seen>>
      BY <1>6 DEF WriteThread, MainTakesPacket, MainSends, wires, windows
    <2> QED
      BY <1>1, <2>1
  <1>7. CASE Test
    <2>1. build = "dev" /\ build' = build
      BY <1>7 DEF Test, TestOpens, TestSends, TestNotified, TestChecks, TestDrains, TestWrites,
                  TestReadsInput
    <2> QED
      BY <2>1
  <1>8. CASE UNCHANGED vars
    <2>1. UNCHANGED <<build, wires, loop, events, seen>>
      BY <1>8 DEF vars, wires, windows
    <2> QED
      BY <1>1, <2>1
  <1> QED
    BY <1>2, <1>3, <1>4, <1>5, <1>6, <1>7, <1>8 DEF Next, Threads

LEMMA ControlInit == Init => ControlInv
  <1> SUFFICES ASSUME Init PROVE InOrder
    BY DEF ControlInv
  <1>1. Held = <<>> /\ Way = <<>> /\ seen = relay /\ relay.said = 0
    BY DEF Init, Held, Way, Idle, Loops
  <1>2. Leads(<<>>, relay, relay)
    <2>1. Rising(<<>>, relay, relay)
      BY <1>1 DEF Rising
    <2>2. Chained(<<>>, relay.st, relay.st)
      BY DEF Chained, Follows
    <2> QED
      BY <2>1, <2>2 DEF Leads
  <1> QED
    BY <1>1, <1>2 DEF InOrder, Init, Idle, At, Loops

LEMMA ControlFollows == Typed /\ ControlInv => ControlArrives
  <1> SUFFICES ASSUME Typed, InOrder
               PROVE  /\ \A i \in 1..Len(Way) : Way[i].n > IF i = 1 THEN seen.said ELSE Way[i - 1].n
                      /\ Chained(Way, seen.st, relay.st)
    BY DEF ControlInv, ControlArrives
  <1>1. Way \in Seq(Message) /\ Len(Way) \in Nat
    BY HeldType, LenProperties
  <1>2. \A i \in 1..Len(Way) : Way[i].n \in Nat
    BY <1>1, ElementOfSeq, MessageMeaning
  <1>3. Rising(Way, seen, relay) /\ Chained(Way, seen.st, relay.st)
    BY DEF InOrder, Leads
  <1>4. seen.said \in Nat
    BY Capacities DEF Typed, Relay
  <1>5. ASSUME NEW i \in 1..Len(Way)
        PROVE  Way[i].n > IF i = 1 THEN seen.said ELSE Way[i - 1].n
    <2>1. CASE i = 1
      BY <1>2, <1>3, <1>4, <2>1 DEF Rising
    <2>2. CASE i # 1
      <3>1. i - 1 \in 1..Len(Way) /\ i - 1 < i
        BY <1>1, <2>2
      <3> QED
        BY <1>2, <1>3, <2>2, <3>1 DEF Rising
    <2> QED
      BY <2>1, <2>2
  <1> QED
    BY <1>3, <1>5

(* On Windows, while the tunnel is up, whatever the capacities and however *)
(* full the channels are, Connected, ConnectFailed, Shutdown and Reset     *)
(* reach the main loop, in the order the relay said them; only Data may be *)
(* missing between them.                                                   *)
THEOREM ControlIsNeverLost == Spec => []ControlArrives
  <1>1. Init => Typed /\ ControlInv
    BY TypeInit, ControlInit
  <1>2. Typed /\ ControlInv /\ [Next]_vars => (Typed /\ ControlInv)'
    BY TypeStep, ControlStep
  <1> QED
    BY <1>1, <1>2, ControlFollows, PTL DEF Spec
-----------------------------------------------------------------------------
(* The test connection gets its bytes in order. *)

(* The relay's next message leaves what is applied as it is.               *)
LEMMA ExactAppend ==
  ASSUME NEW q \in Seq(Message), NEW r \in Relay, NEW m \in Message,
         Exact(q, r), m.n = r.said + 1, From(m) = r.st,
         r.st \in {"none", "asked"} => r.said = 0
  PROVE  /\ Exact(Append(q, m), Tells(r, m))
         /\ Applied(Append(q, m), Tells(r, m)) = Applied(q, r)
  <1> DEFINE p == Append(q, m)
             x == Tells(r, m)
  <1>1. /\ Len(q) \in Nat /\ Len(p) = Len(q) + 1 /\ p # <<>>
        /\ \A i \in 1..Len(q) : p[i] = q[i]
        /\ p[Len(q) + 1] = m
    BY AppendProperties, LenProperties
  <1>2. x.said = m.n /\ x.st = To(m) /\ m.n \in Nat /\ r.said \in Nat
    BY TellsType, MessageMeaning, Capacities DEF Relay
  <1>3. q # <<>> => Len(q) >= 1
    BY <1>1, EmptySeq
  <1> HIDE DEF p, x
  <1>4. Exact(p, x)
    <2>1. p[Len(p)].n = x.said /\ To(p[Len(p)]) = x.st
      BY <1>1, <1>2
    <2>2. ASSUME NEW i \in 1..(Len(p) - 1)
          PROVE  p[i + 1].n = p[i].n + 1 /\ From(p[i + 1]) = To(p[i])
      <3>1. CASE i = Len(q)
        <4>1. q # <<>> /\ p[i] = q[Len(q)] /\ p[i + 1] = m
          BY <1>1, <3>1, EmptySeq
        <4> QED
          BY <4>1 DEF Exact
      <3>2. CASE i # Len(q)
        <4>1. i \in 1..(Len(q) - 1) /\ p[i] = q[i] /\ p[i + 1] = q[i + 1]
          BY <1>1, <3>2
        <4> QED
          BY <4>1 DEF Exact
      <3> QED
        BY <3>1, <3>2
    <2>3. ASSUME NEW i \in 1..Len(p), p[i].kind \in {"connected", "failed"}
          PROVE  p[i].n = 1
      <3>1. CASE i = Len(q) + 1
        <4>1. p[i] = m
          BY <1>1, <3>1
        <4>2. From(m) = "asked"
          BY <2>3, <4>1, MessageMeaning
        <4> QED
          BY <4>1, <4>2
      <3>2. CASE i # Len(q) + 1
        <4>1. i \in 1..Len(q) /\ p[i] = q[i]
          BY <1>1, <3>2
        <4> QED
          BY <2>3, <4>1 DEF Exact
      <3> QED
        BY <3>1, <3>2
    <2> QED
      BY <2>1, <2>2, <2>3 DEF Exact
  <1>5. Applied(p, x) = Applied(q, r)
    <2>1. CASE q = <<>>
      <3>1. p[1] = m
        BY <1>1, <2>1
      <3>2. Applied(p, x) = [said |-> m.n - 1, st |-> From(m)]
        BY <1>1, <3>1 DEF Applied
      <3>3. m.n - 1 = r.said
        BY <1>2
      <3>4. r = [said |-> r.said, st |-> r.st]
        BY DEF Relay
      <3> QED
        BY <2>1, <3>2, <3>3, <3>4 DEF Applied
    <2>2. CASE q # <<>>
      BY <1>1, <1>3, <2>2 DEF Applied
    <2> QED
      BY <2>1, <2>2
  <1> QED
    BY <1>4, <1>5 DEF p, x

(* A message that is applied is what the next one follows.                 *)
LEMMA ExactTaken ==
  ASSUME NEW q \in Seq(Message), NEW r \in Relay, NEW m \in Message,
         Exact(<<m>> \o q, r)
  PROVE  /\ Exact(q, r)
         /\ Applied(<<m>> \o q, r) = [said |-> m.n - 1, st |-> From(m)]
         /\ Applied(q, r) = [said |-> m.n, st |-> To(m)]
         /\ m.kind \in {"connected", "failed"} => m.n = 1
  <1> DEFINE p == <<m>> \o q
  <1>1. /\ Len(q) \in Nat /\ Len(p) = Len(q) + 1 /\ p # <<>>
        /\ p[1] = m
        /\ \A i \in 1..Len(q) : p[i + 1] = q[i] /\ q[i] \in Message
    <2>1. <<m>> \in Seq(Message) /\ Len(<<m>>) = 1 /\ <<m>>[1] = m
      OBVIOUS
    <2>2. /\ p \in Seq(Message) /\ Len(p) = 1 + Len(q)
          /\ \A i \in 1..(1 + Len(q)) : p[i] = IF i <= 1 THEN <<m>>[i] ELSE q[i - 1]
      BY <2>1, ConcatProperties
    <2>3. Len(q) \in Nat /\ \A i \in 1..Len(q) : q[i] \in Message
      BY LenProperties, ElementOfSeq
    <2> HIDE DEF p
    <2>4. ASSUME NEW i \in 1..Len(q) PROVE p[i + 1] = q[i]
      <3>1. i + 1 \in 1..(1 + Len(q)) /\ (i + 1) - 1 = i /\ ~(i + 1 <= 1)
        BY <2>3
      <3> QED
        BY <2>2, <3>1
    <2>5. p # <<>>
      BY <2>2, <2>3, EmptySeq
    <2> QED
      BY <2>1, <2>2, <2>3, <2>4, <2>5
  <1>2. Exact(p, r)
    OBVIOUS
  <1>3. q # <<>> => Len(q) >= 1 /\ q[1] \in Message /\ q[1].n \in Nat
    BY <1>1, EmptySeq, MessageMeaning
  <1>4. m.n \in Nat /\ r.said \in Nat
    BY MessageMeaning, Capacities DEF Relay
  <1> HIDE DEF p
  <1>5. Exact(q, r)
    <2>1. q # <<>> => q[Len(q)].n = r.said /\ To(q[Len(q)]) = r.st
      BY <1>1, <1>2, <1>3 DEF Exact
    <2>2. ASSUME NEW i \in 1..(Len(q) - 1)
          PROVE  q[i + 1].n = q[i].n + 1 /\ From(q[i + 1]) = To(q[i])
      <3>1. i + 1 \in 1..(Len(p) - 1) /\ p[i + 1] = q[i] /\ p[(i + 1) + 1] = q[i + 1]
        BY <1>1
      <3> QED
        BY <1>2, <3>1 DEF Exact
    <2>3. ASSUME NEW i \in 1..Len(q), q[i].kind \in {"connected", "failed"}
          PROVE  q[i].n = 1
      <3>1. i + 1 \in 1..Len(p) /\ p[i + 1] = q[i]
        BY <1>1
      <3> QED
        BY <1>2, <2>3, <3>1 DEF Exact
    <2> QED
      BY <2>1, <2>2, <2>3 DEF Exact
  <1>6. Applied(p, r) = [said |-> m.n - 1, st |-> From(m)]
    BY <1>1 DEF Applied
  <1>7. Applied(q, r) = [said |-> m.n, st |-> To(m)]
    <2>1. CASE q = <<>>
      <3>1. p[Len(p)] = m
        BY <1>1, <2>1
      <3>2. r.said = m.n /\ r.st = To(m)
        BY <1>1, <1>2, <3>1 DEF Exact
      <3>3. r = [said |-> r.said, st |-> r.st]
        BY DEF Relay
      <3> QED
        BY <2>1, <3>2, <3>3 DEF Applied
    <2>2. CASE q # <<>>
      <3>1. 1 \in 1..(Len(p) - 1) /\ p[1 + 1] = q[1]
        BY <1>1, <1>3, <2>2
      <3>2. q[1].n = m.n + 1 /\ From(q[1]) = To(m)
        BY <1>1, <1>2, <3>1 DEF Exact
      <3>3. q[1].n - 1 = m.n
        BY <1>4, <3>2
      <3> QED
        BY <2>2, <3>2, <3>3 DEF Applied
    <2> QED
      BY <2>1, <2>2
  <1>8. m.kind \in {"connected", "failed"} => m.n = 1
    BY <1>1, <1>2 DEF Exact
  <1> QED
    BY <1>5, <1>6, <1>7, <1>8 DEF p

(* What a message puts into the buffer.                                    *)
LEMMA StoredMore ==
  ASSUME NEW m \in Message, NEW a \in Seq(1..MaxMsg),
         Stored([said |-> m.n - 1, st |-> From(m)], a)
  PROVE  /\ m.kind # "data" => Stored([said |-> m.n, st |-> To(m)], a)
         /\ m.kind = "data" => Stored([said |-> m.n, st |-> To(m)], Append(a, m.n))
  <1>1. m.n \in Nat /\ m.n \in 1..MaxMsg /\ Len(a) \in Nat
    BY MessageMeaning, LenProperties
  <1>2. /\ From(m) = IF m.kind \in {"connected", "failed"} THEN "asked" ELSE "up"
        /\ To(m) = IF m.kind \in {"connected", "data"} THEN "up" ELSE "over"
        /\ m.kind \in Control \union {"data"}
    BY MessageMeaning
  <1>3. /\ From(m) = "asked" => m.n - 1 = 0 /\ a = <<>>
        /\ From(m) = "up" => m.n - 1 = Len(a) + 1
        /\ \A i \in 1..Len(a) : a[i] = i + 1
    BY DEF Stored
  <1>4. CASE m.kind # "data"
    <2>1. To(m) = "up" => m.n = 1 /\ a = <<>>
      BY <1>1, <1>2, <1>3, <1>4 DEF Control
    <2>2. To(m) = "up" => m.n = Len(a) + 1
      BY <1>1, <2>1
    <2> QED
      BY <1>2, <1>3, <1>4, <2>2 DEF Stored
  <1>5. CASE m.kind = "data"
    <2> DEFINE b == Append(a, m.n)
    <2>1. /\ Len(b) = Len(a) + 1
          /\ \A i \in 1..Len(a) : b[i] = a[i]
          /\ b[Len(a) + 1] = m.n
      BY <1>1, AppendProperties
    <2>2. From(m) = "up" /\ To(m) = "up" /\ m.n = Len(a) + 2
      BY <1>1, <1>2, <1>3, <1>5
    <2> HIDE DEF b
    <2>3. ASSUME NEW i \in 1..Len(b) PROVE b[i] = i + 1
      <3>1. i \in 1..Len(a) \/ i = Len(a) + 1
        BY <1>1, <2>1
      <3> QED
        BY <1>1, <1>3, <2>1, <2>2, <3>1
    <2>4. m.n = Len(b) + 1
      BY <1>1, <2>1, <2>2
    <2>5. Stored([said |-> m.n, st |-> To(m)], b)
      BY <2>2, <2>3, <2>4 DEF Stored
    <2> QED
      BY <1>5, <2>5 DEF b
  <1> QED
    BY <1>4, <1>5

LEMMA JoinThenAppend ==
  ASSUME NEW S, NEW o \in Seq(S), NEW d \in Seq(S), NEW x \in S
  PROVE  o \o Append(d, x) = Append(o \o d, x)
  <1>1. <<x>> \in Seq(S) /\ o \o d \in Seq(S)
    BY ConcatProperties
  <1>2. Append(d, x) = d \o <<x>>
    BY AppendIsConcat
  <1>3. Append(o \o d, x) = (o \o d) \o <<x>>
    BY <1>1, AppendIsConcat
  <1>4. (o \o d) \o <<x>> = o \o (d \o <<x>>)
    BY <1>1, ConcatAssociative
  <1> QED
    BY <1>2, <1>3, <1>4, Zenon

(* What the loop has not applied yet.                                      *)
LEMMA ComingType ==
  ASSUME Typed
  PROVE  /\ At("tcp", "event") \/ At("tcp", "buffer") => Unapplied = <<loop["tcp"].msg>>
         /\ ~At("tcp", "event") /\ ~At("tcp", "buffer") => Unapplied = <<>>
         /\ Unapplied \in Seq(Message)
         /\ Coming = Unapplied \o down /\ Coming \in Seq(Message)
         /\ Unapplied = <<>> => Coming = down
  <1>1. /\ At("tcp", "event") \/ At("tcp", "buffer") => Unapplied = <<loop["tcp"].msg>>
        /\ ~At("tcp", "event") /\ ~At("tcp", "buffer") => Unapplied = <<>>
    BY DEF Unapplied, At
  <1>2. Unapplied \in Seq(Message)
    <2>1. CASE At("tcp", "event") \/ At("tcp", "buffer")
      <3>1. loop["tcp"].msg \in Message
        BY <2>1, HeldType DEF At
      <3>2. <<loop["tcp"].msg>> \in Seq(Message)
        BY <3>1
      <3> QED
        BY <1>1, <2>1, <3>2, Zenon
    <2>2. CASE ~At("tcp", "event") /\ ~At("tcp", "buffer")
      BY <1>1, <2>2
    <2> QED
      BY <2>1, <2>2
  <1>3. Coming \in Seq(Message)
    BY <1>2, ConcatProperties DEF Coming, Typed
  <1>4. Unapplied = <<>> => Coming = down
    BY ConcatEmptySeq DEF Coming, Typed
  <1> QED
    BY <1>1, <1>2, <1>3, <1>4 DEF Coming

(* The relay takes a message or sends one.                                 *)
LEMMA StreamNetwork ==
  ASSUME Typed, Typed', link = "up", build = "dev", Streaming, Network, link' = "up"
  PROVE  Streaming'
  <1>1. /\ relay \in Relay /\ down \in Seq(Message)
        /\ Unapplied \in Seq(Message) /\ Coming \in Seq(Message)
    BY ComingType DEF Typed
  <1>2. CASE RelayTakes
    <2>1. /\ Coming' = Coming /\ Arrived' = Arrived /\ loop' = loop /\ test' = test
          /\ entry' = entry /\ writer = "busy"
      BY <1>2 DEF RelayTakes, Coming, Unapplied, Arrived, dev
    <2>2. ~TestAt("open")
      BY <2>1 DEF Streaming, Fresh
    <2>3. CASE relay' = relay
      BY <2>1, <2>2, <2>3 DEF Streaming, TestAt
    <2>4. CASE relay.st = "none" /\ relay' = [relay EXCEPT !.st = "asked"]
      <3>1. relay' = [said |-> 0, st |-> "asked"] /\ relay.said = 0
        BY <1>1, <2>4 DEF Relay, Streaming
      <3>2. ASSUME entry.ex
            PROVE  Exact(Coming, relay') /\ Stored(Applied(Coming, relay'), Arrived)
        <4>1. Exact(Coming, relay) /\ Stored(Applied(Coming, relay), Arrived)
          BY <3>2 DEF Streaming
        <4>2. Coming = <<>>
          <5> SUFFICES ASSUME Coming # <<>> PROVE FALSE
            OBVIOUS
          <5>1. Len(Coming) \in 1..Len(Coming)
            BY <1>1, LenProperties, EmptySeq
          <5>2. Coming[Len(Coming)] \in Message
            BY <1>1, <5>1, ElementOfSeq
          <5> QED
            BY <2>4, <4>1, <5>2, MessageMeaning DEF Exact
        <4>3. Stored(relay, Arrived)
          BY <4>1, <4>2 DEF Applied
        <4>4. Stored(relay', Arrived)
          BY <2>4, <3>1, <4>3 DEF Stored
        <4>5. Exact(<<>>, relay')
          BY DEF Exact
        <4> QED
          BY <4>2, <4>4, <4>5 DEF Applied
      <3> QED
        BY <2>1, <2>2, <3>1, <3>2 DEF Streaming, TestAt
    <2> QED
      BY <1>2, <2>3, <2>4 DEF RelayTakes
  <1>3. CASE RelaySays
    <2>1. PICK m \in Message : Says(m) /\ down' = Append(down, m)
      BY <1>3 DEF RelaySays
    <2>2. /\ loop' = loop /\ Unapplied' = Unapplied /\ entry' = entry /\ test' = test
          /\ Arrived' = Arrived
      BY <1>3 DEF RelaySays, dev, Unapplied, Arrived
    <2>3. /\ m.n = relay.said + 1 /\ From(m) = relay.st
          /\ relay' = Tells(relay, m)
      BY <2>1 DEF Says, From
    <2>4. Coming' = Append(Coming, m)
      <3>1. Unapplied \o Append(down, m) = Append(Unapplied \o down, m)
        BY <1>1, JoinThenAppend
      <3> QED
        BY <2>1, <2>2, <3>1 DEF Coming
    <2>5. relay'.st \notin {"none", "asked"}
      BY <1>1, <2>3, TellsType, MessageMeaning
    <2>6. ~TestAt("open")
      <3>1. From(m) # "none"
        BY MessageMeaning
      <3> QED
        BY <2>3, <3>1 DEF Streaming, Fresh
    <2>7. ASSUME entry.ex
          PROVE  Exact(Coming', relay') /\ Stored(Applied(Coming', relay'), Arrived)
      <3>1. /\ Exact(Coming, relay) /\ Stored(Applied(Coming, relay), Arrived)
            /\ relay.st \in {"none", "asked"} => relay.said = 0
        BY <2>7 DEF Streaming
      <3>2. /\ Exact(Append(Coming, m), Tells(relay, m))
            /\ Applied(Append(Coming, m), Tells(relay, m)) = Applied(Coming, relay)
        BY <1>1, <2>3, <3>1, ExactAppend
      <3> QED
        BY <2>3, <2>4, <3>1, <3>2
    <2> QED
      BY <2>2, <2>5, <2>6, <2>7 DEF Streaming, TestAt
  <1>4. CASE TunnelBreaks \/ UdpReads
    BY <1>4 DEF TunnelBreaks, UdpReads
  <1> QED
    BY <1>2, <1>3, <1>4 DEF Network

(* A step that moves a message within the loop.                            *)
LEMMA StreamSame ==
  ASSUME Streaming, ~TestAt("open"), UNCHANGED <<relay, entry, test>>,
         loop'["udp"] = loop["udp"], Coming' = Coming
  PROVE  Streaming'
  <1>1. Arrived' = Arrived
    BY DEF Arrived
  <1> QED
    BY <1>1 DEF Streaming, TestAt

(* The loop takes a message off the wire, hands it on, or applies it.      *)
LEMMA StreamReceive ==
  ASSUME Typed, Typed', link = "up", build = "dev", Streaming,
         NEW d \in Loops, Receive(d)
  PROVE  Streaming'
  <1>1. /\ relay \in Relay /\ down \in Seq(Message) /\ entry \in EntryState
        /\ test \in TestState
        /\ DOMAIN loop = Loops /\ \A e \in Loops : LoopOK(loop[e])
    BY DEF Typed
  <1>2. /\ ~At("udp", "event") /\ ~At("udp", "try") /\ ~At("udp", "buffer")
        /\ ~At("udp", "notify")
    BY DEF Streaming, Idle, At
  <1>3. ~TestAt("open")
    <2> SUFFICES ASSUME TestAt("open") PROVE FALSE
      OBVIOUS
    <2>1. down = <<>> /\ \A e \in Loops : loop[e] = Idle
      BY DEF Streaming, Fresh, Loops
    <2> QED
      BY <2>1 DEF Receive, TcpReads, LoopEnds, SendEvent, TryEvent, UpdateEntry, Notify, At, Idle
  <1>4. CASE TcpReads
    <2> DEFINE m == Head(down)
    <2>1. /\ m \in Message /\ At("tcp", "read") /\ down # <<>> /\ down' = Tail(down)
          /\ UNCHANGED <<relay, entry, test>> /\ Takes("tcp", m)
      BY <1>1, <1>4, HeadTailProperties DEF TcpReads, dev
    <2>2. down = <<m>> \o Tail(down)
      BY <1>1, <2>1, HeadThenTail
    <2> HIDE DEF m
    <2>3. loop'["tcp"] = [at |-> FirstStep(m), msg |-> m] /\ loop'["udp"] = loop["udp"]
      BY <1>1, <2>1, LoopTakes DEF Loops
    <2>4. FirstStep(m) \in {"event", "buffer"}
      BY DEF FirstStep
    <2>5. Unapplied = <<>> /\ Unapplied' = <<m>>
      BY <2>1, <2>3, <2>4 DEF Unapplied, At
    <2>6. Coming' = Coming
      <3>1. Coming = down
        BY <2>5, ComingType
      <3> QED
        BY <2>1, <2>2, <2>5, <3>1, Zenon DEF Coming
    <2> QED
      BY <1>3, <2>1, <2>3, <2>6, StreamSame
  <1>5. CASE SendEvent(d)
    <2>1. /\ d = "tcp" /\ At("tcp", "event") /\ Goto("tcp", "buffer")
          /\ UNCHANGED <<relay, down, entry, test>>
      BY <1>2, <1>5 DEF SendEvent, Loops, wires, dev
    <2>2. /\ loop'["tcp"].at = "buffer" /\ loop'["tcp"].msg = loop["tcp"].msg
          /\ loop'["udp"] = loop["udp"]
      BY <1>1, <2>1, LoopMoves DEF Loops, At
    <2>3. Coming' = Coming
      BY <2>1, <2>2 DEF Coming, Unapplied, At
    <2> QED
      BY <1>3, <2>1, <2>2, <2>3, StreamSame
  <1>6. CASE TryEvent(d) \/ Notify(d)
    <2>1. /\ d = "tcp" /\ (At("tcp", "try") \/ At("tcp", "notify"))
          /\ UNCHANGED <<relay, down, entry, test>>
      BY <1>2, <1>6 DEF TryEvent, Notify, Loops, wires, dev
    <2>2. PICK pos \in {"try", "read"} : Goto("tcp", pos)
      BY <1>6, <2>1 DEF TryEvent, Notify, AfterNotify
    <2>3. loop'["tcp"].at = pos /\ loop'["udp"] = loop["udp"]
      BY <1>1, <2>1, <2>2, LoopMoves DEF Loops, At
    <2>4. Coming' = Coming
      BY <2>1, <2>3 DEF Coming, Unapplied, At
    <2> QED
      BY <1>3, <2>1, <2>3, <2>4, StreamSame
  <1>7. CASE UpdateEntry(d)
    <2> DEFINE m == loop["tcp"].msg
    <2>1. d = "tcp" /\ At("tcp", "buffer") /\ UNCHANGED <<relay, down, test>>
      BY <1>2, <1>7 DEF UpdateEntry, Loops, wires
    <2>2. m \in Message /\ Unapplied = <<m>>
      BY <2>1, HeldType, ComingType DEF At
    <2>3. PICK pos \in {"try", "notify", "read"} : Goto("tcp", pos)
      BY <1>7, <2>1 DEF UpdateEntry, AfterNotify
    <2>4. loop'["tcp"].at = pos /\ loop'["udp"] = loop["udp"]
      BY <1>1, <2>1, <2>3, LoopMoves DEF Loops, At
    <2>5. Unapplied' = <<>>
      BY <2>4 DEF Unapplied, At
    <2>6. Coming' = down /\ Coming = <<m>> \o down
      <3>1. down' = down /\ Coming' = <<>> \o down
        BY <2>1, <2>5 DEF Coming
      <3>2. <<>> \o down = down
        BY <1>1, ConcatEmptySeq
      <3> QED
        BY <2>2, <3>1, <3>2, Zenon DEF Coming
    <2>7. /\ entry' = NoEntry \/ entry.ex \/ (~entry.ex /\ entry' = entry)
          /\ (entry.ex /\ m.kind \notin {"failed", "reset"}) =>
               IF m.kind = "data" THEN entry' = [entry EXCEPT !.buf = Append(@, m.n)]
               ELSE entry' \in {[entry EXCEPT !.shut = TRUE], [entry EXCEPT !.connected = TRUE]}
          /\ m.kind \in {"failed", "reset"} => entry' = NoEntry
      BY <1>7, <2>1 DEF UpdateEntry
    <2> HIDE DEF m
    <2>8. ASSUME entry'.ex
          PROVE  Exact(down, relay) /\ Stored(Applied(down, relay), Arrived')
      <3>1. entry.ex /\ m.kind \notin {"failed", "reset"}
        BY <2>7, <2>8 DEF NoEntry
      <3>2. Exact(<<m>> \o down, relay) /\ Stored(Applied(<<m>> \o down, relay), Arrived)
        BY <2>6, <3>1 DEF Streaming
      <3>3. /\ Exact(down, relay)
            /\ Applied(<<m>> \o down, relay) = [said |-> m.n - 1, st |-> From(m)]
            /\ Applied(down, relay) = [said |-> m.n, st |-> To(m)]
        BY <1>1, <2>2, <3>2, ExactTaken
      <3>4. /\ entry.buf \in Seq(1..MaxMsg) /\ test.out \in Seq(1..MaxMsg)
            /\ test.got \in Seq(1..MaxMsg) /\ m.n \in 1..MaxMsg
        BY <1>1, <2>2, MessageMeaning DEF EntryState, TestState
      <3>5. test.out \o test.got \in Seq(1..MaxMsg) /\ Arrived \in Seq(1..MaxMsg)
        <4>1. test.out \o test.got \in Seq(1..MaxMsg)
          BY <3>4, ConcatProperties
        <4> QED
          BY <3>4, <4>1, ConcatProperties DEF Arrived
      <3>6. CASE m.kind = "data"
        <4>1. entry'.buf = Append(entry.buf, m.n)
          BY <1>1, <2>7, <3>1, <3>6 DEF EntryState
        <4>2. Arrived' = Append(Arrived, m.n)
          <5>1. (test.out \o test.got) \o Append(entry.buf, m.n)
                  = Append((test.out \o test.got) \o entry.buf, m.n)
            <6> DEFINE w == test.out \o test.got
                       b == entry.buf
            <6>1. w \in Seq(1..MaxMsg) /\ b \in Seq(1..MaxMsg) /\ m.n \in 1..MaxMsg
              BY <3>4, <3>5
            <6> HIDE DEF w, b
            <6>2. w \o Append(b, m.n) = Append(w \o b, m.n)
              BY ONLY <6>1, JoinThenAppend
            <6> QED
              BY <6>2 DEF w, b
          <5> QED
            BY <2>1, <4>1, <5>1 DEF Arrived
        <4>3. Stored([said |-> m.n, st |-> To(m)], Append(Arrived, m.n))
          BY <2>2, <3>2, <3>3, <3>5, <3>6, StoredMore
        <4> QED
          BY <3>3, <4>2, <4>3
      <3>7. CASE m.kind # "data"
        <4>1. entry'.buf = entry.buf
          BY <1>1, <2>7, <3>1, <3>7 DEF EntryState
        <4>2. Arrived' = Arrived
          BY <2>1, <4>1 DEF Arrived
        <4>3. Stored([said |-> m.n, st |-> To(m)], Arrived)
          BY <2>2, <3>2, <3>3, <3>5, <3>7, StoredMore
        <4> QED
          BY <3>3, <4>2, <4>3
      <3> QED
        BY <3>6, <3>7
    <2> QED
      BY <1>3, <2>1, <2>4, <2>6, <2>8 DEF Streaming, TestAt
  <1>8. CASE LoopEnds(d)
    BY <1>8 DEF LoopEnds
  <1> QED
    BY <1>4, <1>5, <1>6, <1>7, <1>8 DEF Receive

(* The test connection opens its entry, drains its buffer and writes.      *)
LEMMA StreamTest ==
  ASSUME Typed, Typed', Streaming, Test
  PROVE  Streaming'
  <1>1. /\ relay \in Relay /\ entry \in EntryState /\ test \in TestState
    BY DEF Typed
  <1>2. UNCHANGED <<relay, down, loop>>
    BY DEF Test, TestOpens, TestSends, TestNotified, TestChecks, TestDrains, TestWrites,
           TestReadsInput, wires
  <1>3. Coming' = Coming
    BY <1>2 DEF Coming, Unapplied
  <1>4. /\ entry.buf \in Seq(1..MaxMsg) /\ test.out \in Seq(1..MaxMsg)
        /\ test.got \in Seq(1..MaxMsg)
    BY <1>1 DEF EntryState, TestState
  <1>5. CASE TestOpens
    <2>1. /\ TestAt("open") /\ entry' = [NoEntry EXCEPT !.ex = TRUE]
          /\ test' = [test EXCEPT !.at = "connect"]
      BY <1>5 DEF TestOpens
    <2>2. Fresh /\ test.got = <<>>
      BY <2>1 DEF Streaming, TestAt
    <2>3. /\ entry'.buf = <<>> /\ test'.out = <<>> /\ test'.got = <<>> /\ test'.at = "connect"
      BY <1>1, <2>1, <2>2 DEF NoEntry, TestState, Fresh
    <2>4. Arrived' = <<>>
      BY <2>3 DEF Arrived
    <2>5. Coming = <<>> /\ relay.said = 0 /\ relay.st = "none"
      BY <2>2, ComingType DEF Fresh, Idle, At
    <2>6. Exact(<<>>, relay) /\ Applied(<<>>, relay) = relay /\ Stored(relay, <<>>)
      BY <2>5 DEF Exact, Applied, Stored
    <2> QED
      BY <1>2, <1>3, <2>3, <2>4, <2>5, <2>6 DEF Streaming, TestAt
  <1>6. CASE TestSends \/ TestNotified \/ TestChecks \/ TestReadsInput
    <2>1. /\ test.at # "open" /\ test.at # "write" /\ test'.at # "open"
          /\ test'.out = test.out /\ test'.got = test.got /\ entry' = entry
      BY <1>1, <1>6 DEF TestSends, TestNotified, TestChecks, TestReadsInput, TestGoto, TestAt,
                        TestState
    <2>2. Arrived' = Arrived
      BY <2>1 DEF Arrived
    <2> QED
      BY <1>2, <1>3, <2>1, <2>2 DEF Streaming, TestAt
  <1>7. CASE TestDrains
    <2>1. /\ test.at = "drain" /\ entry' = [entry EXCEPT !.buf = <<>>]
          /\ test' = [test EXCEPT !.at = "write", !.got = entry.buf]
      BY <1>7 DEF TestDrains, Drained, TestAt
    <2>2. /\ test.got = <<>>
          /\ entry'.buf = <<>> /\ entry'.ex = entry.ex
          /\ test'.got = entry.buf /\ test'.out = test.out /\ test'.at = "write"
      BY <1>1, <2>1 DEF Streaming, TestAt, EntryState, TestState
    <2>3. Arrived' = Arrived
      <3>1. /\ Arrived = (test.out \o <<>>) \o entry.buf
            /\ Arrived' = (test.out \o entry.buf) \o <<>>
        BY <2>2 DEF Arrived
      <3>2. test.out \o <<>> = test.out
        BY <1>4, ConcatEmptySeq
      <3>3. (test.out \o entry.buf) \o <<>> = test.out \o entry.buf
        <4>1. test.out \o entry.buf \in Seq(1..MaxMsg)
          BY <1>4, ConcatProperties
        <4> QED
          BY <4>1, ConcatEmptySeq
      <3> QED
        BY <3>1, <3>2, <3>3, Zenon
    <2> QED
      BY <1>2, <1>3, <2>2, <2>3 DEF Streaming, TestAt
  <1>8. CASE TestWrites
    <2>1. /\ test.at = "write" /\ entry' = entry
          /\ test'.got = <<>> /\ test'.out = test.out \o test.got /\ test'.at = "shutdown?"
      BY <1>1, <1>8 DEF TestWrites, TestAt, TestState
    <2>2. Arrived' = Arrived
      <3>1. Arrived' = ((test.out \o test.got) \o <<>>) \o entry.buf
        BY <2>1 DEF Arrived
      <3>2. (test.out \o test.got) \o <<>> = test.out \o test.got
        <4>1. test.out \o test.got \in Seq(1..MaxMsg)
          BY <1>4, ConcatProperties
        <4> QED
          BY <4>1, ConcatEmptySeq
      <3> QED
        BY <3>1, <3>2, Zenon DEF Arrived
    <2> QED
      BY <1>2, <1>3, <2>1, <2>2 DEF Streaming, TestAt
  <1> QED
    BY <1>5, <1>6, <1>7, <1>8 DEF Test

LEMMA StreamStep == Typed /\ Typed' /\ StreamInv /\ [Next]_vars => StreamInv'
  <1> SUFFICES ASSUME Typed, Typed', StreamInv, [Next]_vars, link' = "up", build' = "dev"
               PROVE  Streaming'
    BY DEF StreamInv
  <1>1. CASE UNCHANGED <<build, wires, loop, sending, dev>>
    BY <1>1 DEF wires, sending, dev, StreamInv, Streaming, Fresh, Coming, Unapplied, Arrived, TestAt
  <1>2. CASE Network
    <2>1. build' = build /\ link = "up"
      BY <1>2 DEF Network, RelayTakes, RelaySays, TunnelBreaks, UdpReads
    <2> QED
      BY <1>2, <2>1, StreamNetwork DEF StreamInv
  <1>3. CASE \E d \in Loops : Receive(d)
    <2>1. build' = build /\ link' = link
      BY <1>3 DEF Receive, TcpReads, LoopEnds, SendEvent, TryEvent, UpdateEntry, Notify, wires
    <2> QED
      BY <1>3, <2>1, StreamReceive DEF StreamInv
  <1>4. CASE Write
    <2>1. UNCHANGED <<build, wires, loop, dev>> /\ (tx > 0 \/ writer = "busy")
      BY <1>4 DEF Write, WriterTakes, WriterFails
    <2>2. Streaming /\ ~TestAt("open")
      BY <2>1 DEF StreamInv, Streaming, Fresh, wires
    <2>3. Coming' = Coming /\ UNCHANGED <<relay, entry, test>> /\ loop'["udp"] = loop["udp"]
      BY <2>1 DEF wires, dev, Coming, Unapplied
    <2> QED
      BY <2>2, <2>3, StreamSame
  <1>5. CASE Threads
    <2>1. build = "windows" /\ build' = build
      BY <1>5 DEF Threads, WriteThread, MainTakesPacket, MainTakesEvent, MainSends
    <2> QED
      BY <2>1
  <1>6. CASE Test
    <2>1. build' = build /\ link' = link
      BY <1>6 DEF Test, TestOpens, TestSends, TestNotified, TestChecks, TestDrains, TestWrites,
                  TestReadsInput, wires
    <2> QED
      BY <1>6, <2>1, StreamTest DEF StreamInv
  <1>7. CASE UNCHANGED vars
    BY <1>1, <1>7 DEF vars
  <1> QED
    BY <1>2, <1>3, <1>4, <1>5, <1>6, <1>7 DEF Next

LEMMA StreamInit == Init => StreamInv
  <1> SUFFICES ASSUME Init PROVE Streaming
    BY DEF StreamInv
  <1>1. Fresh /\ loop["udp"] = Idle /\ test.got = <<>> /\ ~entry.ex /\ relay.said = 0
    BY DEF Init, Fresh, Loops, NoEntry
  <1> QED
    BY <1>1 DEF Streaming

LEMMA StreamFollows == Typed /\ StreamInv => TestStream
  <1> SUFFICES ASSUME Typed, Streaming, entry.ex
               PROVE  /\ \A i \in 1..Len(Arrived) : Arrived[i] = i + 1
                      /\ \A i \in 1..Len(Coming) : Coming[i].kind = "data" =>
                           Coming[i].n = 1 + IF i > 1 /\ Coming[i - 1].kind = "data"
                                             THEN Coming[i - 1].n ELSE Len(Arrived) + 1
    BY DEF StreamInv, TestStream
  <1>1. Exact(Coming, relay) /\ Stored(Applied(Coming, relay), Arrived)
    BY DEF Streaming
  <1>2. Coming \in Seq(Message) /\ Len(Coming) \in Nat
    BY ComingType, LenProperties
  <1>3. \A i \in 1..Len(Coming) : Coming[i] \in Message
    BY <1>2, ElementOfSeq
  <1>4. Len(Arrived) \in Nat
    <2>1. test.out \o test.got \in Seq(1..MaxMsg)
      BY ConcatProperties DEF Typed, TestState
    <2>2. Arrived \in Seq(1..MaxMsg)
      BY <2>1, ConcatProperties DEF Typed, EntryState, Arrived
    <2> QED
      BY <2>2, LenProperties
  <1>5. ASSUME NEW i \in 1..Len(Coming), Coming[i].kind = "data"
        PROVE  Coming[i].n = 1 + IF i > 1 /\ Coming[i - 1].kind = "data"
                                 THEN Coming[i - 1].n ELSE Len(Arrived) + 1
    <2>1. Coming[i].n \in Nat /\ From(Coming[i]) = "up"
      BY <1>3, <1>5, MessageMeaning
    <2>2. CASE i = 1
      <3>1. Coming # <<>>
        BY <1>2, <2>2, EmptySeq
      <3>2. Stored([said |-> Coming[1].n - 1, st |-> From(Coming[1])], Arrived)
        BY <1>1, <3>1 DEF Applied
      <3>3. Coming[1].n - 1 = Len(Arrived) + 1
        BY <2>1, <2>2, <3>2 DEF Stored
      <3> QED
        BY <1>4, <2>1, <2>2, <3>3
    <2>3. CASE i > 1
      <3> DEFINE k == i - 1
      <3>1. k \in 1..(Len(Coming) - 1) /\ k \in 1..Len(Coming) /\ k + 1 = i
        BY <1>2, <2>3
      <3> HIDE DEF k
      <3>2. Coming[i].n = Coming[k].n + 1 /\ To(Coming[k]) = "up" /\ Coming[k] \in Message
        BY <1>1, <1>3, <2>1, <3>1 DEF Exact
      <3>3. CASE Coming[k].kind = "data"
        <4>1. Coming[k].n \in Nat
          BY <3>2, MessageMeaning
        <4> QED
          BY <2>3, <3>2, <3>3, <4>1 DEF k
      <3>4. CASE Coming[k].kind # "data"
        <4>1. Coming[k].kind = "connected" /\ From(Coming[k]) = "asked"
          BY <3>2, <3>4, MessageMeaning
        <4>2. Coming[k].n = 1
          BY <1>1, <3>1, <4>1 DEF Exact
        <4>3. k = 1
          <5> SUFFICES ASSUME k # 1 PROVE FALSE
            OBVIOUS
          <5>1. k - 1 \in 1..(Len(Coming) - 1) /\ k - 1 \in 1..Len(Coming) /\ (k - 1) + 1 = k
            BY <1>2, <3>1
          <5>2. To(Coming[k - 1]) = "asked" /\ Coming[k - 1] \in Message
            BY <1>1, <1>3, <4>1, <5>1 DEF Exact
          <5> QED
            BY <5>2, MessageMeaning
        <4>4. Arrived = <<>>
          <5>1. Coming # <<>>
            BY <1>2, <3>1, EmptySeq
          <5>2. Stored([said |-> Coming[1].n - 1, st |-> From(Coming[1])], Arrived)
            BY <1>1, <5>1 DEF Applied
          <5> QED
            BY <4>1, <4>3, <5>2 DEF Stored
        <4>5. Len(Arrived) = 0 /\ Coming[i].n = 2
          BY <3>2, <4>2, <4>4
        <4> QED
          BY <2>3, <3>4, <4>5 DEF k
      <3> QED
        BY <3>3, <3>4
    <2> QED
      BY <2>2, <2>3
  <1> QED
    BY <1>1, <1>5 DEF Stored

(* In the build without an adapter, while the tunnel is up and the entry   *)
(* is there, what the test connection has written, drained and still has   *)
(* in its buffer is exactly what its server sent first, in order, and what *)
(* is under way continues it: recv_loop's buffer and drain_rx lose,        *)
(* repeat and exchange nothing, whatever the lengths of the channels.      *)
THEOREM TestStreamIsExact == Spec => []TestStream
  <1>1. Init => Typed /\ StreamInv
    BY TypeInit, StreamInit
  <1>2. Typed /\ StreamInv /\ [Next]_vars => (Typed /\ StreamInv)'
    BY TypeStep, StreamStep
  <1> QED
    BY <1>1, <1>2, StreamFollows, PTL DEF Spec
=============================================================================
