------------------------------ MODULE NatTable ------------------------------
(***************************************************************************)
(* The user-space TCP endpoint of the proxy                                *)
(* (crates/aion2-proxy/src/tun_windows.rs), seen by one flow.              *)
(*                                                                         *)
(* The TUN adapter hands the proxy the segments the operating system sends *)
(* to a game server.  The proxy plays the server: it acknowledges, keeps a *)
(* NAT entry with the two next sequence numbers, forwards payloads through *)
(* the tunnel and turns what the relay reports into segments for the OS.   *)
(* One task handles segments, relay events and a cleanup timer, so a       *)
(* handler never interleaves with another one.                             *)
(*                                                                         *)
(* Environment: the client's TCP in the OS, which may segment, retransmit  *)
(* and probe as it likes; the adapter's two rings, which may lose packets  *)
(* when they are full; and the relay.  A segment is handled in the step    *)
(* that sends it: what the client receives in the meantime could as well   *)
(* have arrived before, since handlers ignore its acknowledgement number.  *)
(* Payload bytes are numbered 1, 2, ... in the order they were written.    *)
(***************************************************************************)
EXTENDS Naturals, Sequences

CONSTANTS
  Modulus,  \* sequence numbers are modulo this (2^32)
  Isns,     \* initial sequence numbers either side may choose
  Window,   \* bytes the client may have unacknowledged (65535)
  SynRetry, \* TRUE: the client may repeat its SYN
  MaxSyn,   \* bound: SYNs the client sends
  MaxUp,    \* bound: bytes the client writes
  MaxDown,  \* bound: bytes the server writes
  MaxSeg,   \* bound: bytes in a client segment or a relay payload
  MaxOut,   \* bound: the client waits while so many segments are queued
  Mss,      \* bytes per segment to the OS (1400)
  Late,     \* TRUE: the relay still reports on the port's last connection
  LossIn,   \* TRUE: segments from the OS may get lost
  LossOut   \* TRUE: segments to the OS may get lost

ASSUME ModulusAssumption ==
         /\ Modulus \in Nat \ {0} /\ Isns \subseteq 0..(Modulus - 1)
         /\ Mss \in Nat \ {0} /\ MaxSeg \in Nat \ {0}
         /\ Window \in Nat /\ Window < Modulus
ASSUME BoundAssumption ==
         MaxSyn \in Nat /\ MaxUp \in Nat /\ MaxDown \in Nat /\ MaxOut \in Nat
ASSUME FlagAssumption ==
         SynRetry \in BOOLEAN /\ Late \in BOOLEAN /\ LossIn \in BOOLEAN /\ LossOut \in BOOLEAN

VARIABLES
  nat,     \* the flow's entry in the NAT table
  tunOut,  \* segments on their way to the OS
  client,  \* the client's TCP
  syns,    \* SYNs sent so far
  server,  \* the relay's side of the flow, as events report it
  late,    \* the relay's side of the connection before, on the same port
  taken,   \* bytes taken from the client since the last SYN (history)
  fwd,     \* which of them were sent to the relay (history)
  ended    \* Shutdown or Reset was sent since the last SYN (history)

upstream == <<taken, fwd, ended>>
vars     == <<nat, tunOut, client, syns, server, late, upstream>>
-----------------------------------------------------------------------------

NoWrap(n) == n                  \* mutant: plain addition

Sq(n) == n % Modulus            \* wrapping_add

Bytes(a, b) == [i \in 1..(b + 1 - a) |-> a + i - 1]

(* st: SynReceived, Established, Closing; aged: Closing for 5 s or more. *)
NoEntry == [ex |-> FALSE, st |-> "syn", cnext |-> 0, onext |-> 0,
            conn |-> FALSE, pend |-> <<>>, aged |-> FALSE]

NewEntry(seq, isn) ==
  [NoEntry EXCEPT !.ex = TRUE, !.cnext = Sq(seq + 1), !.onext = Sq(isn + 1)]

Segment(kind, seq, ack, data) ==
  [kind |-> kind, seq |-> seq, ack |-> ack, data |-> data]

(* una: bytes the peer acknowledged; nxt: bytes sent; fin: FIN sent;       *)
(* rcv: next sequence number expected; got: bytes received; rfin: FIN      *)
(* received.                                                               *)
NoClient == [st |-> "closed", isn |-> 0, una |-> 0, nxt |-> 0, fin |-> FALSE,
             rcv |-> 0, got |-> <<>>, rfin |-> FALSE]
-----------------------------------------------------------------------------
Init ==
  /\ nat = NoEntry
  /\ tunOut = <<>>
  /\ client = NoClient
  /\ syns = 0
  /\ server = [st |-> "none", sent |-> 0]
  /\ late = [st |-> "over", sent |-> 0]
  /\ taken = 0
  /\ fwd = <<>>
  /\ ended = FALSE
-----------------------------------------------------------------------------
(* handle_tun_packet. *)

(* Every SYN replaces the entry, is answered at once with a sequence       *)
(* number of its own, and asks the relay for a connection.  Events carry   *)
(* no more than the 4-tuple, so those that report on the last connection   *)
(* are taken for the new one's.                                            *)
HandleSyn(seq) ==
  \E isn \in Isns :
    /\ nat' = NewEntry(seq, isn)
    /\ tunOut' = Append(tunOut, Segment("synack", isn, Sq(seq + 1), <<>>))
    /\ server' = [st |-> "asked", sent |-> 0]
    /\ late' = IF Late /\ server.st \in {"asked", "up"} THEN server ELSE late
    /\ taken' = 0
    /\ fwd' = <<>>
    /\ ended' = FALSE

HandleRst ==
  /\ ended' = (ended \/ nat.ex)
  /\ nat' = NoEntry
  /\ UNCHANGED <<tunOut, server, late, taken, fwd>>

AnyOrder(e, seq) == TRUE        \* mutant: retransmissions are forwarded

(* Payload is taken when it starts where the entry expects it. *)
InOrder(e, seq) == seq = e.cnext

StaysAfterFin(e) == [e EXCEPT !.cnext = Sq(@ + 1)]  \* mutant: do_remove unset

(* A FIN takes the entry out of the table. *)
AfterFin(e) == NoEntry

(* A segment with ACK, maybe with payload, maybe with FIN.                 *)
HandleSegment(seq, data, fin) ==
  LET closing == nat.st = "closing"
      take    == data # <<>> /\ InOrder(nat, seq)
      toRelay == take /\ ~closing /\ nat.conn
      e1 == [nat EXCEPT !.st = IF @ = "syn" THEN "est" ELSE @,
                        !.cnext = IF take THEN Sq(seq + Len(data)) ELSE @,
                        !.pend = IF take /\ ~closing /\ ~nat.conn
                                 THEN @ \o data ELSE @]
      ack1 == IF data # <<>> \/ (~fin /\ seq # nat.cnext)
              THEN <<Segment("ack", e1.onext, e1.cnext, <<>>)>>
              ELSE <<>>
      ack2 == IF fin
              THEN <<Segment(IF closing THEN "ack" ELSE "fin",
                             e1.onext, Sq(e1.cnext + 1), <<>>)>>
              ELSE <<>>
  IN  \/ /\ nat.ex
         /\ nat' = IF fin THEN AfterFin(e1) ELSE e1
         /\ tunOut' = tunOut \o ack1 \o ack2
         /\ taken' = IF take THEN taken + Len(data) ELSE taken
         /\ fwd' = IF toRelay THEN fwd \o data ELSE fwd
         /\ ended' = (ended \/ (fin /\ ~closing))
         /\ UNCHANGED <<server, late>>
      \/ /\ ~nat.ex
         /\ UNCHANGED <<nat, tunOut, server, late, upstream>>
-----------------------------------------------------------------------------
(* What the client's TCP may send. *)
Lost == LossIn /\ UNCHANGED <<nat, tunOut, server, late, upstream>>

MaySend == Len(tunOut) < MaxOut

(* A new connection, on the same port whether or not an old entry is left. *)
(* Its number is not one that an answer still under way acknowledges.      *)
ClientSyn ==
  /\ client.st = "closed" /\ syns < MaxSyn /\ MaySend
  /\ syns' = syns + 1
  /\ \E isn \in Isns :
       /\ \A i \in 1..Len(tunOut) :
            tunOut[i].kind = "synack" => tunOut[i].ack # Sq(isn + 1)
       /\ client' = [NoClient EXCEPT !.st = "syn", !.isn = isn]
       /\ HandleSyn(isn)

ClientSynAgain ==
  /\ SynRetry /\ client.st = "syn" /\ syns < MaxSyn /\ MaySend
  /\ syns' = syns + 1
  /\ HandleSyn(client.isn)
  /\ UNCHANGED client

(* Bytes from any position not acknowledged yet: new, again, or both, as   *)
(* far as the window reaches that every segment to the client advertises.  *)
ClientData ==
  /\ client.st = "est" /\ MaySend
  /\ \E a \in (client.una + 1)..(client.nxt + 1), b \in 1..MaxUp :
       /\ a <= b /\ b < a + MaxSeg /\ b <= client.una + Window
       /\ client.fin => b <= client.nxt
       /\ client' = [client EXCEPT !.nxt = IF b > @ THEN b ELSE @]
       /\ HandleSegment(Sq(client.isn + a), Bytes(a, b), FALSE) \/ Lost
  /\ UNCHANGED syns

(* FIN, alone or on the last bytes, once or again. *)
ClientFin ==
  /\ client.st = "est" /\ MaySend
  /\ \E a \in (client.una + 1)..(client.nxt + 1) :
       /\ client.nxt < a + MaxSeg
       /\ HandleSegment(Sq(client.isn + a), Bytes(a, client.nxt), TRUE) \/ Lost
  /\ client' = [client EXCEPT !.fin = TRUE]
  /\ UNCHANGED syns

(* An acknowledgement, the handshake's among them, or a keepalive probe.   *)
ClientAck ==
  /\ client.st = "est" /\ MaySend
  /\ \E n \in {client.una, client.nxt + IF client.fin THEN 2 ELSE 1} :
       HandleSegment(Sq(client.isn + n), <<>>, FALSE) \/ Lost
  /\ UNCHANGED <<client, syns>>

(* The application aborts, or the OS answers a stray segment. *)
ClientRst ==
  /\ syns > 0
  /\ client' = [client EXCEPT !.st = "closed"]
  /\ HandleRst \/ Lost
  /\ UNCHANGED syns

(* Both directions are closed: the port may be used again. *)
ClientCloses ==
  /\ client.st = "est" /\ client.fin /\ client.rfin
  /\ client' = [client EXCEPT !.st = "closed"]
  /\ UNCHANGED <<nat, tunOut, syns, server, late, upstream>>

(* The client takes what is in order and ignores the rest.  Acknowledging  *)
(* its FIN acknowledges all its data.                                      *)
Acked(ack) ==
  LET n == client.una + Sq(ack + Modulus - Sq(client.isn + 1 + client.una))
  IN  CASE n <= client.nxt                  -> n
        [] client.fin /\ n = client.nxt + 1 -> client.nxt
        [] OTHER                            -> client.una

(* A RST counts if it is exactly in sequence. *)
Aborts(p) ==
  \/ client.st = "syn" /\ p.ack = Sq(client.isn + 1)
  \/ client.st = "est" /\ p.seq = client.rcv

ClientReceives ==
  /\ tunOut # <<>>
  /\ tunOut' = Tail(tunOut)
  /\ LET p   == Head(tunOut)
         old == (client.rcv + Modulus - p.seq) % Modulus  \* bytes it has already
         new == IF old < Len(p.data) THEN SubSeq(p.data, old + 1, Len(p.data))
                                     ELSE <<>>
         end == p.kind = "fin" /\ old = 0
     IN  client' =
          CASE p.kind = "synack" /\ client.st = "syn" /\ p.ack = Sq(client.isn + 1) ->
                 [client EXCEPT !.st = "est", !.rcv = Sq(p.seq + 1)]
            [] p.kind = "rst" /\ Aborts(p) ->
                 [client EXCEPT !.st = "closed"]
            [] p.kind \in {"data", "ack", "fin"} /\ client.st = "est" ->
                 [client EXCEPT
                    !.una = Acked(p.ack),
                    !.got = @ \o new,
                    !.rfin = @ \/ end,
                    !.rcv = Sq(@ + Len(new) + IF end THEN 1 ELSE 0)]
            [] OTHER -> client
  /\ UNCHANGED <<nat, syns, server, late, upstream>>

(* allocate_send_packet fails: the write thread drops the segment. *)
SegmentDropped ==
  /\ LossOut /\ tunOut # <<>>
  /\ tunOut' = Tail(tunOut)
  /\ UNCHANGED <<nat, client, syns, server, late, upstream>>
-----------------------------------------------------------------------------
(* handle_relay_event.  An event for a flow without an entry is ignored. *)

OnConnected ==
  /\ nat' = IF nat.ex THEN [nat EXCEPT !.conn = TRUE, !.pend = <<>>] ELSE nat
  /\ fwd' = IF nat.ex THEN fwd \o nat.pend ELSE fwd
  /\ UNCHANGED <<tunOut, client, syns, taken, ended>>

(* ConnectFailed and Reset: the entry goes, the client gets a RST. *)
OnReset ==
  /\ nat' = NoEntry
  /\ tunOut' = IF nat.ex
               THEN Append(tunOut, Segment("rst", nat.onext, nat.cnext, <<>>))
               ELSE tunOut
  /\ UNCHANGED <<client, syns, upstream>>

OnePerPayload(seq, n) == Sq(seq + 1)  \* mutant: payloads are counted, not bytes

(* A payload goes out in chunks, each with the sequence number after the   *)
(* one before.                                                             *)
Advance(seq, n) == Sq(seq + n)

Chunks(e, data) ==
  [i \in 1..((Len(data) - 1) \div Mss + 1) |->
     LET x == (i - 1) * Mss
     IN  Segment("data", Sq(e.onext + x), e.cnext,
                 SubSeq(data, x + 1, IF x + Mss > Len(data) THEN Len(data)
                                                            ELSE x + Mss))]

OnData(data) ==
  /\ \/ /\ nat.ex
        /\ tunOut' = tunOut \o Chunks(nat, data)
        /\ nat' = [nat EXCEPT !.onext = Advance(@, Len(data))]
     \/ /\ ~nat.ex
        /\ UNCHANGED <<tunOut, nat>>
  /\ UNCHANGED <<client, syns, upstream>>

OnShutdown ==
  /\ \/ /\ nat.ex
        /\ tunOut' = Append(tunOut, Segment("fin", nat.onext, nat.cnext, <<>>))
        /\ nat' = [nat EXCEPT !.onext = Sq(@ + 1), !.st = "closing"]
     \/ /\ ~nat.ex
        /\ UNCHANGED <<tunOut, nat>>
  /\ UNCHANGED <<client, syns, upstream>>

(* The relay reports on the flow's connection. *)
ServerIs(from, to) ==
  /\ server.st = from
  /\ server' = [server EXCEPT !.st = to]
  /\ UNCHANGED late

Connected      == ServerIs("asked", "up") /\ OnConnected
ConnectFailed  == ServerIs("asked", "over") /\ OnReset
ServerResets   == ServerIs("up", "over") /\ OnReset
ServerShutdown == ServerIs("up", "over") /\ OnShutdown

ServerData ==
  /\ server.st = "up"
  /\ \E n \in 1..MaxSeg :
       /\ server.sent + n <= MaxDown
       /\ server' = [server EXCEPT !.sent = @ + n]
       /\ OnData(Bytes(server.sent + 1, server.sent + n))
  /\ UNCHANGED late

(* Its reports on the connection before, whose bytes are 0. *)
LateIs(from, to) ==
  /\ late.st = from
  /\ late' = [late EXCEPT !.st = to]
  /\ UNCHANGED server

LateConnected == LateIs("asked", "up") /\ OnConnected
LateFailed    == LateIs("asked", "over") /\ OnReset
LateReset     == LateIs("up", "over") /\ OnReset
LateShutdown  == LateIs("up", "over") /\ OnShutdown

LateData ==
  /\ late.st = "up" /\ late.sent < MaxDown
  /\ late' = [late EXCEPT !.sent = @ + 1]
  /\ OnData(<<0>>)
  /\ UNCHANGED server
-----------------------------------------------------------------------------
(* The 5 s cleanup timer. *)
TimePasses ==
  /\ nat.ex /\ nat.st = "closing" /\ ~nat.aged
  /\ nat' = [nat EXCEPT !.aged = TRUE]
  /\ UNCHANGED <<tunOut, client, syns, server, late, upstream>>

NeverStale(e) == FALSE          \* mutant: retain keeps everything

Stale(e) == e.st = "closing" /\ e.aged

Cleanup ==
  /\ nat.ex /\ Stale(nat)
  /\ nat' = NoEntry
  /\ UNCHANGED <<tunOut, client, syns, server, late, upstream>>
-----------------------------------------------------------------------------
Client == ClientSyn \/ ClientSynAgain \/ ClientData \/ ClientFin \/ ClientAck
            \/ ClientRst \/ ClientCloses
Relay == Connected \/ ConnectFailed \/ ServerResets \/ ServerData
            \/ ServerShutdown

LateRelay == LateConnected \/ LateFailed \/ LateReset \/ LateShutdown \/ LateData

Next == Client \/ ClientReceives \/ SegmentDropped \/ Relay \/ LateRelay
          \/ TimePasses \/ Cleanup

Spec == Init /\ [][Next]_vars

(* The write thread and the timer never stop, and the relay answers.       *)
Fairness ==
  /\ WF_vars(ClientReceives) /\ WF_vars(TimePasses) /\ WF_vars(Cleanup)
  /\ WF_vars(Connected \/ ConnectFailed)

FairSpec == Spec /\ Fairness
-----------------------------------------------------------------------------
TypeOK ==
  /\ nat \in [ex : BOOLEAN, st : {"syn", "est", "closing"},
              cnext : 0..(Modulus - 1), onext : 0..(Modulus - 1),
              conn : BOOLEAN, pend : Seq(1..MaxUp), aged : BOOLEAN]
  /\ tunOut \in Seq([kind : {"synack", "ack", "data", "fin", "rst"},
                     seq : 0..(Modulus - 1), ack : 0..(Modulus - 1),
                     data : Seq(0..MaxDown)])
  /\ client \in [st : {"closed", "syn", "est"}, isn : 0..(Modulus - 1),
                 una : 0..MaxUp, nxt : 0..MaxUp, fin : BOOLEAN,
                 rcv : 0..(Modulus - 1), got : Seq(0..MaxDown), rfin : BOOLEAN]
  /\ syns \in 0..MaxSyn
  /\ server \in [st : {"none", "asked", "up", "over"}, sent : 0..MaxDown]
  /\ late \in [st : {"asked", "up", "over"}, sent : 0..MaxDown]
  /\ taken \in 0..MaxUp
  /\ fwd \in Seq(1..MaxUp)
  /\ ended \in BOOLEAN

(* What the relay is given is what the client wrote, without a hole, a     *)
(* repetition or a swap, however the client segments and repeats it and    *)
(* whenever the relay answers.  Until the server closes, every byte taken, *)
(* and so acknowledged, is forwarded or waits for Connected, and the next  *)
(* expected sequence number agrees with their count.                       *)
UpstreamExact ==
  LET got == fwd \o nat.pend
  IN  /\ got = Bytes(1, Len(got))
      /\ (nat.ex /\ nat.st # "closing") =>
           /\ Len(got) = taken
           /\ nat.cnext = Sq(client.isn + 1 + taken) \/ client.st = "closed"

(* Until it closes, the client is never told that a byte arrived that the  *)
(* proxy did not take: such a byte would not be sent again.                *)
AckedWasTaken == (client.st = "est" /\ ~client.fin) => client.una <= taken

(* The two applications see the flow the contract describes: what the relay *)
(* is given is what the client wrote, completely while the server is up;   *)
(* what the client reads is what the server said, and its end comes last.  *)
F == INSTANCE Flow WITH
       stage <- server.st, wrote <- Bytes(1, taken), reached <- fwd,
       hung <- ended, said <- Bytes(1, server.sent), heard <- client.got,
       eof <- client.rfin

KeepsContract == F!Spec

(* When nothing is on its way to the client, both ends agree on the next   *)
(* sequence number (tun_windows.rs:48, our_next_seq: "Our next sequence    *)
(* number when sending to client"): one disagreement and the client        *)
(* discards everything the server says from then on.                       *)
InStep ==
  (client.st = "est" /\ nat.ex /\ tunOut = <<>>) => client.rcv = nat.onext

(* An entry of which the server has closed its side goes, whether or not   *)
(* the client closes.                                                      *)
Closing == nat.ex /\ nat.st = "closing"

ClosingIsRemoved == Closing ~> ~Closing
=============================================================================
