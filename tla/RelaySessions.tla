---------------------------- MODULE RelaySessions ----------------------------
(***************************************************************************)
(* How a session reaches the relay and how the relay reaches it back       *)
(* (crates/aion2-relay/src/relay.rs).                                      *)
(*                                                                         *)
(* A proxy draws a session id, opens one TCP tunnel and sends a ping by    *)
(* UDP every few seconds.  Either packet registers the session in the      *)
(* table "clients"; the tunnel's handler also puts the channel of its      *)
(* write task there.  Whoever has a message for the session copies address *)
(* and channel under the table's lock and sends after releasing it, so the *)
(* copy may be stale by then.  Keys are replaced as a whole on SIGHUP.     *)
(*                                                                         *)
(* One task per session stands for all its connection tasks as senders;    *)
(* the connections themselves are the subject of RelayConns.               *)
(***************************************************************************)
EXTENDS Naturals, Sequences

CONSTANTS
  Session,  \* session ids; a proxy opens one tunnel for the id it drew
  Key,      \* tunnel keys
  IdOf,     \* the 32-bit id that is computed from a key
  KeyOf,    \* the key a session's proxy was given
  KeyDirs,  \* what the key directory may hold when it is read
  NoOne,    \* the UDP loop is not serving anyone
  TxCap,    \* capacity of the channel to the tunnel's write task (8192)
  MaxPing   \* bound: pings a proxy sends

ASSUME KeyAssumption ==
         /\ IdOf = [k \in Key |-> IdOf[k]]
         /\ KeyOf \in [Session -> Key]
         /\ KeyDirs \subseteq (SUBSET Key)
         /\ \E ks \in KeyDirs : ks # {}
ASSUME NoOneAssumption == NoOne \notin Session
ASSUME CapAssumption == TxCap \in Nat \ {0} /\ MaxPing \in Nat

VARIABLES
  keys,     \* the keys in the relay's map, in which an id has one key
  ever,     \* the keys that were ever in it (history)
  clients,  \* the session table
  link,     \* link[s]: the TCP connection of the tunnel
  handler,  \* handler[s]: where handle_tcp_tunnel is
  writer,   \* writer[s]: where the tunnel's write task is
  txq,      \* txq[s]: kinds of the messages in the channel to the writer
  active,   \* active[s]: some connection task may send to the session
  sender,   \* sender[s]: that task's copy of the client state, if sending
  udp,      \* the UDP loop: step, session served, need_update, copy
  pings,    \* pings[s]: pings sent so far
  inUp,     \* sessions with a ping datagram under way to the relay
  inDown    \* datagrams under way to proxies, <<session, kind>>

keyVars == <<keys, ever>>
tunnel  == <<link, handler, writer, txq>>
sending == <<active, sender>>
network == <<pings, inUp, inDown>>
vars    == <<keyVars, clients, tunnel, sending, udp, network>>
-----------------------------------------------------------------------------
Kind == {"pong", "data"}
Addr == {"none", "udp", "tcp"}   \* no address, the UDP socket's, the TCP peer's

Unknown == [known |-> FALSE, addr |-> "none", tcp |-> FALSE]
NoCopy  == [sending |-> FALSE, addr |-> "none", tcp |-> FALSE]

(* What send_to_client copies under the read lock: nothing for a session   *)
(* that is not in the table, which ends the sending.                       *)
Copy(s) == [sending |-> clients[s].known, addr |-> clients[s].addr,
            tcp |-> clients[s].tcp]

(* Of several keys with the same id the map keeps the one inserted last.   *)
Maps(ks) == {m \in SUBSET ks : \A k \in ks : \E x \in m : {y \in m : IdOf[y] = IdOf[k]} = {x}}

(* A packet of session s starts with the id of the key it was sealed with. *)
PeekKeyId(s) == IdOf[KeyOf[s]]

(* crypto::open: another key fails to authenticate it. *)
Opens(k, s) == k = KeyOf[s]

(* mutant: what the lookup by id yields is not tried on the packet *)
IdKnown(s) == \E k \in keys : IdOf[k] = PeekKeyId(s)

(* The lookup by id yields a key, and it opens the packet.                 *)
KeyKnown(s) == \E k \in keys : IdOf[k] = PeekKeyId(s) /\ Opens(k, s)

(* The receiver is dropped with the write task. *)
HasReceiver(s) == writer[s] \in {"run", "failed"}

AnyTxRoom(s) == TRUE            \* mutant: an unbounded channel

TxRoom(s) == Len(txq[s]) < TxCap

(* The rest of send_to_client, with the copy taken before: try_send on the *)
(* channel, which drops when it is full or closed, else a datagram.  A     *)
(* datagram for the TCP peer's address reaches nobody.                     *)
Send(s, copy, kind) ==
  \/ /\ copy.tcp /\ HasReceiver(s) /\ TxRoom(s)
     /\ txq' = [txq EXCEPT ![s] = Append(@, kind)]
     /\ UNCHANGED inDown
  \/ /\ copy.tcp /\ ~(HasReceiver(s) /\ TxRoom(s))
     /\ UNCHANGED <<txq, inDown>>
  \/ /\ ~copy.tcp /\ copy.addr = "udp"
     /\ inDown' = inDown \union {<<s, kind>>}
     /\ UNCHANGED txq
  \/ /\ ~copy.tcp /\ copy.addr # "udp"
     /\ UNCHANGED <<txq, inDown>>
-----------------------------------------------------------------------------
Idle == [pc |-> "recv", sess |-> NoOne, need |-> FALSE, copy |-> NoCopy]

Init ==
  /\ \E ks \in KeyDirs \ {{}} : keys \in Maps(ks)
  /\ ever = keys
  /\ clients = [s \in Session |-> Unknown]
  /\ link = [s \in Session |-> "none"]
  /\ handler = [s \in Session |-> "none"]
  /\ writer = [s \in Session |-> "none"]
  /\ txq = [s \in Session |-> <<>>]
  /\ active = [s \in Session |-> FALSE]
  /\ sender = [s \in Session |-> NoCopy]
  /\ udp = Idle
  /\ pings = [s \in Session |-> 0]
  /\ inUp = {} /\ inDown = {}
-----------------------------------------------------------------------------
(* SIGHUP: the directory replaces the key map; an empty one is an error. *)
ReloadKeys ==
  /\ \E ks \in KeyDirs \ {{}} : keys' \in Maps(ks)
  /\ ever' = ever \union keys'
  /\ UNCHANGED <<clients, tunnel, sending, udp, network>>
-----------------------------------------------------------------------------
(* The UDP loop, one datagram at a time. *)

(* Key lookup, then need_update under the read lock. *)
UdpRecv(s) ==
  /\ udp.pc = "recv" /\ s \in inUp
  /\ inUp' \in {inUp, inUp \ {s}}          \* a datagram may be duplicated
  /\ udp' = IF KeyKnown(s)
            THEN [Idle EXCEPT !.pc = "update", !.sess = s,
                              !.need = clients[s].addr # "udp"]
            ELSE Idle
  /\ UNCHANGED <<keyVars, clients, tunnel, sending, pings, inDown>>

(* Under the write lock, if an update was found necessary before. *)
UdpUpdate ==
  /\ udp.pc = "update"
  /\ clients' = IF udp.need
                THEN [clients EXCEPT ![udp.sess].known = TRUE,
                                     ![udp.sess].addr = "udp"]
                ELSE clients
  /\ udp' = [udp EXCEPT !.pc = "copy"]
  /\ UNCHANGED <<keyVars, tunnel, sending, network>>

(* handle_message answers a ping: copy, then send. *)
UdpCopy ==
  /\ udp.pc = "copy"
  /\ udp' = [udp EXCEPT !.pc = "send", !.copy = Copy(udp.sess)]
  /\ UNCHANGED <<keyVars, clients, tunnel, sending, network>>

UdpSend ==
  /\ udp.pc = "send"
  /\ Send(udp.sess, udp.copy, "pong")
  /\ udp' = Idle
  /\ UNCHANGED <<keyVars, clients, link, handler, writer, sending, pings, inUp>>
-----------------------------------------------------------------------------
(* handle_tcp_tunnel, for the one tunnel a session opens. *)

(* The first frame names key id and session; an unknown key, or one that   *)
(* does not open the frame, ends the handler.                              *)
Authenticate(s) ==
  /\ handler[s] = "first" /\ link[s] = "up"
  /\ handler' = [handler EXCEPT ![s] = IF KeyKnown(s) THEN "known"
                                                    ELSE "refused"]
  /\ link' = [link EXCEPT ![s] = IF KeyKnown(s) THEN "up" ELSE "closed"]
  /\ UNCHANGED <<keyVars, clients, writer, txq, sending, udp, network>>

(* The peer is gone before its first frame was complete. *)
FirstFrameFails(s) ==
  /\ handler[s] = "first" /\ link[s] = "closed"
  /\ handler' = [handler EXCEPT ![s] = "refused"]
  /\ UNCHANGED <<keyVars, clients, link, writer, txq, sending, udp, network>>

(* Register channel and peer address under the write lock, start the write *)
(* task, and handle the first message.                                     *)
RegisterTunnel(s) ==
  /\ handler[s] = "known"
  /\ clients' = [clients EXCEPT ![s] = [known |-> TRUE, addr |-> "tcp",
                                        tcp |-> TRUE]]
  /\ handler' = [handler EXCEPT ![s] = "read"]
  /\ writer' = [writer EXCEPT ![s] = "run"]
  /\ active' = [active EXCEPT ![s] = TRUE]
  /\ UNCHANGED <<keyVars, link, txq, sender, udp, network>>

(* A frame in the read loop, a Connect say; one that the key in the map    *)
(* does not open, as after a reload, is skipped and the tunnel stays.      *)
ReadFrame(s) ==
  /\ handler[s] = "read" /\ link[s] = "up"
  /\ active' = [active EXCEPT ![s] = @ \/ KeyKnown(s)]
  /\ UNCHANGED <<keyVars, clients, tunnel, sender, udp, network>>

ReadLoopEnds(s) ==
  /\ handler[s] = "read" /\ link[s] = "closed"
  /\ handler' = [handler EXCEPT ![s] = "ended"]
  /\ UNCHANGED <<keyVars, clients, link, writer, txq, sending, udp, network>>

LeavesChannel(s) == clients     \* mutant: relies on the write task's cleanup

(* The handler takes the channel out of the table, the session stays. *)
WithoutChannel(s) == [clients EXCEPT ![s].tcp = FALSE]

HandlerCleanup(s) ==
  /\ handler[s] = "ended"
  /\ clients' = WithoutChannel(s)
  /\ handler' = [handler EXCEPT ![s] = "cleared"]
  /\ UNCHANGED <<keyVars, link, writer, txq, sending, udp, network>>

(* Aborting the write task drops the receiver with all that is queued. *)
HandlerAborts(s) ==
  /\ handler[s] = "cleared"
  /\ handler' = [handler EXCEPT ![s] = "done"]
  /\ writer' = [writer EXCEPT ![s] = "done"]
  /\ txq' = [txq EXCEPT ![s] = <<>>]
  /\ UNCHANGED <<keyVars, clients, link, sending, udp, network>>
-----------------------------------------------------------------------------
(* The tunnel's write task. *)
WriteFrame(s) ==
  /\ writer[s] = "run" /\ txq[s] # <<>> /\ link[s] = "up"
  /\ txq' = [txq EXCEPT ![s] = Tail(@)]
  /\ UNCHANGED <<keyVars, clients, link, handler, writer, sending, udp, network>>

WriteFails(s) ==
  /\ writer[s] = "run" /\ txq[s] # <<>> /\ link[s] = "closed"
  /\ txq' = [txq EXCEPT ![s] = Tail(@)]
  /\ writer' = [writer EXCEPT ![s] = "failed"]
  /\ UNCHANGED <<keyVars, clients, link, handler, sending, udp, network>>

(* Until this step the receiver exists and accepts what nobody will send. *)
WriterCleanup(s) ==
  /\ writer[s] = "failed"
  /\ clients' = WithoutChannel(s)
  /\ writer' = [writer EXCEPT ![s] = "done"]
  /\ txq' = [txq EXCEPT ![s] = <<>>]
  /\ UNCHANGED <<keyVars, link, handler, sending, udp, network>>
-----------------------------------------------------------------------------
(* A connection task sends what it has read from the game server. *)
SenderCopies(s) ==
  /\ active[s] /\ ~sender[s].sending
  /\ sender' = [sender EXCEPT ![s] = Copy(s)]
  /\ UNCHANGED <<keyVars, clients, tunnel, active, udp, network>>

SenderSends(s) ==
  /\ sender[s].sending
  /\ Send(s, sender[s], "data")
  /\ sender' = [sender EXCEPT ![s] = NoCopy]
  /\ UNCHANGED <<keyVars, clients, link, handler, writer, active, udp, pings, inUp>>

(* The server closes the last connection. *)
SenderEnds(s) ==
  /\ active[s] /\ ~sender[s].sending
  /\ active' = [active EXCEPT ![s] = FALSE]
  /\ UNCHANGED <<keyVars, clients, tunnel, sender, udp, network>>
-----------------------------------------------------------------------------
(* The environment: proxies and the network. *)
OpenTunnel(s) ==
  /\ link[s] = "none"
  /\ link' = [link EXCEPT ![s] = "up"]
  /\ handler' = [handler EXCEPT ![s] = "first"]
  /\ UNCHANGED <<keyVars, clients, writer, txq, sending, udp, network>>

(* The proxy exits or the connection is reset, and both ends learn of it. *)
TunnelCloses(s) ==
  /\ link[s] = "up"
  /\ link' = [link EXCEPT ![s] = "closed"]
  /\ UNCHANGED <<keyVars, clients, handler, writer, txq, sending, udp, network>>

(* The ping loop starts once the tunnel is connected, and outlives it. *)
Ping(s) ==
  /\ link[s] # "none" /\ pings[s] < MaxPing
  /\ pings' = [pings EXCEPT ![s] = @ + 1]
  /\ inUp' = inUp \union {s}
  /\ UNCHANGED <<keyVars, clients, tunnel, sending, udp, inDown>>

(* A datagram arrives at a proxy, or is lost. *)
DatagramGone ==
  \/ /\ \E d \in inDown : inDown' = inDown \ {d}
     /\ UNCHANGED <<keyVars, clients, tunnel, sending, udp, pings, inUp>>
  \/ /\ \E s \in inUp : inUp' = inUp \ {s}
     /\ UNCHANGED <<keyVars, clients, tunnel, sending, udp, pings, inDown>>
-----------------------------------------------------------------------------
Handler(s) ==
  \/ Authenticate(s) \/ FirstFrameFails(s) \/ RegisterTunnel(s)
  \/ ReadFrame(s) \/ ReadLoopEnds(s) \/ HandlerCleanup(s) \/ HandlerAborts(s)

Writer(s) == WriteFrame(s) \/ WriteFails(s) \/ WriterCleanup(s)

UdpStep == UdpUpdate \/ UdpCopy \/ UdpSend

Next ==
  \/ ReloadKeys \/ UdpStep \/ DatagramGone
  \/ \E s \in Session :
       \/ UdpRecv(s) \/ Handler(s) \/ Writer(s)
       \/ SenderCopies(s) \/ SenderSends(s) \/ SenderEnds(s)
       \/ OpenTunnel(s) \/ TunnelCloses(s) \/ Ping(s)

Spec == Init /\ [][Next]_vars

(* The runtime polls what is ready. *)
Fairness ==
  /\ WF_vars(UdpStep)
  /\ \A s \in Session : WF_vars(Handler(s)) /\ WF_vars(Writer(s))

FairSpec == Spec /\ Fairness
-----------------------------------------------------------------------------
(* Types, and the channel keeps to the capacity it was created with.       *)
TypeOK ==
  /\ keys \in SUBSET Key /\ ever \in SUBSET Key
  /\ clients \in [Session -> [known : BOOLEAN, addr : Addr, tcp : BOOLEAN]]
  /\ link \in [Session -> {"none", "up", "closed"}]
  /\ handler \in [Session -> {"none", "first", "refused", "known", "read",
                              "ended", "cleared", "done"}]
  /\ writer \in [Session -> {"none", "run", "failed", "done"}]
  /\ txq \in [Session -> Seq(Kind)]
  /\ \A s \in Session : Len(txq[s]) <= TxCap
  /\ active \in [Session -> BOOLEAN]
  /\ sender \in [Session -> [sending : BOOLEAN, addr : Addr, tcp : BOOLEAN]]
  /\ udp \in [pc : {"recv", "update", "copy", "send"},
              sess : Session \union {NoOne}, need : BOOLEAN,
              copy : [sending : BOOLEAN, addr : Addr, tcp : BOOLEAN]]
  /\ udp.pc # "recv" => udp.sess \in Session
  /\ pings \in [Session -> 0..MaxPing]
  /\ inUp \in SUBSET Session
  /\ inDown \in SUBSET (Session \X Kind)

(* A channel found in the table leads somewhere: its write task is not     *)
(* gone.  The write task may be aborted before its own cleanup, or fail    *)
(* while the handler still reads, and in no order does an entry keep a     *)
(* dead channel, which would cut the session off from the UDP fallback.    *)
ChannelHasWriter ==
  \A s \in Session : clients[s].tcp => writer[s] \in {"run", "failed"}

(* Only a session whose key the relay has loaded gets into the table, by   *)
(* either transport, or has a connection opened for it, also when another  *)
(* key has the same id.                                                    *)
OnlyKnownKeys ==
  \A s \in Session : clients[s].known \/ active[s] => KeyOf[s] \in ever

(* While the relay has another set of keys loaded, the proxy of a key that *)
(* is not among them gains nothing: neither transport takes it in, it gets *)
(* into the table, and has a connection opened, only by what was           *)
(* authenticated before the reload and is still being handled.             *)
Served(s)  == udp.pc # "recv" /\ udp.sess = s
Trusted(s) == handler[s] \in {"known", "read", "ended", "cleared", "done"}

RevokedStaysOut ==
  [][\A s \in Session : KeyOf[s] \notin keys =>
       /\ (Served(s)' => Served(s)) /\ (Trusted(s)' => Trusted(s))
       /\ clients'[s].known => \/ clients[s].known
                              \/ Served(s) \/ handler[s] = "known"
       /\ active'[s] => active[s] \/ handler[s] = "known"]_vars

(* When the tunnel's connection is closed its channel leaves the table and *)
(* both its tasks end.                                                     *)
TunnelTornDown ==
  \A s \in Session : (link[s] = "closed" /\ handler[s] # "none")
                        ~> (~clients[s].tcp /\ writer[s] \in {"none", "done"})
=============================================================================
