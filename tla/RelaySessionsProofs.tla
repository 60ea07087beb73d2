------------------------- MODULE RelaySessionsProofs -------------------------
(***************************************************************************)
(* Proofs about the relay's sessions, for any sessions, keys and capacity. *)
(***************************************************************************)
EXTENDS RelaySessions, SequenceTheorems, TLAPS

Client   == [known : BOOLEAN, addr : Addr, tcp : BOOLEAN]
CopyType == [sending : BOOLEAN, addr : Addr, tcp : BOOLEAN]

(* Send keeps types and capacity, whatever copy it is given. *)
LEMMA SendType ==
  ASSUME TypeOK, NEW s \in Session, NEW c \in CopyType, NEW kind \in Kind,
         Send(s, c, kind)
  PROVE  /\ txq' \in [Session -> Seq(Kind)]
         /\ \A r \in Session : Len(txq'[r]) <= TxCap
         /\ inDown' \in SUBSET (Session \X Kind)
<1>1. CASE UNCHANGED <<txq, inDown>>
  BY <1>1 DEF TypeOK
<1>2. CASE TxRoom(s) /\ txq' = [txq EXCEPT ![s] = Append(@, kind)] /\ UNCHANGED inDown
  <2>1. txq[s] \in Seq(Kind) /\ Len(txq[s]) < TxCap
    BY <1>2 DEF TypeOK, TxRoom
  <2>2. Append(txq[s], kind) \in Seq(Kind) /\ Len(Append(txq[s], kind)) <= TxCap
    BY <2>1, CapAssumption
  <2>3. txq \in [Session -> Seq(Kind)] /\ \A r \in Session : Len(txq[r]) <= TxCap
    BY DEF TypeOK
  <2> QED BY <1>2, <2>2, <2>3 DEF TypeOK
<1>3. CASE inDown' = inDown \union {<<s, kind>>} /\ UNCHANGED txq
  BY <1>3 DEF TypeOK
<1> QED BY <1>1, <1>2, <1>3 DEF Send

(* A shorter queue is within the capacity as well. *)
LEMMA QueueType ==
  ASSUME TypeOK, NEW s \in Session,
         \/ txq' = [txq EXCEPT ![s] = <<>>]
         \/ txq[s] # <<>> /\ txq' = [txq EXCEPT ![s] = Tail(@)]
  PROVE  /\ txq' \in [Session -> Seq(Kind)]
         /\ \A r \in Session : Len(txq'[r]) <= TxCap
<1>1. txq \in [Session -> Seq(Kind)] /\ \A r \in Session : Len(txq[r]) <= TxCap
  BY DEF TypeOK
<1>2. CASE txq' = [txq EXCEPT ![s] = <<>>]
  BY <1>1, <1>2, CapAssumption
<1>3. CASE txq[s] # <<>> /\ txq' = [txq EXCEPT ![s] = Tail(@)]
  <2>1. Tail(txq[s]) \in Seq(Kind) /\ Len(Tail(txq[s])) <= TxCap
    BY <1>1, <1>3, CapAssumption
  <2> QED BY <1>1, <1>3, <2>1
<1> QED BY <1>2, <1>3

LEMMA CopyIsCopy ==
  ASSUME TypeOK, NEW s \in Session
  PROVE  Copy(s) \in CopyType
BY DEF TypeOK, Copy, CopyType
-----------------------------------------------------------------------------
(* Where the tunnel's tasks are, and what they leave in the table.  After  *)
(* the handler has taken the channel out nobody puts one back, so aborting *)
(* the write task then strands no entry.                                   *)
TunnelInv ==
  \A s \in Session :
    /\ clients[s].tcp => writer[s] \in {"run", "failed"}
    /\ handler[s] \in {"cleared", "done"} => ~clients[s].tcp

(* Whoever has got past the lookup of its key had a key that was loaded.   *)
KeyInv ==
  /\ keys \subseteq ever
  /\ \A s \in Session :
       clients[s].known \/ active[s]
       \/ handler[s] \in {"known", "read", "ended", "cleared", "done"}
         => KeyOf[s] \in ever
  /\ udp.pc # "recv" => KeyOf[udp.sess] \in ever

IInv == TypeOK /\ TunnelInv /\ KeyInv

LEMMA MapsAreKeys ==
  ASSUME NEW ks \in KeyDirs, NEW m \in Maps(ks)
  PROVE  m \in SUBSET Key
BY KeyAssumption DEF Maps

LEMMA InitInv == Init => IInv
<1> SUFFICES ASSUME Init PROVE IInv
  OBVIOUS
<1>1. keys \in SUBSET Key
  BY MapsAreKeys DEF Init
<1>2. /\ pings \in [Session -> 0..MaxPing]
      /\ txq \in [Session -> Seq(Kind)]
      /\ \A s \in Session : Len(txq[s]) <= TxCap
  BY CapAssumption DEF Init
<1>3. /\ Idle \in [pc : {"recv", "update", "copy", "send"},
                  sess : Session \union {NoOne}, need : BOOLEAN, copy : CopyType]
      /\ Unknown \in Client /\ NoCopy \in CopyType
  BY DEF Idle, NoCopy, Unknown, Addr, Client, CopyType
<1>4. TypeOK
  <2>1. clients \in [Session -> Client] /\ sender \in [Session -> CopyType]
    BY <1>3 DEF Init
  <2>2. udp = Idle /\ udp.pc = "recv"
    BY DEF Init, Idle
  <2>3. /\ keys \in SUBSET Key /\ ever \in SUBSET Key
        /\ link \in [Session -> {"none", "up", "closed"}]
        /\ handler \in [Session -> {"none", "first", "refused", "known", "read",
                                    "ended", "cleared", "done"}]
        /\ writer \in [Session -> {"none", "run", "failed", "done"}]
        /\ active \in [Session -> BOOLEAN]
        /\ inUp \in SUBSET Session /\ inDown \in SUBSET (Session \X Kind)
    BY <1>1 DEF Init
  <2> QED BY <1>2, <1>3, <2>1, <2>2, <2>3 DEF TypeOK, Client, CopyType
<1>5. TunnelInv /\ KeyInv
  BY DEF Init, TunnelInv, KeyInv, Unknown, Idle
<1> QED BY <1>4, <1>5 DEF IInv
-----------------------------------------------------------------------------
LEMMA UdpType ==
  ASSUME TypeOK, UdpStep
  PROVE  TypeOK'
<1>1. CASE UdpUpdate
  <2>1. clients' \in [Session -> Client]
    <3>1. udp.sess \in Session /\ clients \in [Session -> Client]
      BY <1>1 DEF UdpUpdate, TypeOK, Client
    <3>2. [clients[udp.sess] EXCEPT !.known = TRUE, !.addr = "udp"] \in Client
      BY <3>1 DEF Client, Addr
    <3>3. CASE clients' = [clients EXCEPT ![udp.sess] =
                             [@ EXCEPT !.known = TRUE, !.addr = "udp"]]
      BY <3>1, <3>2, <3>3
    <3>4. CASE clients' = clients
      BY <3>1, <3>4
    <3> QED
      BY <1>1, <3>1, <3>3, <3>4 DEF UdpUpdate, Client
  <2>2. udp' \in [pc : {"recv", "update", "copy", "send"},
                  sess : Session \union {NoOne}, need : BOOLEAN, copy : CopyType]
        /\ udp'.sess \in Session
    BY <1>1 DEF UdpUpdate, TypeOK, CopyType
  <2> QED
    BY <1>1, <2>1, <2>2 DEF UdpUpdate, TypeOK, keyVars, tunnel, sending, network,
       Client, CopyType
<1>2. CASE UdpCopy
  <2>1. Copy(udp.sess) \in CopyType BY <1>2, CopyIsCopy DEF UdpCopy, TypeOK
  <2> QED BY <1>2, <2>1 DEF UdpCopy, TypeOK, keyVars, tunnel, sending, network, CopyType
<1>3. CASE UdpSend
  <2>1. udp.sess \in Session /\ udp.copy \in CopyType /\ "pong" \in Kind
    BY <1>3 DEF UdpSend, TypeOK, CopyType, Kind
  <2>2. /\ txq' \in [Session -> Seq(Kind)]
        /\ \A r \in Session : Len(txq'[r]) <= TxCap
        /\ inDown' \in SUBSET (Session \X Kind)
    BY <1>3, <2>1, SendType DEF UdpSend
  <2> QED BY <1>3, <2>2 DEF UdpSend, TypeOK, keyVars, sending, Idle, NoCopy, Addr
<1> QED BY <1>1, <1>2, <1>3 DEF UdpStep

LEMMA HandlerType ==
  ASSUME TypeOK, NEW s \in Session, Handler(s)
  PROVE  TypeOK'
<1> USE DEF TypeOK, keyVars, sending, network
<1>1. CASE Authenticate(s) BY <1>1 DEF Authenticate
<1>2. CASE FirstFrameFails(s) BY <1>2 DEF FirstFrameFails
<1>3. CASE RegisterTunnel(s)
  <2>1. [known |-> TRUE, addr |-> "tcp", tcp |-> TRUE] \in Client
    BY DEF Client, Addr
  <2>2. clients' \in [Session -> Client]
    BY <1>3, <2>1 DEF RegisterTunnel, Client
  <2>3. /\ handler' \in [Session -> {"none", "first", "refused", "known", "read",
                                     "ended", "cleared", "done"}]
        /\ writer' \in [Session -> {"none", "run", "failed", "done"}]
        /\ active' \in [Session -> BOOLEAN]
    BY <1>3 DEF RegisterTunnel
  <2> QED BY <1>3, <2>2, <2>3 DEF RegisterTunnel, Client
<1>4. CASE ReadLoopEnds(s) BY <1>4 DEF ReadLoopEnds
<1>5. CASE HandlerCleanup(s) BY <1>5 DEF HandlerCleanup, WithoutChannel
<1>6. CASE HandlerAborts(s) BY <1>6, QueueType DEF HandlerAborts
<1>7. CASE ReadFrame(s)
  <2>1. KeyKnown(s) \in BOOLEAN BY DEF KeyKnown
  <2> QED BY <1>7, <2>1 DEF ReadFrame, tunnel
<1> QED BY <1>1, <1>2, <1>3, <1>4, <1>5, <1>6, <1>7 DEF Handler

LEMMA WriterType ==
  ASSUME TypeOK, NEW s \in Session, Writer(s)
  PROVE  TypeOK'
<1> USE DEF TypeOK, keyVars, sending, network
<1>1. CASE WriteFrame(s) BY <1>1, QueueType DEF WriteFrame
<1>2. CASE WriteFails(s) BY <1>2, QueueType DEF WriteFails
<1>3. CASE WriterCleanup(s)
  <2>1. txq' \in [Session -> Seq(Kind)] /\ \A r \in Session : Len(txq'[r]) <= TxCap
    BY <1>3, QueueType DEF WriterCleanup
  <2>2. WithoutChannel(s) \in [Session -> Client]
    BY DEF WithoutChannel, Client
  <2> QED BY <1>3, <2>1, <2>2 DEF WriterCleanup, Client
<1> QED BY <1>1, <1>2, <1>3 DEF Writer

LEMMA SenderType ==
  ASSUME TypeOK, NEW s \in Session,
         SenderCopies(s) \/ SenderSends(s) \/ SenderEnds(s)
  PROVE  TypeOK'
<1>1. CASE SenderCopies(s)
  <2>1. Copy(s) \in CopyType BY CopyIsCopy
  <2> QED BY <1>1, <2>1 DEF SenderCopies, TypeOK, keyVars, tunnel, network, CopyType
<1>2. CASE SenderSends(s)
  <2>1. sender[s] \in CopyType /\ "data" \in Kind
    BY DEF TypeOK, CopyType, Kind
  <2>2. /\ txq' \in [Session -> Seq(Kind)]
        /\ \A r \in Session : Len(txq'[r]) <= TxCap
        /\ inDown' \in SUBSET (Session \X Kind)
    BY <1>2, <2>1, SendType DEF SenderSends
  <2> QED BY <1>2, <2>2 DEF SenderSends, TypeOK, keyVars, NoCopy, Addr
<1>3. CASE SenderEnds(s)
  BY <1>3 DEF SenderEnds, TypeOK, keyVars, tunnel, network
<1> QED BY <1>1, <1>2, <1>3

LEMMA EnvironmentType ==
  ASSUME TypeOK, NEW s \in Session,
         UdpRecv(s) \/ OpenTunnel(s) \/ TunnelCloses(s) \/ Ping(s)
  PROVE  TypeOK'
<1> USE DEF TypeOK, keyVars, tunnel, sending
<1>1. CASE UdpRecv(s) BY <1>1 DEF UdpRecv, Idle, NoCopy, Addr
<1>2. CASE OpenTunnel(s) BY <1>2 DEF OpenTunnel, network
<1>3. CASE TunnelCloses(s) BY <1>3 DEF TunnelCloses, network
<1>4. CASE Ping(s)
  <2>1. pings' \in [Session -> 0..MaxPing] BY <1>4, CapAssumption DEF Ping
  <2> QED BY <1>4, <2>1 DEF Ping
<1> QED BY <1>1, <1>2, <1>3, <1>4

LEMMA TypeStep == TypeOK /\ [Next]_vars => TypeOK'
<1> SUFFICES ASSUME TypeOK, [Next]_vars PROVE TypeOK'
  OBVIOUS
<1>1. CASE ReloadKeys
  <2>1. keys' \in SUBSET Key BY <1>1, MapsAreKeys DEF ReloadKeys
  <2> QED BY <1>1, <2>1 DEF ReloadKeys, TypeOK, tunnel, sending, network
<1>2. CASE DatagramGone
  BY <1>2 DEF DatagramGone, TypeOK, keyVars, tunnel, sending
<1>3. CASE UNCHANGED vars
  BY <1>3 DEF vars, TypeOK, keyVars, tunnel, sending, network
<1> QED
  BY <1>1, <1>2, <1>3, UdpType, HandlerType, WriterType, SenderType,
     EnvironmentType DEF Next
-----------------------------------------------------------------------------
LEMMA TunnelStep == TypeOK /\ TunnelInv /\ [Next]_vars => TunnelInv'
<1> SUFFICES ASSUME TypeOK, TunnelInv, [Next]_vars PROVE TunnelInv'
  OBVIOUS
<1>t. /\ clients \in [Session -> Client]
      /\ handler \in [Session -> {"none", "first", "refused", "known", "read",
                                  "ended", "cleared", "done"}]
      /\ writer \in [Session -> {"none", "run", "failed", "done"}]
      /\ udp.pc # "recv" => udp.sess \in Session
  BY DEF TypeOK, Client
<1> USE <1>t DEF TunnelInv, Client
<1>1. CASE ReloadKeys BY <1>1 DEF ReloadKeys, tunnel
<1>2. CASE DatagramGone BY <1>2 DEF DatagramGone, tunnel
<1>3. CASE UdpStep
  BY <1>3 DEF UdpStep, UdpUpdate, UdpCopy, UdpSend, tunnel
<1>4. ASSUME NEW s \in Session, Handler(s) PROVE TunnelInv'
  <2>1. CASE Authenticate(s) BY <2>1 DEF Authenticate
  <2>2. CASE FirstFrameFails(s) BY <2>2 DEF FirstFrameFails
  <2>3. CASE RegisterTunnel(s) BY <2>3 DEF RegisterTunnel
  <2>4. CASE ReadLoopEnds(s) BY <2>4 DEF ReadLoopEnds
  <2>5. CASE HandlerCleanup(s) BY <2>5 DEF HandlerCleanup, WithoutChannel
  <2>6. CASE HandlerAborts(s) BY <2>6 DEF HandlerAborts
  <2>7. CASE ReadFrame(s) BY <2>7 DEF ReadFrame, tunnel
  <2> QED BY <1>4, <2>1, <2>2, <2>3, <2>4, <2>5, <2>6, <2>7 DEF Handler
<1>5. ASSUME NEW s \in Session, Writer(s) PROVE TunnelInv'
  <2>1. CASE WriteFrame(s) BY <2>1 DEF WriteFrame
  <2>2. CASE WriteFails(s) BY <2>2 DEF WriteFails
  <2>3. CASE WriterCleanup(s) BY <2>3 DEF WriterCleanup, WithoutChannel
  <2> QED BY <1>5, <2>1, <2>2, <2>3 DEF Writer
<1>6. ASSUME NEW s \in Session,
             \/ UdpRecv(s) \/ SenderCopies(s) \/ SenderSends(s) \/ SenderEnds(s)
             \/ OpenTunnel(s) \/ TunnelCloses(s) \/ Ping(s)
      PROVE  TunnelInv'
  BY <1>6 DEF UdpRecv, SenderCopies, SenderSends, SenderEnds, OpenTunnel,
     TunnelCloses, Ping, tunnel
<1>7. CASE UNCHANGED vars BY <1>7 DEF vars, tunnel
<1> QED BY <1>1, <1>2, <1>3, <1>4, <1>5, <1>6, <1>7 DEF Next

LEMMA KeyStep == TypeOK /\ KeyInv /\ [Next]_vars => KeyInv'
<1> SUFFICES ASSUME TypeOK, KeyInv, [Next]_vars PROVE KeyInv'
  OBVIOUS
<1>t. /\ clients \in [Session -> Client]
      /\ handler \in [Session -> {"none", "first", "refused", "known", "read",
                                  "ended", "cleared", "done"}]
      /\ active \in [Session -> BOOLEAN]
      /\ udp.pc # "recv" => udp.sess \in Session
      /\ udp \in [pc : {"recv", "update", "copy", "send"},
                  sess : Session \union {NoOne}, need : BOOLEAN, copy : CopyType]
  BY DEF TypeOK, Client, CopyType
<1> USE <1>t DEF KeyInv, Client, keyVars
<1>1. CASE ReloadKeys BY <1>1 DEF ReloadKeys, tunnel, sending
<1>2. CASE DatagramGone BY <1>2 DEF DatagramGone, tunnel, sending
<1>3. CASE UdpStep
  <2>1. CASE UdpUpdate BY <1>3, <2>1 DEF UdpUpdate, tunnel, sending
  <2>2. CASE UdpCopy BY <1>3, <2>2 DEF UdpCopy, tunnel, sending
  <2>3. CASE UdpSend BY <1>3, <2>3 DEF UdpSend, sending, Idle
  <2> QED BY <1>3, <2>1, <2>2, <2>3 DEF UdpStep
<1>4. ASSUME NEW s \in Session, Handler(s) PROVE KeyInv'
  <2> USE DEF sending
  <2>1. CASE Authenticate(s) BY <2>1 DEF Authenticate, KeyKnown, Opens
  <2>2. CASE FirstFrameFails(s) BY <2>2 DEF FirstFrameFails
  <2>3. CASE RegisterTunnel(s) BY <2>3 DEF RegisterTunnel
  <2>4. CASE ReadLoopEnds(s) BY <2>4 DEF ReadLoopEnds
  <2>5. CASE HandlerCleanup(s) BY <2>5 DEF HandlerCleanup, WithoutChannel
  <2>6. CASE HandlerAborts(s) BY <2>6 DEF HandlerAborts
  <2>7. CASE ReadFrame(s) BY <2>7 DEF ReadFrame, tunnel
  <2> QED BY <1>4, <2>1, <2>2, <2>3, <2>4, <2>5, <2>6, <2>7 DEF Handler
<1>5. ASSUME NEW s \in Session, Writer(s) PROVE KeyInv'
  BY <1>5 DEF Writer, WriteFrame, WriteFails, WriterCleanup, WithoutChannel, sending
<1>6. ASSUME NEW s \in Session, UdpRecv(s) PROVE KeyInv'
  BY <1>6 DEF UdpRecv, Idle, KeyKnown, Opens, tunnel, sending
<1>7. ASSUME NEW s \in Session,
             \/ SenderCopies(s) \/ SenderSends(s) \/ SenderEnds(s)
             \/ OpenTunnel(s) \/ TunnelCloses(s) \/ Ping(s)
      PROVE  KeyInv'
  BY <1>7 DEF SenderCopies, SenderSends, SenderEnds, OpenTunnel, TunnelCloses,
     Ping, tunnel, sending
<1>8. CASE UNCHANGED vars BY <1>8 DEF vars, tunnel, sending
<1> QED BY <1>1, <1>2, <1>3, <1>4, <1>5, <1>6, <1>7, <1>8 DEF Next

(* What a step may do for a session whose key is not loaded. *)
Gains(s) ==
  \/ Served(s)' /\ ~Served(s)
  \/ Trusted(s)' /\ ~Trusted(s)
  \/ clients'[s].known /\ ~(clients[s].known \/ Served(s) \/ handler[s] = "known")
  \/ active'[s] /\ ~(active[s] \/ handler[s] = "known")

LEMMA UnopenedGainsNothing ==
  ASSUME TypeOK, [Next]_vars, NEW s \in Session, KeyOf[s] \notin keys
  PROVE  ~Gains(s)
<1>k. ~KeyKnown(s)
  BY DEF KeyKnown, Opens
<1>t. /\ clients \in [Session -> Client]
      /\ handler \in [Session -> {"none", "first", "refused", "known", "read",
                                  "ended", "cleared", "done"}]
      /\ active \in [Session -> BOOLEAN]
      /\ udp.pc # "recv" => udp.sess \in Session
      /\ udp \in [pc : {"recv", "update", "copy", "send"},
                  sess : Session \union {NoOne}, need : BOOLEAN, copy : CopyType]
  BY DEF TypeOK, Client, CopyType
<1> USE <1>t DEF Gains, Served, Trusted, Client
<1>1. CASE ReloadKeys \/ DatagramGone
  BY <1>1 DEF ReloadKeys, DatagramGone, tunnel, sending
<1>2. CASE UdpStep
  <2>1. CASE UdpUpdate BY <2>1 DEF UdpUpdate, tunnel, sending
  <2>2. CASE UdpCopy BY <2>2 DEF UdpCopy, tunnel, sending
  <2>3. CASE UdpSend BY <2>3 DEF UdpSend, sending, Idle
  <2> QED BY <1>2, <2>1, <2>2, <2>3 DEF UdpStep
<1>3. ASSUME NEW r \in Session, Handler(r) PROVE ~Gains(s)
  <2> USE DEF sending
  <2>1. CASE Authenticate(r) BY <1>k, <2>1 DEF Authenticate
  <2>2. CASE FirstFrameFails(r) BY <2>2 DEF FirstFrameFails
  <2>3. CASE RegisterTunnel(r) BY <2>3 DEF RegisterTunnel
  <2>4. CASE ReadLoopEnds(r) BY <2>4 DEF ReadLoopEnds
  <2>5. CASE HandlerCleanup(r) BY <2>5 DEF HandlerCleanup, WithoutChannel
  <2>6. CASE HandlerAborts(r) BY <2>6 DEF HandlerAborts
  <2>7. CASE ReadFrame(r) BY <1>k, <2>7 DEF ReadFrame, tunnel
  <2> QED BY <1>3, <2>1, <2>2, <2>3, <2>4, <2>5, <2>6, <2>7 DEF Handler
<1>4. ASSUME NEW r \in Session, Writer(r) PROVE ~Gains(s)
  BY <1>4 DEF Writer, WriteFrame, WriteFails, WriterCleanup, WithoutChannel, sending
<1>5. ASSUME NEW r \in Session, UdpRecv(r) PROVE ~Gains(s)
  BY <1>k, <1>5 DEF UdpRecv, Idle, tunnel, sending
<1>6. ASSUME NEW r \in Session,
             \/ SenderCopies(r) \/ SenderSends(r) \/ SenderEnds(r)
             \/ OpenTunnel(r) \/ TunnelCloses(r) \/ Ping(r)
      PROVE  ~Gains(s)
  BY <1>6 DEF SenderCopies, SenderSends, SenderEnds, OpenTunnel, TunnelCloses,
     Ping, tunnel, sending
<1>7. CASE UNCHANGED vars BY <1>7 DEF vars, tunnel, sending
<1> QED BY <1>1, <1>2, <1>3, <1>4, <1>5, <1>6, <1>7 DEF Next

LEMMA Inductive == Spec => []IInv
<1>1. IInv /\ [Next]_vars => IInv'
  BY TypeStep, TunnelStep, KeyStep DEF IInv
<1> QED BY InitInv, <1>1, PTL DEF Spec
-----------------------------------------------------------------------------
(* Types, and the channel to a tunnel never holds more than its capacity,  *)
(* whoever sends on it with whatever stale copy.                           *)
THEOREM TypeCorrect == Spec => []TypeOK
<1>1. IInv => TypeOK BY DEF IInv
<1> QED BY Inductive, <1>1, PTL

(* A channel in the session table has a write task, in whatever order the  *)
(* handler and the write task clean up.                                    *)
THEOREM ChannelsHaveWriters == Spec => []ChannelHasWriter
<1>1. IInv => ChannelHasWriter BY DEF IInv, TunnelInv, ChannelHasWriter
<1> QED BY Inductive, <1>1, PTL

(* No session gets into the table, or gets a connection, with a key the    *)
(* relay has never loaded, however the keys are reloaded meanwhile.        *)
THEOREM KeysWereLoaded == Spec => []OnlyKnownKeys
<1>1. IInv => OnlyKnownKeys BY DEF IInv, KeyInv, OnlyKnownKeys
<1> QED BY Inductive, <1>1, PTL

(* A proxy whose key is not among those now loaded is taken in by neither  *)
(* transport: only what was authenticated before the reload goes on.       *)
THEOREM RevokedKeysStayOut == Spec => RevokedStaysOut
<1>1. TypeOK /\ [Next]_vars =>
        [\A s \in Session : KeyOf[s] \notin keys =>
           /\ (Served(s)' => Served(s)) /\ (Trusted(s)' => Trusted(s))
           /\ clients'[s].known => \/ clients[s].known
                                  \/ Served(s) \/ handler[s] = "known"
           /\ active'[s] => active[s] \/ handler[s] = "known"]_vars
  BY UnopenedGainsNothing DEF Gains
<1> QED BY TypeCorrect, <1>1, PTL DEF Spec, RevokedStaysOut
=============================================================================
