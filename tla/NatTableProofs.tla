----------------------------- MODULE NatTableProofs -----------------------------
(***************************************************************************)
(* Proofs about the user-space TCP endpoint: upstream it neither loses nor *)
(* repeats nor invents a byte, for any sequence numbers, any capacities    *)
(* and any losses.                                                         *)
(***************************************************************************)
EXTENDS NatTable, Integers, SequenceTheorems, TLAPS

(* The client's bytes that the relay has or will have.                     *)
Given == fwd \o nat.pend

(***************************************************************************)
(* What is given is a prefix of what the client wrote, all that was taken  *)
(* until the server closes; and the entry expects the byte after what was  *)
(* taken.                                                                  *)
(***************************************************************************)
Forwarding ==
  /\ Given = Bytes(1, Len(Given))
  /\ nat.conn \/ ~nat.ex => nat.pend = <<>>
  /\ nat.ex /\ nat.st # "closing" => Len(Given) = taken
  /\ nat.ex /\ client.st # "closed" => nat.cnext = Sq(client.isn + 1 + taken)

(* The client has sent a SYN: all that follows the answer it waits for     *)
(* acknowledges no more than the SYN.                                      *)
Opening ==
  /\ client.una = 0 /\ client.nxt = 0 /\ ~client.fin /\ taken = 0
  /\ \A i, j \in 1..Len(tunOut) :
       i < j /\ tunOut[i].kind = "synack" /\ tunOut[i].ack = Sq(client.isn + 1)
         => tunOut[j].ack = Sq(client.isn + 1)

(* The segments of q acknowledge from a to b bytes, in rising order.       *)
Acknowledge(q, isn, a, b) ==
  \E f \in [1..Len(q) -> a..b] :
    /\ \A i \in 1..Len(q) : q[i].ack = Sq(isn + 1 + f[i])
    /\ \A i, j \in 1..Len(q) : i < j => f[i] <= f[j]

Acknowledged ==
  /\ client.una <= taken /\ taken <= client.nxt
  /\ client.nxt <= client.una + Window
  /\ Acknowledge(tunOut, client.isn, client.una, taken)

(* A FIN is answered even if bytes before it are missing: what is then     *)
(* acknowledged may not have been taken, but the entry is gone.            *)
IInv ==
  /\ Forwarding
  /\ client.st = "syn" => Opening
  /\ client.st = "est" /\ (nat.ex \/ ~client.fin) => Acknowledged
-----------------------------------------------------------------------------
(* Numbers modulo Modulus. *)

LEMMA Capacities ==
  /\ Modulus \in Nat \ {0} /\ Window \in Nat /\ Window < Modulus
  /\ Mss \in Nat \ {0} /\ MaxSeg \in Nat \ {0}
  /\ MaxSyn \in Nat /\ MaxUp \in Nat /\ MaxDown \in Nat
  /\ Isns \subseteq 0..(Modulus - 1)
  BY ModulusAssumption, BoundAssumption

LEMMA Quotient ==
  ASSUME NEW n \in Nat
  PROVE  /\ n = Modulus * (n \div Modulus) + Sq(n)
         /\ n \div Modulus \in Nat /\ Sq(n) \in 0..(Modulus - 1)
  BY Capacities DEF Sq

LEMMA Remainder ==
  ASSUME NEW q \in Nat, NEW r \in 0..(Modulus - 1)
  PROVE  Sq(Modulus * q + r) = r
  <1> DEFINE n == Modulus * q + r
  <1>1. n \in Nat
    BY Capacities
  <1>2. n = Modulus * q + r
    OBVIOUS
  <1> HIDE DEF n
  <1>3. Sq(n) = r
    BY <1>1, <1>2, Capacities DEF Sq
  <1> QED
    BY <1>2, <1>3

LEMMA NextMultiple ==
  ASSUME NEW p \in Nat, NEW q \in Nat, p < q
  PROVE  Modulus * p + Modulus <= Modulus * q
  <1>1. PICK d \in Nat : q = p + 1 + d
    BY q - p - 1 \in Nat
  <1>2. Modulus * q = Modulus * p + Modulus + Modulus * d /\ Modulus * d \in Nat
    BY <1>1, Capacities
  <1>3. Modulus * p \in Nat /\ Modulus \in Nat
    BY Capacities
  <1> QED
    BY <1>2, <1>3

(* Numbers less than Modulus apart are told apart.                         *)
LEMMA SameNumber ==
  ASSUME NEW a \in Nat, NEW b \in Nat, Sq(a) = Sq(b), a <= b, b < a + Modulus
  PROVE  a = b
  <1> DEFINE q == a \div Modulus
             p == b \div Modulus
             r == Sq(a)
  <1>1. a = Modulus * q + r /\ q \in Nat /\ r \in 0..(Modulus - 1)
    BY Quotient
  <1>2. b = Modulus * p + r /\ p \in Nat
    BY Quotient
  <1>3. Modulus \in Nat /\ Modulus * q \in Nat /\ Modulus * p \in Nat
    BY <1>1, <1>2, Capacities
  <1> HIDE DEF q, p, r
  <1>4. CASE p < q
    <2>1. Modulus * p + Modulus <= Modulus * q
      BY <1>1, <1>2, <1>4, NextMultiple
    <2> QED
      BY <1>1, <1>2, <1>3, <2>1, Capacities
  <1>5. CASE q < p
    <2>1. Modulus * q + Modulus <= Modulus * p
      BY <1>1, <1>2, <1>5, NextMultiple
    <2> QED
      BY <1>1, <1>2, <1>3, <2>1, Capacities
  <1>6. CASE q = p
    BY <1>1, <1>2, <1>6
  <1> QED
    BY <1>1, <1>2, <1>4, <1>5, <1>6

(* Counting on from a number that is already reduced.                      *)
LEMMA CountOn ==
  ASSUME NEW a \in Nat, NEW b \in Nat
  PROVE  Sq(Sq(a) + b) = Sq(a + b)
  <1> DEFINE u == a \div Modulus
             c == Sq(a) + b
             v == c \div Modulus
             w == Sq(c)
  <1>1. a = Modulus * u + Sq(a) /\ u \in Nat /\ Sq(a) \in 0..(Modulus - 1)
    BY Quotient
  <1>2. c \in Nat
    BY <1>1, Capacities
  <1>3. c = Modulus * v + w /\ v \in Nat /\ w \in 0..(Modulus - 1)
    BY <1>2, Quotient
  <1>4. a + b = Modulus * u + c
    BY <1>1, Capacities
  <1>5. a + b = Modulus * u + (Modulus * v + w)
    BY <1>3, <1>4
  <1> HIDE DEF u, v, w
  <1>6. a + b = Modulus * (u + v) + w
    BY <1>1, <1>3, <1>5, Capacities
  <1>7. u + v \in Nat
    BY <1>1, <1>3
  <1>8. Sq(a + b) = w
    BY <1>3, <1>6, <1>7, Remainder
  <1> QED
    BY <1>8 DEF w

(* What two numbers are apart is what their remainders are apart.          *)
LEMMA Distance ==
  ASSUME NEW a \in Nat, NEW n \in Nat, n < Modulus
  PROVE  Sq(Sq(a + n) + Modulus - Sq(a)) = n
  <1> DEFINE s == Sq(a)
  <1>1. s \in 0..(Modulus - 1) /\ Sq(a + n) = Sq(s + n)
    BY Quotient, CountOn
  <1> HIDE DEF s
  <1>2. CASE s + n < Modulus
    <2>1. s + n \in 0..(Modulus - 1) /\ s + n = Modulus * 0 + (s + n)
      BY <1>1, <1>2, Capacities
    <2>2. Sq(s + n) = s + n
      BY <2>1, Remainder
    <2>3. Sq(s + n) + Modulus - s = Modulus * 1 + n
      BY <1>1, <2>2, Capacities
    <2>4. 1 \in Nat /\ n \in 0..(Modulus - 1)
      BY Capacities
    <2>5. Sq(Modulus * 1 + n) = n
      BY <2>4, Remainder, Zenon
    <2> QED
      BY <1>1, <2>3, <2>5 DEF s
  <1>3. CASE s + n >= Modulus
    <2>1. s + n - Modulus \in 0..(Modulus - 1) /\ s + n = Modulus * 1 + (s + n - Modulus)
      BY <1>1, <1>3, Capacities
    <2>2. Sq(s + n) = s + n - Modulus
      BY <2>1, Remainder
    <2>3. Sq(s + n) + Modulus - s = Modulus * 0 + n
      BY <1>1, <2>2, Capacities
    <2>4. Sq(Modulus * 0 + n) = n
      BY <1>1, Remainder, Capacities
    <2> QED
      BY <1>1, <2>3, <2>4 DEF s
  <1> QED
    BY <1>1, <1>2, <1>3, Capacities
-----------------------------------------------------------------------------
(* Bytes and acknowledgements. *)

LEMMA BytesProperties ==
  ASSUME NEW a \in Nat, NEW b \in Nat, a <= b + 1
  PROVE  /\ Bytes(a, b) \in Seq(Nat) /\ Len(Bytes(a, b)) = b + 1 - a
         /\ \A i \in 1..(b + 1 - a) : Bytes(a, b)[i] = a + i - 1
         /\ \A S : a..b \subseteq S => Bytes(a, b) \in Seq(S)
  <1>1. b + 1 - a \in Nat
    OBVIOUS
  <1>2. ASSUME NEW S, a..b \subseteq S
        PROVE  Bytes(a, b) \in [1..(b + 1 - a) -> S]
    BY <1>2 DEF Bytes
  <1>3. ASSUME NEW S, a..b \subseteq S
        PROVE  Bytes(a, b) \in Seq(S)
    BY <1>1, <1>2, <1>3, SeqDef
  <1>4. Bytes(a, b) \in Seq(Nat)
    BY <1>3
  <1>5. DOMAIN Bytes(a, b) = 1..(b + 1 - a)
    BY DEF Bytes
  <1>6. Len(Bytes(a, b)) = b + 1 - a
    BY <1>1, <1>4, <1>5, LenProperties
  <1>7. \A i \in 1..(b + 1 - a) : Bytes(a, b)[i] = a + i - 1
    BY DEF Bytes
  <1> QED
    BY <1>3, <1>4, <1>6, <1>7

LEMMA FirstBytes ==
  ASSUME NEW n \in Nat
  PROVE  /\ Bytes(1, n) \in Seq(Nat) /\ Len(Bytes(1, n)) = n
         /\ \A i \in 1..n : Bytes(1, n)[i] = i
         /\ \A S : 1..n \subseteq S => Bytes(1, n) \in Seq(S)
  <1>1. 1 \in Nat /\ 1 <= n + 1 /\ n + 1 - 1 = n /\ \A i \in 1..n : 1 + i - 1 = i
    OBVIOUS
  <1>2. /\ Bytes(1, n) \in Seq(Nat) /\ Len(Bytes(1, n)) = n + 1 - 1
        /\ \A i \in 1..(n + 1 - 1) : Bytes(1, n)[i] = 1 + i - 1
        /\ \A S : 1..n \subseteq S => Bytes(1, n) \in Seq(S)
    BY <1>1, BytesProperties, Zenon
  <1> QED
    BY <1>1, <1>2, Zenon

LEMMA BytesJoin ==
  ASSUME NEW k \in Nat, NEW b \in Nat, k <= b
  PROVE  Bytes(1, k) \o Bytes(k + 1, b) = Bytes(1, b)
  <1> DEFINE s == Bytes(1, k)
             t == Bytes(k + 1, b)
             u == Bytes(1, b)
  <1>1. s \in Seq(Nat) /\ Len(s) = k /\ \A i \in 1..k : s[i] = i
    BY FirstBytes, Zenon
  <1>2. t \in Seq(Nat) /\ Len(t) = b - k /\ \A i \in 1..(b - k) : t[i] = k + i
    <2>1. k + 1 \in Nat /\ k + 1 <= b + 1 /\ b + 1 - (k + 1) = b - k
          /\ \A i \in 1..(b - k) : k + 1 + i - 1 = k + i
      OBVIOUS
    <2>2. /\ t \in Seq(Nat) /\ Len(t) = b + 1 - (k + 1)
          /\ \A i \in 1..(b + 1 - (k + 1)) : t[i] = k + 1 + i - 1
      BY <2>1, BytesProperties, Zenon
    <2> QED
      BY <2>1, <2>2, Zenon
  <1>3. u \in Seq(Nat) /\ Len(u) = b /\ \A i \in 1..b : u[i] = i
    BY FirstBytes, Zenon
  <1> HIDE DEF s, t, u
  <1>4. /\ s \o t \in Seq(Nat) /\ Len(s \o t) = Len(s) + Len(t)
        /\ \A i \in 1..(Len(s) + Len(t)) :
             (s \o t)[i] = IF i <= Len(s) THEN s[i] ELSE t[i - Len(s)]
    BY <1>1, <1>2, ConcatProperties
  <1>5. Len(s \o t) = Len(u)
    BY <1>1, <1>2, <1>3, <1>4
  <1>6. ASSUME NEW i \in 1..Len(s \o t)
        PROVE  (s \o t)[i] = u[i]
    <2>0. Len(s) = k /\ Len(s) + Len(t) = b /\ i \in 1..b
      BY <1>1, <1>2, <1>4
    <2>1. i \in 1..b /\ (s \o t)[i] = IF i <= k THEN s[i] ELSE t[i - k]
      BY <1>4, <2>0, Zenon
    <2>2. CASE i <= k
      BY <1>1, <1>3, <2>1, <2>2
    <2>3. CASE i > k
      <3>1. i - k \in 1..(b - k) /\ k + (i - k) = i
        BY <2>1, <2>3
      <3>2. t[i - k] = i
        BY <1>2, <3>1
      <3> QED
        BY <1>3, <2>1, <2>3, <3>2
    <2> QED
      BY <2>1, <2>2, <2>3
  <1>7. s \o t = u
    BY <1>3, <1>4, <1>5, <1>6, SeqEqual
  <1> QED
    BY <1>7 DEF s, t, u

LEMMA BytesPrefix ==
  ASSUME NEW s \in Seq(Nat), NEW t \in Seq(Nat), s \o t = Bytes(1, Len(s \o t))
  PROVE  s = Bytes(1, Len(s))
  <1> DEFINE u == Bytes(1, Len(s))
             c == s \o t
  <1>1. /\ c \in Seq(Nat) /\ Len(c) = Len(s) + Len(t)
        /\ \A i \in 1..(Len(s) + Len(t)) : c[i] = IF i <= Len(s) THEN s[i] ELSE t[i - Len(s)]
    BY ConcatProperties
  <1>2. Len(s) \in Nat /\ Len(t) \in Nat /\ Len(c) \in Nat
    BY <1>1, LenProperties
  <1>3. u \in Seq(Nat) /\ Len(u) = Len(s) /\ \A i \in 1..Len(s) : u[i] = i
    BY <1>2, FirstBytes, Zenon
  <1>4. \A i \in 1..Len(c) : c[i] = i
    BY <1>2, FirstBytes, Zenon
  <1> HIDE DEF c, u
  <1>5. ASSUME NEW i \in 1..Len(s)
        PROVE  s[i] = u[i]
    <2>1. i \in 1..Len(c) /\ i \in 1..(Len(s) + Len(t)) /\ i <= Len(s)
      BY <1>1, <1>2
    <2> QED
      BY <1>1, <1>3, <1>4, <2>1
  <1>6. s = u
    BY <1>3, <1>5, SeqEqual
  <1> QED
    BY <1>6 DEF u

SegmentState ==
  [kind : {"synack", "ack", "data", "fin", "rst"},
   seq : 0..(Modulus - 1), ack : 0..(Modulus - 1), data : Seq(0..MaxDown)]

(* New segments acknowledge what is taken by then.                         *)
LEMMA AcknowledgeMore ==
  ASSUME NEW q \in Seq(SegmentState), NEW s \in Seq(SegmentState),
         NEW isn \in Nat, NEW a \in Nat, NEW b \in Nat, NEW c \in Nat, a <= b, b <= c,
         Acknowledge(q, isn, a, b),
         \A i \in 1..Len(s) : s[i].ack = Sq(isn + 1 + c)
  PROVE  Acknowledge(q \o s, isn, a, c)
  <1> DEFINE w == q \o s
  <1>1. PICK f \in [1..Len(q) -> a..b] :
          /\ \A i \in 1..Len(q) : q[i].ack = Sq(isn + 1 + f[i])
          /\ \A i, j \in 1..Len(q) : i < j => f[i] <= f[j]
    BY DEF Acknowledge
  <1>2. /\ Len(w) = Len(q) + Len(s) /\ Len(q) \in Nat /\ Len(s) \in Nat
        /\ \A i \in 1..Len(w) : w[i] = IF i <= Len(q) THEN q[i] ELSE s[i - Len(q)]
    BY ConcatProperties, LenProperties
  <1> HIDE DEF w
  <1> DEFINE g == [i \in 1..Len(w) |-> IF i <= Len(q) THEN f[i] ELSE c]
  <1>3. g \in [1..Len(w) -> a..c]
    BY <1>1, <1>2
  <1>4. ASSUME NEW i \in 1..Len(w)
        PROVE  w[i].ack = Sq(isn + 1 + g[i])
    <2>1. CASE i <= Len(q)
      <3>1. i \in 1..Len(q) /\ w[i] = q[i] /\ g[i] = f[i]
        BY <1>2, <2>1
      <3> QED
        BY <1>1, <3>1
    <2>2. CASE i > Len(q)
      <3>1. i - Len(q) \in 1..Len(s) /\ w[i] = s[i - Len(q)] /\ g[i] = c
        BY <1>2, <2>2
      <3> QED
        BY <3>1
    <2> QED
      BY <1>2, <2>1, <2>2
  <1>5. ASSUME NEW i \in 1..Len(w), NEW j \in 1..Len(w), i < j
        PROVE  g[i] <= g[j]
    <2>1. CASE j <= Len(q)
      BY <1>1, <1>2, <1>5, <2>1
    <2>2. CASE j > Len(q)
      <3>1. g[j] = c
        BY <1>2, <2>2
      <3>2. g[i] \in a..c
        BY <1>3
      <3> QED
        BY <3>1, <3>2
    <2> QED
      BY <1>2, <2>1, <2>2
  <1> HIDE DEF g
  <1>6. Acknowledge(w, isn, a, c)
    BY <1>3, <1>4, <1>5 DEF Acknowledge
  <1> QED
    BY <1>6 DEF w

(* The client has received the first segment.                              *)
LEMMA AcknowledgeRest ==
  ASSUME NEW q \in Seq(SegmentState), q # <<>>,
         NEW isn \in Nat, NEW a \in Nat, NEW b \in Nat,
         Acknowledge(q, isn, a, b)
  PROVE  /\ Acknowledge(Tail(q), isn, a, b)
         /\ \E n \in a..b : /\ Head(q).ack = Sq(isn + 1 + n)
                            /\ Acknowledge(Tail(q), isn, n, b)
  <1> DEFINE w == Tail(q)
  <1>1. PICK f \in [1..Len(q) -> a..b] :
          /\ \A i \in 1..Len(q) : q[i].ack = Sq(isn + 1 + f[i])
          /\ \A i, j \in 1..Len(q) : i < j => f[i] <= f[j]
    BY DEF Acknowledge
  <1>2. /\ Len(q) \in Nat \ {0} /\ Len(w) = Len(q) - 1
        /\ \A i \in 1..Len(w) : w[i] = q[i + 1]
        /\ Head(q) = q[1]
    BY HeadTailProperties, EmptySeq
  <1> HIDE DEF w
  <1> DEFINE g == [i \in 1..Len(w) |-> f[i + 1]]
  <1>3. \A i \in 1..Len(w) : i + 1 \in 1..Len(q) /\ g[i] = f[i + 1]
    BY <1>2
  <1>4. f[1] \in a..b /\ Head(q).ack = Sq(isn + 1 + f[1])
    BY <1>1, <1>2
  <1>5. ASSUME NEW i \in 1..Len(w)
        PROVE  g[i] \in f[1]..b /\ g[i] \in a..b
    <2>1. 1 \in 1..Len(q) /\ i + 1 \in 1..Len(q) /\ 1 < i + 1 /\ g[i] = f[i + 1]
      BY <1>2, <1>3
    <2>2. f[1] \in a..b /\ f[i + 1] \in a..b /\ f[1] <= f[i + 1]
      BY <1>1, <2>1
    <2> QED
      BY <2>1, <2>2
  <1>6. \A i \in 1..Len(w) : w[i].ack = Sq(isn + 1 + g[i])
    BY <1>1, <1>2, <1>3
  <1>7. \A i, j \in 1..Len(w) : i < j => g[i] <= g[j]
    <2> SUFFICES ASSUME NEW i \in 1..Len(w), NEW j \in 1..Len(w), i < j
                 PROVE  g[i] <= g[j]
      OBVIOUS
    <2>1. i + 1 \in 1..Len(q) /\ j + 1 \in 1..Len(q) /\ i + 1 < j + 1
      BY <1>3
    <2> QED
      BY <1>1, <1>3, <2>1
  <1>8. g \in [1..Len(w) -> f[1]..b] /\ g \in [1..Len(w) -> a..b]
    BY <1>5
  <1> HIDE DEF g
  <1>9. Acknowledge(w, isn, a, b) /\ Acknowledge(w, isn, f[1], b)
    BY <1>6, <1>7, <1>8 DEF Acknowledge
  <1> QED
    BY <1>4, <1>9 DEF w
-----------------------------------------------------------------------------
(* Type correctness. *)

EntryState ==
  [ex : BOOLEAN, st : {"syn", "est", "closing"},
   cnext : 0..(Modulus - 1), onext : 0..(Modulus - 1),
   conn : BOOLEAN, pend : Seq(1..MaxUp), aged : BOOLEAN]

ClientState ==
  [st : {"closed", "syn", "est"}, isn : 0..(Modulus - 1),
   una : 0..MaxUp, nxt : 0..MaxUp, fin : BOOLEAN,
   rcv : 0..(Modulus - 1), got : Seq(0..MaxDown), rfin : BOOLEAN]

Typed ==
  /\ nat \in EntryState
  /\ tunOut \in Seq(SegmentState)
  /\ client \in ClientState
  /\ syns \in 0..MaxSyn
  /\ server \in [st : {"none", "asked", "up", "over"}, sent : 0..MaxDown]
  /\ late \in [st : {"asked", "up", "over"}, sent : 0..MaxDown]
  /\ taken \in 0..MaxUp
  /\ fwd \in Seq(1..MaxUp)
  /\ ended \in BOOLEAN

LEMMA TypeParts == TypeOK <=> Typed
  BY DEF TypeOK, Typed, EntryState, SegmentState, ClientState

LEMMA SqType ==
  ASSUME NEW n \in Nat
  PROVE  Sq(n) \in 0..(Modulus - 1) /\ Sq(n) \in Nat
  BY Quotient

LEMMA EntryFields ==
  ASSUME NEW e \in EntryState
  PROVE  /\ e.ex \in BOOLEAN /\ e.conn \in BOOLEAN
         /\ e.cnext \in Nat /\ e.onext \in Nat
         /\ e.cnext \in 0..(Modulus - 1) /\ e.onext \in 0..(Modulus - 1)
         /\ e.pend \in Seq(1..MaxUp)
  BY Capacities DEF EntryState

LEMMA ClientFields ==
  ASSUME NEW c \in ClientState
  PROVE  /\ c.isn \in Nat /\ c.una \in Nat /\ c.nxt \in Nat /\ c.rcv \in Nat
         /\ c.una <= MaxUp /\ c.nxt <= MaxUp /\ c.got \in Seq(0..MaxDown)
         /\ c.fin \in BOOLEAN /\ c.rfin \in BOOLEAN
         /\ c.st \in {"closed", "syn", "est"}
  BY Capacities DEF ClientState

LEMMA NoEntryType == NoEntry \in EntryState /\ ~NoEntry.ex /\ NoEntry.pend = <<>>
  <1>1. <<>> \in Seq(1..MaxUp) /\ 0 \in 0..(Modulus - 1)
    BY Capacities
  <1> QED
    BY <1>1 DEF EntryState, NoEntry

LEMMA EntryChanges ==
  ASSUME NEW e \in EntryState, NEW c \in 0..(Modulus - 1),
         NEW st \in {"syn", "est", "closing"}, NEW p \in Seq(1..MaxUp)
  PROVE  [e EXCEPT !.st = st, !.cnext = c, !.pend = p] \in EntryState
  BY DEF EntryState

LEMMA FirstEntry ==
  ASSUME NEW q \in Nat, NEW isn \in Nat
  PROVE  /\ NewEntry(q, isn) \in EntryState
         /\ NewEntry(q, isn).st = "syn"
         /\ NewEntry(q, isn).cnext = Sq(q + 1)
         /\ NewEntry(q, isn).pend = <<>>
  <1>1. <<>> \in Seq(1..MaxUp) /\ 0 \in 0..(Modulus - 1)
        /\ Sq(q + 1) \in 0..(Modulus - 1) /\ Sq(isn + 1) \in 0..(Modulus - 1)
    BY Capacities, SqType
  <1> QED
    BY <1>1 DEF NewEntry, EntryState, NoEntry

LEMMA SegmentType ==
  ASSUME NEW k \in {"synack", "ack", "data", "fin", "rst"},
         NEW s \in 0..(Modulus - 1), NEW a \in 0..(Modulus - 1), NEW d \in Seq(0..MaxDown)
  PROVE  /\ Segment(k, s, a, d) \in SegmentState
         /\ Segment(k, s, a, d).ack = a
  BY DEF Segment, SegmentState

(* A control segment to the client.                                        *)
LEMMA SignalType ==
  ASSUME NEW k \in {"synack", "ack", "data", "fin", "rst"},
         NEW s \in 0..(Modulus - 1), NEW a \in 0..(Modulus - 1)
  PROVE  /\ Segment(k, s, a, <<>>) \in SegmentState
         /\ <<Segment(k, s, a, <<>>)>> \in Seq(SegmentState)
         /\ Len(<<Segment(k, s, a, <<>>)>>) = 1
         /\ <<Segment(k, s, a, <<>>)>>[1].ack = a
         /\ \A q \in Seq(SegmentState) :
              Append(q, Segment(k, s, a, <<>>)) = q \o <<Segment(k, s, a, <<>>)>>
  <1>1. <<>> \in Seq(0..MaxDown)
    OBVIOUS
  <1>2. Segment(k, s, a, <<>>) \in SegmentState /\ Segment(k, s, a, <<>>).ack = a
    BY <1>1, SegmentType, Zenon
  <1> DEFINE x == Segment(k, s, a, <<>>)
  <1> HIDE DEF x
  <1>3. x \in SegmentState /\ x.ack = a
    BY <1>2 DEF x
  <1>4. <<x>> \in Seq(SegmentState) /\ Len(<<x>>) = 1 /\ <<x>>[1] = x
    BY <1>3
  <1>5. \A q \in Seq(SegmentState) : Append(q, x) = q \o <<x>>
    BY <1>3, AppendIsConcat
  <1> QED
    BY <1>3, <1>4, <1>5 DEF x

LEMMA ChunksType ==
  ASSUME NEW e \in EntryState, NEW d \in Seq(0..MaxDown), d # <<>>
  PROVE  /\ Chunks(e, d) \in Seq(SegmentState)
         /\ \A i \in 1..Len(Chunks(e, d)) : Chunks(e, d)[i].ack = e.cnext
  <1> DEFINE n == (Len(d) - 1) \div Mss + 1
             last(x) == IF x + Mss > Len(d) THEN Len(d) ELSE x + Mss
             at(i) == (i - 1) * Mss
             chunk(x) == Segment("data", Sq(e.onext + x), e.cnext, SubSeq(d, x + 1, last(x)))
  <1>1. Len(d) \in Nat \ {0}
    BY EmptySeq
  <1>2. n \in Nat
    BY <1>1, Capacities
  <1>3. ASSUME NEW x \in Nat
        PROVE  chunk(x) \in SegmentState /\ chunk(x).ack = e.cnext
    <2>1. x + 1 \in Int /\ last(x) \in Int /\ last(x) <= Len(d)
      BY <1>1, Capacities
    <2>2. \A i \in (x + 1)..last(x) : d[i] \in 0..MaxDown
      <3> SUFFICES ASSUME NEW i \in (x + 1)..last(x)
                   PROVE  d[i] \in 0..MaxDown
        OBVIOUS
      <3>1. i \in 1..Len(d)
        BY <1>1, <2>1
      <3> QED
        BY <3>1, ElementOfSeq
    <2>3. SubSeq(d, x + 1, last(x)) \in Seq(0..MaxDown)
      BY <2>1, <2>2, SubSeqProperties
    <2>4. e.cnext \in 0..(Modulus - 1) /\ e.onext + x \in Nat
      BY EntryFields
    <2>5. Sq(e.onext + x) \in 0..(Modulus - 1)
      BY <2>4, SqType
    <2> DEFINE seq  == Sq(e.onext + x)
               data == SubSeq(d, x + 1, last(x))
    <2>6. seq \in 0..(Modulus - 1) /\ data \in Seq(0..MaxDown)
      BY <2>3, <2>5
    <2> HIDE DEF seq, data
    <2>7. /\ Segment("data", seq, e.cnext, data) \in SegmentState
          /\ Segment("data", seq, e.cnext, data).ack = e.cnext
      BY <2>4, <2>6, SegmentType
    <2> QED
      BY <2>7 DEF seq, data
  <1>4. \A i \in 1..n : at(i) \in Nat
    BY <1>2, Capacities
  <1>5. Chunks(e, d) = [i \in 1..n |-> chunk(at(i))]
    BY DEF Chunks
  <1> HIDE DEF n, chunk, at
  <1>6. Chunks(e, d) \in [1..n -> SegmentState]
    BY <1>3, <1>4, <1>5
  <1>7. Chunks(e, d) \in Seq(SegmentState)
    BY <1>2, <1>6, SeqDef
  <1>8. Len(Chunks(e, d)) = n
    BY <1>2, <1>6, <1>7, LenProperties
  <1>9. \A i \in 1..n : Chunks(e, d)[i].ack = e.cnext
    BY <1>3, <1>4, <1>5
  <1> QED
    BY <1>7, <1>8, <1>9
-----------------------------------------------------------------------------
(* What the handlers do. *)

(* The entry e and the answers s that a segment leaves.                    *)
Handled(seq, data, fin, e, s) ==
  /\ e.ex /\ e.conn = nat.conn /\ (e.st = "closing" <=> nat.st = "closing")
  /\ nat' = IF fin THEN NoEntry ELSE e
  /\ tunOut' = tunOut \o s
  /\ ~fin => \A i \in 1..Len(s) : s[i].ack = e.cnext
  /\ IF data # <<>> /\ seq = nat.cnext
     THEN /\ e.cnext = Sq(seq + Len(data))
          /\ taken' = taken + Len(data)
          /\ nat.st = "closing" => fwd' = fwd /\ e.pend = nat.pend
          /\ nat.st # "closing" /\ nat.conn => fwd' = fwd \o data /\ e.pend = nat.pend
          /\ nat.st # "closing" /\ ~nat.conn => fwd' = fwd /\ e.pend = nat.pend \o data
     ELSE /\ e.cnext = nat.cnext /\ e.pend = nat.pend
          /\ taken' = taken /\ fwd' = fwd

LEMMA SegmentHandled ==
  ASSUME Typed, nat.ex,
         NEW seq \in 0..(Modulus - 1), NEW data \in Seq(1..MaxUp), NEW fin \in BOOLEAN,
         HandleSegment(seq, data, fin)
  PROVE  /\ \E e \in EntryState, s \in Seq(SegmentState) : Handled(seq, data, fin, e, s)
         /\ ended' \in BOOLEAN /\ server' = server /\ late' = late
  <1> DEFINE closing == nat.st = "closing"
             take    == data # <<>> /\ InOrder(nat, seq)
             toRelay == take /\ ~closing /\ nat.conn
             st == IF nat.st = "syn" THEN "est" ELSE nat.st
             cn == IF take THEN Sq(seq + Len(data)) ELSE nat.cnext
             pd == IF take /\ ~closing /\ ~nat.conn THEN nat.pend \o data ELSE nat.pend
             e1 == [nat EXCEPT !.st = st, !.cnext = cn, !.pend = pd]
             ack1 == IF data # <<>> \/ (~fin /\ seq # nat.cnext)
                     THEN <<Segment("ack", e1.onext, e1.cnext, <<>>)>>
                     ELSE <<>>
             ack2 == IF fin
                     THEN <<Segment(IF closing THEN "ack" ELSE "fin",
                                    e1.onext, Sq(e1.cnext + 1), <<>>)>>
                     ELSE <<>>
  <1>1. /\ nat' = IF fin THEN AfterFin(e1) ELSE e1
        /\ tunOut' = tunOut \o ack1 \o ack2
        /\ taken' = IF take THEN taken + Len(data) ELSE taken
        /\ fwd' = IF toRelay THEN fwd \o data ELSE fwd
        /\ ended' = (ended \/ (fin /\ ~closing))
        /\ server' = server /\ late' = late
    BY DEF HandleSegment
  <1>2. nat \in EntryState /\ tunOut \in Seq(SegmentState) /\ ended \in BOOLEAN
    BY DEF Typed
  <1>3. Len(data) \in Nat /\ seq + Len(data) \in Nat
    BY LenProperties, Capacities
  <1>4. st \in {"syn", "est", "closing"} /\ (st = "closing" <=> nat.st = "closing")
    BY <1>2 DEF EntryState
  <1>5. cn \in 0..(Modulus - 1)
    BY <1>2, <1>3, SqType, EntryFields
  <1>6. pd \in Seq(1..MaxUp)
    BY <1>2, ConcatProperties, EntryFields
  <1>7. /\ e1 \in EntryState
        /\ e1.ex = nat.ex /\ e1.conn = nat.conn /\ e1.onext = nat.onext
        /\ e1.st = st /\ e1.cnext = cn /\ e1.pend = pd
    <2> HIDE DEF st, cn, pd
    <2>1. e1 \in EntryState
      BY <1>2, <1>4, <1>5, <1>6, EntryChanges
    <2> QED
      BY <1>2, <2>1 DEF EntryState
  <1>8. /\ ack1 \in Seq(SegmentState)
        /\ \A i \in 1..Len(ack1) : ack1[i].ack = e1.cnext
    <2> HIDE DEF e1
    <2>1. e1.onext \in 0..(Modulus - 1) /\ e1.cnext \in 0..(Modulus - 1)
      BY <1>7, EntryFields
    <2> DEFINE a == <<Segment("ack", e1.onext, e1.cnext, <<>>)>>
    <2>2. a \in Seq(SegmentState) /\ Len(a) = 1 /\ a[1].ack = e1.cnext
      BY <2>1, SignalType
    <2>3. <<>> \in Seq(SegmentState) /\ Len(<<>>) = 0
      OBVIOUS
    <2>4. ack1 = a \/ ack1 = <<>>
      OBVIOUS
    <2> HIDE DEF a, ack1
    <2>7. a \in Seq(SegmentState) /\ \A i \in 1..Len(a) : a[i].ack = e1.cnext
      BY ONLY <2>2
    <2>8. <<>> \in Seq(SegmentState) /\ \A i \in 1..Len(<<>>) : <<>>[i].ack = e1.cnext
      BY ONLY <2>3
    <2>5. CASE ack1 = a
      BY ONLY <2>7, <2>5, Zenon
    <2>6. CASE ack1 = <<>>
      BY ONLY <2>8, <2>6, Zenon
    <2> QED
      BY <2>4, <2>5, <2>6, Zenon
  <1>9. ack2 \in Seq(SegmentState) /\ (~fin => ack2 = <<>>)
    <2> HIDE DEF e1
    <2>0. e1.onext \in 0..(Modulus - 1) /\ e1.cnext + 1 \in Nat
      BY <1>7, EntryFields
    <2>1. e1.onext \in 0..(Modulus - 1) /\ Sq(e1.cnext + 1) \in 0..(Modulus - 1)
      BY <2>0, SqType
    <2> DEFINE k == IF closing THEN "ack" ELSE "fin"
               n == Sq(e1.cnext + 1)
    <2>2. k \in {"synack", "ack", "data", "fin", "rst"} /\ n \in 0..(Modulus - 1)
      BY <2>1
    <2> HIDE DEF k, n
    <2>3. <<Segment(k, e1.onext, n, <<>>)>> \in Seq(SegmentState)
      BY <2>1, <2>2, SignalType
    <2>4. <<>> \in Seq(SegmentState)
      OBVIOUS
    <2> QED
      BY <2>3, <2>4 DEF k, n
  <1> HIDE DEF e1, st, cn, pd, ack1, ack2
  <1> DEFINE s == ack1 \o ack2
  <1>10. s \in Seq(SegmentState)
    BY <1>8, <1>9, ConcatProperties
  <1>11. tunOut' = tunOut \o s
    BY <1>1, <1>2, <1>8, <1>9, ConcatAssociative
  <1>12. ~fin => \A i \in 1..Len(s) : s[i].ack = e1.cnext
    BY <1>8, <1>9, ConcatEmptySeq
  <1> HIDE DEF s
  <1>13. Handled(seq, data, fin, e1, s)
    <2>1. nat' = IF fin THEN NoEntry ELSE e1
      BY <1>1 DEF AfterFin
    <2>2. CASE data # <<>> /\ seq = nat.cnext
      <3>1. take /\ cn = Sq(seq + Len(data))
        BY <2>2 DEF InOrder, cn
      <3>2. pd = IF ~closing /\ ~nat.conn THEN nat.pend \o data ELSE nat.pend
        BY <3>1 DEF pd
      <3> QED
        BY <1>1, <1>4, <1>7, <1>11, <1>12, <2>1, <2>2, <3>1, <3>2 DEF Handled
    <2>3. CASE ~(data # <<>> /\ seq = nat.cnext)
      <3>1. ~take /\ cn = nat.cnext /\ pd = nat.pend
        BY <2>3 DEF InOrder, cn, pd
      <3> QED
        BY <1>1, <1>4, <1>7, <1>11, <1>12, <2>1, <2>3, <3>1 DEF Handled
    <2> QED
      BY <2>2, <2>3
  <1>14. ended' \in BOOLEAN
    BY <1>1, <1>2, Zenon
  <1> QED
    BY <1>1, <1>7, <1>10, <1>13, <1>14

(* A step that takes nothing from the client and answers with s.           *)
Keeps(s) ==
  /\ nat' \in EntryState /\ fwd' \in Seq(1..MaxUp) /\ taken' = taken
  /\ s \in Seq(SegmentState) /\ tunOut' = tunOut \o s
  /\ \A i \in 1..Len(s) : s[i].ack = nat.cnext
  /\ ~nat.ex => s = <<>>
  /\ nat'.ex => nat.ex /\ nat'.cnext = nat.cnext /\ (nat.st = "closing" => nat'.st = "closing")
  /\ \/ ~nat'.ex /\ nat'.pend = <<>> /\ fwd' = fwd
     \/ /\ nat'.ex = nat.ex /\ nat'.conn = nat.conn
        /\ nat'.pend = nat.pend /\ fwd' = fwd
     \/ nat.ex /\ nat'.pend = <<>> /\ fwd' = fwd \o nat.pend

LEMMA KeepsAll ==
  ASSUME Typed, nat' = nat, fwd' = fwd, taken' = taken, tunOut' = tunOut
  PROVE  Keeps(<<>>)
  <1>1. <<>> \in Seq(SegmentState) /\ tunOut \o <<>> = tunOut /\ Len(<<>>) = 0
    BY ConcatEmptySeq DEF Typed
  <1>2. \A i \in 1..Len(<<>>) : <<>>[i].ack = nat.cnext
    BY <1>1
  <1> QED
    BY <1>1, <1>2 DEF Typed, Keeps

LEMMA KeepsNoEntry ==
  ASSUME Typed, nat' = NoEntry, fwd' = fwd, taken' = taken, tunOut' = tunOut
  PROVE  Keeps(<<>>)
  <1>1. <<>> \in Seq(SegmentState) /\ tunOut \o <<>> = tunOut /\ Len(<<>>) = 0
    BY ConcatEmptySeq DEF Typed
  <1>2. \A i \in 1..Len(<<>>) : <<>>[i].ack = nat.cnext
    BY <1>1
  <1> QED
    BY <1>1, <1>2, NoEntryType DEF Typed, Keeps

(* The client has sent its RST or has closed.                              *)
LEMMA RstHandled ==
  ASSUME Typed, HandleRst
  PROVE  Keeps(<<>>) /\ ended' \in BOOLEAN
  <1>1. nat' = NoEntry /\ fwd' = fwd /\ taken' = taken /\ tunOut' = tunOut
    BY DEF HandleRst
  <1>2. ended' \in BOOLEAN
    BY Zenon DEF HandleRst, Typed
  <1> QED
    BY <1>1, <1>2, KeepsNoEntry

LEMMA ConnectedHandled ==
  ASSUME Typed, OnConnected
  PROVE  Keeps(<<>>) /\ UNCHANGED <<client, syns, taken, ended>>
  <1>1. UNCHANGED <<client, syns, taken, ended>> /\ tunOut' = tunOut
    BY DEF OnConnected
  <1>2. CASE ~nat.ex
    BY <1>1, <1>2, KeepsAll DEF OnConnected
  <1>3. CASE nat.ex
    <2>1. <<>> \in Seq(SegmentState) /\ tunOut \o <<>> = tunOut /\ Len(<<>>) = 0
      BY ConcatEmptySeq DEF Typed
    <2>2. \A i \in 1..Len(<<>>) : <<>>[i].ack = nat.cnext
      BY <2>1
    <2>3. nat' = [nat EXCEPT !.conn = TRUE, !.pend = <<>>] /\ fwd' = fwd \o nat.pend
      BY <1>3 DEF OnConnected
    <2>4. /\ nat' \in EntryState /\ nat'.ex /\ nat'.pend = <<>>
          /\ nat'.cnext = nat.cnext /\ nat'.st = nat.st
      <3>1. <<>> \in Seq(1..MaxUp)
        OBVIOUS
      <3> QED
        BY <1>3, <2>3, <3>1 DEF Typed, EntryState
    <2>5. fwd \in Seq(1..MaxUp) /\ nat.pend \in Seq(1..MaxUp)
      BY EntryFields DEF Typed
    <2>6. fwd' \in Seq(1..MaxUp)
      BY <2>3, <2>5, ConcatProperties
    <2> QED
      BY <1>1, <1>3, <2>1, <2>2, <2>3, <2>4, <2>6 DEF Keeps
  <1> QED
    BY <1>2, <1>3

LEMMA ResetHandled ==
  ASSUME Typed, OnReset
  PROVE  /\ \E s \in Seq(SegmentState) : Keeps(s)
         /\ UNCHANGED <<client, syns, taken, ended>>
  <1>1. UNCHANGED <<client, syns, taken, ended, fwd>> /\ nat' = NoEntry
    BY DEF OnReset, upstream
  <1>2. CASE ~nat.ex
    <2>1. Keeps(<<>>)
      BY <1>1, <1>2, KeepsNoEntry DEF OnReset
    <2>2. <<>> \in Seq(SegmentState)
      OBVIOUS
    <2> QED
      BY <1>1, <2>1, <2>2
  <1>3. CASE nat.ex
    <2> DEFINE s == <<Segment("rst", nat.onext, nat.cnext, <<>>)>>
    <2>1. nat.onext \in 0..(Modulus - 1) /\ nat.cnext \in 0..(Modulus - 1)
          /\ tunOut \in Seq(SegmentState)
      BY EntryFields DEF Typed
    <2>2. /\ s \in Seq(SegmentState) /\ Len(s) = 1 /\ s[1].ack = nat.cnext
          /\ Append(tunOut, Segment("rst", nat.onext, nat.cnext, <<>>)) = tunOut \o s
      BY <2>1, SignalType
    <2>3. tunOut' = tunOut \o s
      BY <1>3, <2>2 DEF OnReset
    <2> HIDE DEF s
    <2>4. \A i \in 1..Len(s) : s[i].ack = nat.cnext
      BY ONLY <2>2
    <2>5. Keeps(s)
      BY <1>1, <1>3, <2>2, <2>3, <2>4, NoEntryType DEF Keeps, Typed
    <2> QED
      BY <1>1, <2>2, <2>5
  <1> QED
    BY <1>2, <1>3

LEMMA DataHandled ==
  ASSUME Typed, NEW data \in Seq(0..MaxDown), data # <<>>, OnData(data)
  PROVE  /\ \E s \in Seq(SegmentState) : Keeps(s)
         /\ UNCHANGED <<client, syns, taken, ended>>
  <1>1. UNCHANGED <<client, syns, taken, ended, fwd>>
    BY DEF OnData, upstream
  <1>2. CASE ~nat.ex
    <2>1. Keeps(<<>>)
      BY <1>1, <1>2, KeepsAll DEF OnData
    <2>2. <<>> \in Seq(SegmentState)
      OBVIOUS
    <2> QED
      BY <1>1, <2>1, <2>2
  <1>3. CASE nat.ex
    <2> DEFINE s == Chunks(nat, data)
               o == Advance(nat.onext, Len(data))
    <2>1. nat \in EntryState /\ nat.onext + Len(data) \in Nat
      BY EntryFields, LenProperties DEF Typed
    <2>2. s \in Seq(SegmentState) /\ \A i \in 1..Len(s) : s[i].ack = nat.cnext
      BY <2>1, ChunksType
    <2>3. o \in 0..(Modulus - 1)
      BY <2>1, SqType DEF Advance
    <2>4. tunOut' = tunOut \o s /\ nat' = [nat EXCEPT !.onext = o]
      BY <1>3 DEF OnData
    <2> HIDE DEF s, o
    <2>5. /\ nat' \in EntryState /\ nat'.ex = nat.ex /\ nat'.pend = nat.pend
          /\ nat'.cnext = nat.cnext /\ nat'.st = nat.st /\ nat'.conn = nat.conn
      BY <2>1, <2>3, <2>4 DEF EntryState
    <2>6. Keeps(s)
      BY <1>1, <1>3, <2>2, <2>4, <2>5 DEF Keeps, Typed
    <2> QED
      BY <1>1, <2>2, <2>6
  <1> QED
    BY <1>2, <1>3

LEMMA ShutdownHandled ==
  ASSUME Typed, OnShutdown
  PROVE  /\ \E s \in Seq(SegmentState) : Keeps(s)
         /\ UNCHANGED <<client, syns, taken, ended>>
  <1>1. UNCHANGED <<client, syns, taken, ended, fwd>>
    BY DEF OnShutdown, upstream
  <1>2. CASE ~nat.ex
    <2>1. Keeps(<<>>)
      BY <1>1, <1>2, KeepsAll DEF OnShutdown
    <2>2. <<>> \in Seq(SegmentState)
      OBVIOUS
    <2> QED
      BY <1>1, <2>1, <2>2
  <1>3. CASE nat.ex
    <2> DEFINE s == <<Segment("fin", nat.onext, nat.cnext, <<>>)>>
               o == Sq(nat.onext + 1)
    <2>1. nat.onext \in 0..(Modulus - 1) /\ nat.cnext \in 0..(Modulus - 1)
          /\ nat.onext + 1 \in Nat /\ tunOut \in Seq(SegmentState)
      BY EntryFields DEF Typed
    <2>2. /\ s \in Seq(SegmentState) /\ Len(s) = 1 /\ s[1].ack = nat.cnext
          /\ Append(tunOut, Segment("fin", nat.onext, nat.cnext, <<>>)) = tunOut \o s
      BY <2>1, SignalType
    <2>3. o \in 0..(Modulus - 1)
      BY <2>1, SqType
    <2>4. tunOut' = tunOut \o s /\ nat' = [nat EXCEPT !.onext = o, !.st = "closing"]
      BY <1>3, <2>2 DEF OnShutdown
    <2> HIDE DEF s, o
    <2>5. \A i \in 1..Len(s) : s[i].ack = nat.cnext
      BY ONLY <2>2
    <2>6. /\ nat' \in EntryState /\ nat'.ex = nat.ex /\ nat'.pend = nat.pend
          /\ nat'.cnext = nat.cnext /\ nat'.st = "closing" /\ nat'.conn = nat.conn
      BY <2>3, <2>4 DEF Typed, EntryState
    <2>7. Keeps(s)
      BY <1>1, <1>3, <2>2, <2>4, <2>5, <2>6 DEF Keeps, Typed
    <2> QED
      BY <1>1, <2>2, <2>7
  <1> QED
    BY <1>2, <1>3
-----------------------------------------------------------------------------
(* Steps that take nothing preserve the invariant. *)

LEMMA GivenType ==
  ASSUME Typed
  PROVE  /\ fwd \in Seq(Nat) /\ nat.pend \in Seq(Nat) /\ Given \in Seq(Nat)
         /\ Len(Given) \in Nat /\ taken \in Nat
  <1>1. 1..MaxUp \subseteq Nat /\ taken \in Nat
    BY Capacities DEF Typed
  <1>2. fwd \in Seq(1..MaxUp) /\ nat.pend \in Seq(1..MaxUp)
    BY EntryFields DEF Typed
  <1>3. fwd \in Seq(Nat) /\ nat.pend \in Seq(Nat)
    BY <1>1, <1>2, SeqMonotonic
  <1>4. Given \in Seq(Nat)
    BY <1>3, ConcatProperties DEF Given
  <1> QED
    BY <1>1, <1>3, <1>4, LenProperties

LEMMA KeepsForwarding ==
  ASSUME Typed, Forwarding, NEW s, Keeps(s),
         client'.st # "closed" => client.st # "closed" /\ client'.isn = client.isn
  PROVE  Forwarding'
  <1> DEFINE G == fwd' \o nat'.pend
  <1>1. fwd \in Seq(Nat) /\ nat.pend \in Seq(Nat) /\ Given \in Seq(Nat)
        /\ Given = fwd \o nat.pend /\ Given = Bytes(1, Len(Given))
    BY GivenType DEF Forwarding, Given
  <1>2. /\ G = Bytes(1, Len(G))
        /\ nat'.ex => G = Given
        /\ nat'.conn \/ ~nat'.ex => nat'.pend = <<>>
    <2>1. CASE ~nat'.ex /\ nat'.pend = <<>> /\ fwd' = fwd
      <3>1. G = fwd
        BY <1>1, <2>1, ConcatEmptySeq
      <3>2. fwd = Bytes(1, Len(fwd))
        <4>1. fwd \o nat.pend = Bytes(1, Len(fwd \o nat.pend))
          BY <1>1, Zenon
        <4> QED
          BY <1>1, <4>1, BytesPrefix
      <3> QED
        BY <2>1, <3>1, <3>2
    <2>2. CASE /\ nat'.ex = nat.ex /\ nat'.conn = nat.conn
               /\ nat'.pend = nat.pend /\ fwd' = fwd
      <3>1. G = Given
        BY <1>1, <2>2, Zenon
      <3>2. nat'.conn \/ ~nat'.ex => nat'.pend = <<>>
        BY <2>2 DEF Forwarding
      <3> QED
        BY <1>1, <3>1, <3>2, Zenon
    <2>3. CASE nat.ex /\ nat'.pend = <<>> /\ fwd' = fwd \o nat.pend
      <3>1. G = Given \o <<>>
        BY <1>1, <2>3, Zenon
      <3>2. G = Given
        BY <1>1, <3>1, ConcatEmptySeq
      <3> QED
        BY <1>1, <2>3, <3>2, Zenon
    <2> QED
      BY <2>1, <2>2, <2>3 DEF Keeps
  <1>3. Given' = G
    BY DEF Given
  <1> HIDE DEF G
  <1>4. nat'.ex /\ nat'.st # "closing" => Len(G) = taken'
    BY <1>2 DEF Keeps, Forwarding
  <1>5. nat'.ex /\ client'.st # "closed" => nat'.cnext = Sq(client'.isn + 1 + taken')
    BY DEF Keeps, Forwarding
  <1> QED
    BY <1>2, <1>3, <1>4, <1>5, Zenon DEF Forwarding

LEMMA KeepsAcks ==
  ASSUME Typed, IInv, NEW s, Keeps(s), client' = client
  PROVE  /\ client'.st = "syn" => Opening'
         /\ client'.st = "est" /\ (nat'.ex \/ ~client'.fin) => Acknowledged'
  <1> DEFINE w == tunOut \o s
  <1>1. /\ tunOut \in Seq(SegmentState) /\ s \in Seq(SegmentState)
        /\ tunOut' = w /\ taken' = taken
    BY DEF Typed, Keeps
  <1>2. /\ Len(tunOut) \in Nat /\ Len(s) \in Nat /\ Len(w) = Len(tunOut) + Len(s)
        /\ \A i \in 1..Len(w) :
             w[i] = IF i <= Len(tunOut) THEN tunOut[i] ELSE s[i - Len(tunOut)]
    BY <1>1, ConcatProperties, LenProperties
  <1> HIDE DEF w
  <1>3. ASSUME client.st # "closed"
        PROVE  \A i \in 1..Len(s) : s[i].ack = Sq(client.isn + 1 + taken)
    <2>1. CASE nat.ex
      BY <1>3, <2>1 DEF Keeps, IInv, Forwarding
    <2>2. CASE ~nat.ex
      <3>1. s = <<>> /\ Len(<<>>) = 0
        BY <2>2 DEF Keeps
      <3> QED
        BY <3>1
    <2> QED
      BY <2>1, <2>2
  <1>4. ASSUME client.st = "syn"
        PROVE  Opening'
    <2>1. Opening
      BY <1>4 DEF IInv
    <2>2. client.isn \in Nat
      BY ClientFields DEF Typed
    <2>3. client.isn + 1 + taken = client.isn + 1
      BY <2>1, <2>2 DEF Opening
    <2>4. \A i \in 1..Len(s) : s[i].ack = Sq(client.isn + 1)
      BY <1>3, <1>4, <2>3, Zenon
    <2>5. ASSUME NEW i \in 1..Len(w), NEW j \in 1..Len(w), i < j,
                 w[i].kind = "synack", w[i].ack = Sq(client.isn + 1)
          PROVE  w[j].ack = Sq(client.isn + 1)
      <3>1. CASE j <= Len(tunOut)
        <4>1. i \in 1..Len(tunOut) /\ j \in 1..Len(tunOut)
              /\ w[i] = tunOut[i] /\ w[j] = tunOut[j]
          BY <1>2, <2>5, <3>1
        <4> QED
          BY <2>1, <2>5, <4>1 DEF Opening
      <3>2. CASE j > Len(tunOut)
        <4>1. j - Len(tunOut) \in 1..Len(s) /\ w[j] = s[j - Len(tunOut)]
          BY <1>2, <3>2
        <4> QED
          BY <2>4, <4>1
      <3> QED
        BY <1>2, <3>1, <3>2
    <2> QED
      BY <1>1, <2>1, <2>5 DEF Opening
  <1>5. ASSUME client.st = "est", nat'.ex \/ ~client.fin
        PROVE  Acknowledged'
    <2>1. Acknowledged
      BY <1>5 DEF IInv, Keeps
    <2>2. client.isn \in Nat /\ client.una \in Nat /\ taken \in Nat
      BY ClientFields, GivenType DEF Typed
    <2>3. Acknowledge(w, client.isn, client.una, taken)
      <3>1. /\ Acknowledge(tunOut, client.isn, client.una, taken)
            /\ client.una <= taken /\ taken <= taken
        BY <2>1, <2>2 DEF Acknowledged
      <3>2. \A i \in 1..Len(s) : s[i].ack = Sq(client.isn + 1 + taken)
        BY <1>3, <1>5
      <3> QED
        BY <1>1, <2>2, <3>1, <3>2, AcknowledgeMore DEF w
    <2> QED
      BY <1>1, <2>1, <2>3 DEF Acknowledged
  <1> QED
    BY <1>4, <1>5

LEMMA KeepsInv ==
  ASSUME Typed, IInv, NEW s, Keeps(s),
         client' = client \/ client'.st = "closed"
  PROVE  IInv'
  <1>1. Forwarding'
    BY KeepsForwarding DEF IInv
  <1>2. CASE client'.st = "closed"
    BY <1>1, <1>2 DEF IInv
  <1>3. CASE client' = client
    BY <1>1, <1>3, KeepsAcks DEF IInv
  <1> QED
    BY <1>2, <1>3
-----------------------------------------------------------------------------
(* The client's segments preserve the invariant. *)

(* What a segment with payload from a to b can be when the entry expects   *)
(* it: it starts right after the bytes taken.                              *)
LEMMA ExpectedBytes ==
  ASSUME Typed, IInv, client.st = "est", nat.ex,
         NEW a \in (client.una + 1)..(client.nxt + 1), NEW b \in Nat, a <= b + 1,
         Sq(client.isn + a) = nat.cnext
  PROVE  /\ a = taken + 1
         /\ taken + Len(Bytes(a, b)) = b
         /\ Bytes(a, b) = Bytes(taken + 1, taken + Len(Bytes(a, b)))
  <1>1. /\ client.isn \in Nat /\ client.una \in Nat /\ client.nxt \in Nat
        /\ taken \in Nat /\ a \in Nat
    BY ClientFields, GivenType DEF Typed
  <1>2. /\ client.una <= taken /\ taken <= client.nxt
        /\ client.nxt <= client.una + Window
        /\ nat.cnext = Sq(client.isn + 1 + taken)
    BY DEF IInv, Acknowledged, Forwarding
  <1> DEFINE x == client.isn + a
             y == client.isn + 1 + taken
  <1>3. /\ x \in Nat /\ y \in Nat
        /\ x < y + Modulus /\ y < x + Modulus
    BY <1>1, <1>2, Capacities
  <1>4. Sq(x) = Sq(y)
    BY <1>2
  <1> HIDE DEF x, y
  <1>5. x = y
    <2>1. CASE x <= y
      BY <1>3, <1>4, <2>1, SameNumber
    <2>2. CASE y <= x
      BY <1>3, <1>4, <2>2, SameNumber
    <2> QED
      BY <1>3, <2>1, <2>2
  <1>6. a = taken + 1
    BY <1>1, <1>5 DEF x, y
  <1>7. Len(Bytes(a, b)) = b + 1 - a
    BY <1>1, BytesProperties
  <1>8. taken + Len(Bytes(a, b)) = b
    BY <1>1, <1>6, <1>7
  <1> QED
    BY <1>6, <1>8, Zenon

(* A segment that the entry expects brings the bytes after those taken.    *)
Brings(seq, data, most) ==
  nat.ex /\ data # <<>> /\ seq = nat.cnext =>
    /\ data = Bytes(taken + 1, taken + Len(data))
    /\ taken + Len(data) <= most

(* The client may have sent more meanwhile, or its FIN.                    *)
ClientGoesOn ==
  /\ client' \in ClientState
  /\ client'.st = "est" /\ client'.isn = client.isn /\ client'.una = client.una
  /\ client.nxt <= client'.nxt
  /\ client.nxt <= client.una + Window => client'.nxt <= client.una + Window
  /\ client.fin => client'.fin

LEMMA SegmentIgnored ==
  ASSUME Typed, IInv, client.st = "est", ClientGoesOn,
         UNCHANGED <<nat, tunOut, server, late, upstream>>
  PROVE  IInv'
  <1>1. nat' = nat /\ tunOut' = tunOut /\ taken' = taken /\ fwd' = fwd
    BY DEF upstream
  <1>2. Forwarding'
    BY <1>1, KeepsAll, KeepsForwarding DEF ClientGoesOn, IInv
  <1>3. ASSUME nat'.ex \/ ~client'.fin
        PROVE  Acknowledged'
    <2>1. Acknowledged
      BY <1>1, <1>3 DEF IInv, ClientGoesOn
    <2>2. client.una \in Nat /\ client.nxt \in Nat /\ client'.nxt \in Nat /\ taken \in Nat
      BY ClientFields, GivenType DEF Typed, ClientGoesOn
    <2>3. client'.una <= taken' /\ taken' <= client'.nxt
          /\ client'.nxt <= client'.una + Window
      BY <1>1, <2>1, <2>2 DEF Acknowledged, ClientGoesOn
    <2> QED
      BY <1>1, <2>1, <2>3 DEF Acknowledged, ClientGoesOn
  <1> QED
    BY <1>2, <1>3 DEF IInv, ClientGoesOn

LEMMA SegmentTaken ==
  ASSUME Typed, IInv, client.st = "est", nat.ex, ClientGoesOn,
         NEW seq \in 0..(Modulus - 1), NEW data \in Seq(1..MaxUp), NEW fin \in BOOLEAN,
         fin => client'.fin,
         Brings(seq, data, client'.nxt),
         NEW e \in EntryState, NEW s \in Seq(SegmentState), Handled(seq, data, fin, e, s)
  PROVE  /\ IInv'
         /\ nat' \in EntryState /\ tunOut' \in Seq(SegmentState)
         /\ taken' \in 0..MaxUp /\ fwd' \in Seq(1..MaxUp)
  <1> DEFINE G == fwd' \o e.pend
             takes == data # <<>> /\ seq = nat.cnext
  <1>1. /\ nat.pend \in Seq(1..MaxUp) /\ fwd \in Seq(1..MaxUp)
        /\ e.pend \in Seq(1..MaxUp) /\ Len(data) \in Nat
        /\ tunOut \in Seq(SegmentState)
    BY EntryFields, LenProperties DEF Typed
  <1>2. /\ client.isn \in Nat /\ client.una \in Nat /\ client.nxt \in Nat
        /\ client'.nxt \in 0..MaxUp /\ client'.nxt \in Nat /\ taken \in Nat
    <2>1. client'.nxt \in 0..MaxUp
      BY DEF ClientGoesOn, ClientState
    <2> QED
      BY <2>1, ClientFields, GivenType, Capacities DEF Typed
  <1>3. /\ Given = fwd \o nat.pend /\ Given \in Seq(Nat) /\ Len(Given) \in Nat
        /\ Given = Bytes(1, Len(Given))
        /\ nat.conn => nat.pend = <<>>
        /\ nat.st # "closing" => Len(Given) = taken
        /\ nat.cnext = Sq(client.isn + 1 + taken)
    BY GivenType DEF IInv, Forwarding, Given
  <1>4. Acknowledged
    BY DEF IInv
  <1>5. fwd' \in Seq(1..MaxUp)
    <2>1. fwd \o data \in Seq(1..MaxUp)
      BY <1>1, ConcatProperties
    <2>2. fwd' = fwd \/ fwd' = fwd \o data
      BY Zenon DEF Handled
    <2> QED
      BY <1>1, <2>1, <2>2
  <1>6. tunOut' \in Seq(SegmentState)
    BY <1>1, ConcatProperties DEF Handled
  <1>7. nat' \in EntryState
    BY NoEntryType DEF Handled
  <1>8. /\ taken' \in 0..MaxUp /\ taken' \in Nat
        /\ taken <= taken' /\ taken' <= client'.nxt
        /\ taken' = IF takes THEN taken + Len(data) ELSE taken
    <2> DEFINE t == IF takes THEN taken + Len(data) ELSE taken
               m == client'.nxt
    <2>1. taken' = t
      BY Zenon DEF Handled
    <2>2. taken <= client.nxt /\ client.nxt <= m
      BY <1>4 DEF Acknowledged, ClientGoesOn
    <2>3. m \in 0..MaxUp /\ m \in Nat
      BY <1>2
    <2>4. takes => taken + Len(data) <= m
      BY DEF Brings
    <2> HIDE DEF m
    <2>5. t \in Nat /\ taken <= t /\ t <= m
      BY <1>1, <1>2, <2>2, <2>3, <2>4
    <2> HIDE DEF t
    <2>6. t \in 0..MaxUp
      BY <2>3, <2>5, Capacities
    <2> QED
      BY <2>1, <2>5, <2>6, Zenon DEF t, m
  <1>9. /\ G = Bytes(1, Len(G))
        /\ nat.conn => e.pend = <<>>
        /\ nat.st # "closing" => Len(G) = taken'
    <2>1. CASE takes /\ nat.st # "closing"
      <3>1. nat.conn => e.pend = <<>>
        BY <1>3, <2>1 DEF Handled
      <3>2. G = Given \o data
        <4>1. CASE nat.conn
          <5>1. fwd' = fwd \o data /\ e.pend = <<>> /\ nat.pend = <<>>
            BY <1>3, <2>1, <4>1 DEF Handled
          <5>2. fwd \o data \in Seq(1..MaxUp)
            BY <1>1, ConcatProperties
          <5>3. G = fwd \o data /\ Given = fwd
            BY <1>1, <1>3, <5>1, <5>2, ConcatEmptySeq
          <5> QED
            BY <5>3, Zenon
        <4>2. CASE ~nat.conn
          <5>1. fwd' = fwd /\ e.pend = nat.pend \o data
            BY <2>1, <4>2 DEF Handled
          <5>2. G = fwd \o (nat.pend \o data)
            BY <5>1, Zenon
          <5>3. (fwd \o nat.pend) \o data = fwd \o (nat.pend \o data)
            <6> DEFINE p == nat.pend
                       S == 1..MaxUp
            <6>1. fwd \in Seq(S) /\ p \in Seq(S) /\ data \in Seq(S)
              BY <1>1
            <6> HIDE DEF p, S
            <6>2. (fwd \o p) \o data = fwd \o (p \o data)
              BY <6>1, ConcatAssociative
            <6> QED
              BY <6>2 DEF p
          <5> QED
            BY <1>3, <5>2, <5>3, Zenon
        <4> QED
          BY <4>1, <4>2
      <3>3. data = Bytes(taken + 1, taken + Len(data)) /\ Given = Bytes(1, taken)
            /\ taken' = taken + Len(data)
        <4>1. /\ data = Bytes(taken + 1, taken + Len(data))
              /\ taken' = taken + Len(data)
          BY <2>1 DEF Brings, Handled
        <4>2. Given = Bytes(1, taken)
          BY <1>3, <2>1, Zenon
        <4> QED
          BY <4>1, <4>2
      <3> DEFINE t == taken + Len(data)
      <3>4. t \in Nat /\ taken <= t
        BY <1>1, <1>2
      <3>5. Bytes(1, taken) \o Bytes(taken + 1, t) = Bytes(1, t)
        BY <1>2, <3>4, BytesJoin
      <3>6. G = Bytes(1, t)
        BY <3>2, <3>3, <3>5, Zenon
      <3>7. Len(Bytes(1, t)) = t
        BY <3>4, FirstBytes
      <3> QED
        BY <3>1, <3>3, <3>6, <3>7, Zenon
    <2>2. CASE ~(takes /\ nat.st # "closing")
      <3>1. fwd' = fwd /\ e.pend = nat.pend
        BY <2>2 DEF Handled
      <3>2. G = Given
        BY <1>3, <3>1, Zenon
      <3>3. nat.st # "closing" => taken' = taken
        BY <2>2, <1>8
      <3> QED
        BY <1>3, <3>1, <3>2, <3>3, Zenon
    <2> QED
      BY <2>1, <2>2
  <1>10. e.cnext = Sq(client.isn + 1 + taken')
    <2>1. CASE takes
      <3> DEFINE x == client.isn + 1 + taken
      <3>1. x \in Nat /\ x + Len(data) = client.isn + 1 + taken'
        <4>1. taken' = taken + Len(data)
          BY <1>8, <2>1
        <4> DEFINE l == Len(data)
        <4>2. l \in Nat /\ taken' = taken + l
          BY <1>1, <4>1
        <4> HIDE DEF l
        <4>3. x \in Nat /\ x + l = client.isn + 1 + taken'
          BY ONLY <1>2, <4>2
        <4> QED
          BY <4>3 DEF l
      <3>2. e.cnext = Sq(seq + Len(data)) /\ seq = Sq(x)
        BY <1>3, <2>1 DEF Handled
      <3> HIDE DEF x
      <3>3. Sq(Sq(x) + Len(data)) = Sq(x + Len(data))
        BY <1>1, <3>1, CountOn
      <3> QED
        BY <3>1, <3>2, <3>3, Zenon
    <2>2. CASE ~takes
      BY <1>3, <1>8, <2>2 DEF Handled
    <2> QED
      BY <2>1, <2>2
  <1>11. Forwarding'
    <2>1. CASE ~fin
      <3>1. nat' = e /\ e.ex /\ e.conn = nat.conn /\ (e.st = "closing" <=> nat.st = "closing")
        BY <2>1 DEF Handled
      <3>2. Given' = G
        BY <3>1 DEF Given
      <3> HIDE DEF G
      <3>3. nat'.conn \/ ~nat'.ex => nat'.pend = <<>>
        BY <1>9, <3>1
      <3>4. nat'.ex /\ nat'.st # "closing" => Len(G) = taken'
        BY <1>9, <3>1
      <3>5. nat'.cnext = Sq(client'.isn + 1 + taken')
        BY <1>10, <3>1 DEF ClientGoesOn
      <3> QED
        BY <1>9, <3>2, <3>3, <3>4, <3>5, Zenon DEF Forwarding
    <2>2. CASE fin
      <3>1. nat' = NoEntry /\ ~nat'.ex /\ nat'.pend = <<>>
        BY <2>2, NoEntryType DEF Handled
      <3>2. fwd' \in Seq(Nat) /\ e.pend \in Seq(Nat)
        <4>1. 1..MaxUp \subseteq Nat
          BY Capacities
        <4> QED
          BY <1>1, <1>5, <4>1, SeqMonotonic
      <3>3. fwd' \o e.pend = Bytes(1, Len(fwd' \o e.pend))
        BY <1>9
      <3>4. fwd' = Bytes(1, Len(fwd'))
        BY <3>2, <3>3, BytesPrefix
      <3>5. Given' = fwd'
        <4>1. Given' = fwd' \o <<>>
          BY <3>1 DEF Given
        <4> QED
          BY <3>2, <4>1, ConcatEmptySeq
      <3> QED
        BY <3>1, <3>4, <3>5, Zenon DEF Forwarding
    <2> QED
      BY <2>1, <2>2
  <1>12. ASSUME nat'.ex \/ ~client'.fin
         PROVE  Acknowledged'
    <2>1. ~fin
      BY <1>12, NoEntryType DEF Handled
    <2>2. \A i \in 1..Len(s) : s[i].ack = Sq(client.isn + 1 + taken')
      BY <1>10, <2>1 DEF Handled
    <2>3. /\ Acknowledge(tunOut, client.isn, client.una, taken)
          /\ client.una <= taken /\ client.nxt <= client.una + Window
      BY <1>4 DEF Acknowledged
    <2>4. Acknowledge(tunOut \o s, client.isn, client.una, taken')
      BY <1>1, <1>2, <1>8, <2>2, <2>3, AcknowledgeMore
    <2>5. tunOut' = tunOut \o s
      BY DEF Handled
    <2>6. client.una <= taken'
      BY <1>2, <1>8, <2>3
    <2>7. /\ client'.isn = client.isn /\ client'.una = client.una
          /\ client'.nxt <= client.una + Window
      BY <2>3 DEF ClientGoesOn
    <2> QED
      BY <1>8, <2>4, <2>5, <2>6, <2>7 DEF Acknowledged
  <1>13. IInv'
    BY <1>11, <1>12 DEF IInv, ClientGoesOn
  <1> QED
    BY <1>5, <1>6, <1>7, <1>8, <1>13

LEMMA SegmentSent ==
  ASSUME Typed, IInv, client.st = "est", ClientGoesOn,
         NEW seq \in 0..(Modulus - 1), NEW data \in Seq(1..MaxUp), NEW fin \in BOOLEAN,
         fin => client'.fin,
         Brings(seq, data, client'.nxt),
         HandleSegment(seq, data, fin) \/ Lost,
         syns' = syns
  PROVE  IInv' /\ Typed'
  <1>1. client' \in ClientState
    BY DEF ClientGoesOn
  <1>2. CASE ~nat.ex \/ Lost
    <2>1. UNCHANGED <<nat, tunOut, server, late, upstream>>
      BY <1>2 DEF HandleSegment, Lost
    <2>2. IInv'
      BY <2>1, SegmentIgnored
    <2> QED
      BY <1>1, <2>1, <2>2 DEF Typed, upstream
  <1>3. CASE nat.ex /\ ~Lost
    <2>1. HandleSegment(seq, data, fin)
      BY <1>3
    <2>2. PICK e \in EntryState, s \in Seq(SegmentState) : Handled(seq, data, fin, e, s)
      BY <1>3, <2>1, SegmentHandled
    <2>3. ended' \in BOOLEAN /\ server' = server /\ late' = late
      BY <1>3, <2>1, SegmentHandled
    <2>4. /\ IInv'
          /\ nat' \in EntryState /\ tunOut' \in Seq(SegmentState)
          /\ taken' \in 0..MaxUp /\ fwd' \in Seq(1..MaxUp)
      BY <1>3, <2>2, SegmentTaken
    <2> QED
      BY <1>1, <2>3, <2>4 DEF Typed
  <1> QED
    BY <1>2, <1>3
-----------------------------------------------------------------------------
(* The other steps preserve the invariant. *)

LEMMA DataStep ==
  ASSUME Typed, IInv, ClientData
  PROVE  IInv' /\ Typed'
  <1>1. PICK a \in (client.una + 1)..(client.nxt + 1), b \in 1..MaxUp :
          /\ a <= b /\ b <= client.una + Window
          /\ client' = [client EXCEPT !.nxt = IF b > @ THEN b ELSE @]
          /\ HandleSegment(Sq(client.isn + a), Bytes(a, b), FALSE) \/ Lost
    BY DEF ClientData
  <1>2. client.st = "est" /\ syns' = syns
    BY DEF ClientData
  <1>3. /\ client.isn \in Nat /\ client.una \in Nat /\ client.nxt \in Nat
        /\ client.nxt <= MaxUp /\ client \in ClientState
    BY ClientFields DEF Typed
  <1>4. a \in Nat /\ a >= 1 /\ b \in Nat /\ b <= MaxUp /\ client.isn + a \in Nat
    BY <1>3, Capacities
  <1> DEFINE n    == IF b > client.nxt THEN b ELSE client.nxt
             seq  == Sq(client.isn + a)
             data == Bytes(a, b)
  <1>5. /\ n \in 0..MaxUp /\ client.nxt <= n /\ b <= n
        /\ client.nxt <= client.una + Window => n <= client.una + Window
    BY <1>1, <1>3, <1>4, Capacities
  <1>6. client' = [client EXCEPT !.nxt = n]
    BY <1>1
  <1>7. seq \in 0..(Modulus - 1) /\ data \in Seq(1..MaxUp)
    <2>1. a..b \subseteq 1..MaxUp
      BY <1>4, Capacities
    <2>2. a <= b + 1
      BY <1>1, <1>4
    <2>3. Bytes(a, b) \in Seq(1..MaxUp)
      BY <1>4, <2>1, <2>2, BytesProperties, Zenon
    <2> QED
      BY <1>4, <2>3, SqType
  <1> HIDE DEF n
  <1>8. ClientGoesOn /\ client'.nxt = n
    <2>1. client' \in ClientState
      BY <1>3, <1>5, <1>6 DEF ClientState
    <2> QED
      BY <1>2, <1>3, <1>5, <1>6, <2>1 DEF ClientGoesOn, ClientState
  <1>9. Brings(seq, data, client'.nxt)
    <2> SUFFICES ASSUME nat.ex, seq = nat.cnext
                 PROVE  /\ data = Bytes(taken + 1, taken + Len(data))
                        /\ taken + Len(data) <= n
      BY <1>8 DEF Brings
    <2>1. taken + Len(data) = b /\ data = Bytes(taken + 1, taken + Len(data))
      BY <1>1, <1>2, <1>4, ExpectedBytes
    <2> HIDE DEF data
    <2> QED
      BY <1>5, <2>1
  <1> HIDE DEF seq, data
  <1>10. HandleSegment(seq, data, FALSE) \/ Lost
    BY <1>1 DEF seq, data
  <1> QED
    BY <1>2, <1>7, <1>8, <1>9, <1>10, SegmentSent

LEMMA FinStep ==
  ASSUME Typed, IInv, ClientFin
  PROVE  IInv' /\ Typed'
  <1> DEFINE b == client.nxt
  <1>1. PICK a \in (client.una + 1)..(client.nxt + 1) :
          HandleSegment(Sq(client.isn + a), Bytes(a, b), TRUE) \/ Lost
    BY DEF ClientFin
  <1>2. /\ client.st = "est" /\ syns' = syns
        /\ client' = [client EXCEPT !.fin = TRUE]
    BY DEF ClientFin
  <1>3. /\ client.isn \in Nat /\ client.una \in Nat /\ b \in Nat
        /\ b <= MaxUp /\ client \in ClientState
    BY ClientFields DEF Typed
  <1>4. a \in Nat /\ a >= 1 /\ a <= b + 1 /\ client.isn + a \in Nat
    BY <1>3
  <1> DEFINE seq  == Sq(client.isn + a)
             data == Bytes(a, b)
  <1>5. seq \in 0..(Modulus - 1) /\ data \in Seq(1..MaxUp)
    <2> HIDE DEF b
    <2>1. a..b \subseteq 1..MaxUp
      BY <1>3, <1>4, Capacities
    <2>2. Bytes(a, b) \in Seq(1..MaxUp)
      BY <1>3, <1>4, <2>1, BytesProperties, Zenon
    <2> QED
      BY <1>4, <2>2, SqType
  <1>6. ClientGoesOn /\ client'.nxt = b /\ client'.fin
    <2>1. client' \in ClientState
      <3>1. <<>> \in Seq(0..MaxDown) /\ 0 \in 0..MaxUp /\ 0 \in 0..(Modulus - 1)
        BY Capacities
      <3> QED
        BY <1>2, <1>3, <3>1 DEF ClientState
    <2> QED
      BY <1>2, <1>3, <2>1 DEF ClientGoesOn, ClientState
  <1>7. Brings(seq, data, client'.nxt)
    <2> SUFFICES ASSUME nat.ex, seq = nat.cnext
                 PROVE  /\ data = Bytes(taken + 1, taken + Len(data))
                        /\ taken + Len(data) <= b
      BY <1>6 DEF Brings
    <2> HIDE DEF b
    <2>1. taken + Len(data) = b /\ data = Bytes(taken + 1, taken + Len(data))
      BY <1>2, <1>3, <1>4, ExpectedBytes
    <2> HIDE DEF data
    <2> QED
      BY <1>3, <2>1
  <1> HIDE DEF seq, data
  <1>8. HandleSegment(seq, data, TRUE) \/ Lost
    BY <1>1 DEF seq, data
  <1> QED
    BY <1>2, <1>5, <1>6, <1>7, <1>8, SegmentSent

LEMMA AckStep ==
  ASSUME Typed, IInv, ClientAck
  PROVE  IInv' /\ Typed'
  <1>1. PICK n \in {client.una, client.nxt + IF client.fin THEN 2 ELSE 1} :
          HandleSegment(Sq(client.isn + n), <<>>, FALSE) \/ Lost
    BY DEF ClientAck
  <1>2. client.st = "est" /\ syns' = syns /\ client' = client
    BY DEF ClientAck
  <1>3. client.isn \in Nat /\ client.una \in Nat /\ client.nxt \in Nat /\ client \in ClientState
    BY ClientFields DEF Typed
  <1>4. client.isn + n \in Nat
    BY <1>3
  <1> DEFINE seq == Sq(client.isn + n)
  <1>5. seq \in 0..(Modulus - 1) /\ <<>> \in Seq(1..MaxUp)
    BY <1>4, SqType
  <1>6. ClientGoesOn
    BY <1>2, <1>3 DEF ClientGoesOn
  <1>7. Brings(seq, <<>>, client'.nxt)
    BY DEF Brings
  <1> HIDE DEF seq
  <1>8. HandleSegment(seq, <<>>, FALSE) \/ Lost
    BY <1>1 DEF seq
  <1> QED
    BY <1>2, <1>5, <1>6, <1>7, <1>8, SegmentSent

(* Every SYN starts anew.                                                  *)
LEMMA SynStep ==
  ASSUME Typed, ClientSyn \/ ClientSynAgain, IInv
  PROVE  IInv' /\ Typed'
  <1>1. /\ client' \in ClientState /\ client'.st = "syn"
        /\ client'.una = 0 /\ client'.nxt = 0 /\ ~client'.fin
        /\ HandleSyn(client'.isn)
        /\ \A i, j \in 1..Len(tunOut) :
             i < j /\ tunOut[i].kind = "synack" /\ tunOut[i].ack = Sq(client'.isn + 1)
               => tunOut[j].ack = Sq(client'.isn + 1)
    <2>1. CASE ClientSyn
      <3>1. PICK isn \in Isns :
              /\ \A i \in 1..Len(tunOut) :
                   tunOut[i].kind = "synack" => tunOut[i].ack # Sq(isn + 1)
              /\ client' = [NoClient EXCEPT !.st = "syn", !.isn = isn]
              /\ HandleSyn(isn)
        BY <2>1 DEF ClientSyn
      <3>2. <<>> \in Seq(0..MaxDown) /\ isn \in 0..(Modulus - 1)
            /\ 0 \in 0..(Modulus - 1) /\ 0 \in 0..MaxUp
        BY Capacities
      <3>3. /\ client' \in ClientState /\ client'.st = "syn" /\ client'.isn = isn
            /\ client'.una = 0 /\ client'.nxt = 0 /\ ~client'.fin
        BY <3>1, <3>2 DEF NoClient, ClientState
      <3> QED
        BY <3>1, <3>3
    <2>2. CASE ClientSynAgain
      <3>1. client.st = "syn" /\ client' = client /\ HandleSyn(client.isn)
        BY <2>2 DEF ClientSynAgain
      <3> QED
        BY <3>1 DEF IInv, Opening, Typed
    <2> QED
      BY <2>1, <2>2
  <1> DEFINE q == client'.isn
  <1>2. q \in Nat /\ q \in 0..(Modulus - 1)
    BY <1>1, Capacities DEF ClientState
  <1>3. PICK isn \in Isns :
          /\ nat' = NewEntry(q, isn)
          /\ tunOut' = Append(tunOut, Segment("synack", isn, Sq(q + 1), <<>>))
          /\ server' = [st |-> "asked", sent |-> 0]
          /\ late' = IF Late /\ server.st \in {"asked", "up"} THEN server ELSE late
          /\ taken' = 0 /\ fwd' = <<>> /\ ended' = FALSE
    BY <1>1 DEF HandleSyn
  <1> HIDE DEF q
  <1>4. isn \in Nat /\ isn \in 0..(Modulus - 1) /\ Sq(q + 1) \in 0..(Modulus - 1)
    BY <1>2, Capacities, SqType
  <1>5. /\ nat' \in EntryState /\ nat'.st = "syn"
        /\ nat'.cnext = Sq(q + 1) /\ nat'.pend = <<>>
    BY <1>2, <1>3, <1>4, FirstEntry
  <1> DEFINE x == Segment("synack", isn, Sq(q + 1), <<>>)
  <1>6. x \in SegmentState /\ x.ack = Sq(q + 1)
    <2> DEFINE n == Sq(q + 1)
    <2>1. isn \in 0..(Modulus - 1) /\ n \in 0..(Modulus - 1) /\ <<>> \in Seq(0..MaxDown)
      BY <1>4
    <2> HIDE DEF n
    <2>2. /\ Segment("synack", isn, n, <<>>) \in SegmentState
          /\ Segment("synack", isn, n, <<>>).ack = n
      BY <2>1, SegmentType
    <2> QED
      BY <2>2 DEF n
  <1>7. tunOut' = Append(tunOut, x) /\ tunOut \in Seq(SegmentState)
    BY <1>3 DEF Typed
  <1> HIDE DEF x
  <1>8. /\ tunOut' \in Seq(SegmentState) /\ Len(tunOut') = Len(tunOut) + 1
        /\ Len(tunOut) \in Nat
        /\ \A i \in 1..Len(tunOut) : tunOut'[i] = tunOut[i]
        /\ tunOut'[Len(tunOut) + 1] = x
    BY <1>6, <1>7, AppendProperties, LenProperties
  <1>9. Typed'
    <2>1. syns' \in 0..MaxSyn
      <3>1. syns \in 0..MaxSyn /\ syns < MaxSyn /\ syns' = syns + 1
        BY DEF Typed, ClientSyn, ClientSynAgain
      <3> QED
        BY <3>1, Capacities
    <2>2. server' \in [st : {"none", "asked", "up", "over"}, sent : 0..MaxDown]
      BY <1>3, Capacities
    <2>3. late' \in [st : {"asked", "up", "over"}, sent : 0..MaxDown]
      BY <1>3 DEF Typed
    <2>4. taken' \in 0..MaxUp /\ fwd' \in Seq(1..MaxUp) /\ ended' \in BOOLEAN
      <3>1. <<>> \in Seq(1..MaxUp) /\ 0 \in 0..MaxUp
        BY Capacities
      <3> QED
        BY <1>3, <3>1
    <2> QED
      BY <1>1, <1>5, <1>8, <2>1, <2>2, <2>3, <2>4 DEF Typed
  <1>10. Forwarding'
    <2>1. Given' = <<>> \o <<>>
      BY <1>3, <1>5 DEF Given
    <2>2. <<>> \o <<>> = <<>> /\ Len(<<>>) = 0
      OBVIOUS
    <2>3. Given' = <<>> /\ Len(Given') = 0
      BY <2>1, <2>2, Zenon
    <2>4. Bytes(1, 0) = <<>>
      <3>1. Bytes(1, 0) \in Seq(Nat) /\ Len(Bytes(1, 0)) = 0
        BY FirstBytes
      <3> QED
        BY <3>1, EmptySeq
    <2>5. Given' = Bytes(1, Len(Given'))
      BY <2>3, <2>4, Zenon
    <2>6. nat'.cnext = Sq(client'.isn + 1 + taken')
      <3>1. q + 1 + 0 = q + 1
        BY <1>2
      <3> QED
        BY <1>3, <1>5, <3>1, Zenon DEF q
    <2> QED
      BY <1>3, <1>5, <2>3, <2>5, <2>6, Zenon DEF Forwarding
  <1>11. Opening'
    <2>1. ASSUME NEW i \in 1..Len(tunOut'), NEW j \in 1..Len(tunOut'), i < j,
                 tunOut'[i].kind = "synack", tunOut'[i].ack = Sq(client'.isn + 1)
          PROVE  tunOut'[j].ack = Sq(client'.isn + 1)
      <3>1. i \in 1..Len(tunOut) /\ tunOut'[i] = tunOut[i]
        BY <1>8, <2>1
      <3>2. CASE j = Len(tunOut) + 1
        BY <1>6, <1>8, <3>2 DEF q
      <3>3. CASE j # Len(tunOut) + 1
        <4>1. j \in 1..Len(tunOut) /\ tunOut'[j] = tunOut[j]
          BY <1>8, <3>3
        <4> QED
          BY <1>1, <2>1, <3>1, <4>1
      <3> QED
        BY <3>2, <3>3
    <2> QED
      BY <1>1, <1>3, <2>1 DEF Opening
  <1> QED
    BY <1>1, <1>9, <1>10, <1>11 DEF IInv

LEMMA SameForwarding ==
  ASSUME Forwarding, nat' = nat, fwd' = fwd, taken' = taken,
         client'.st # "closed" => client.st # "closed" /\ client'.isn = client.isn
  PROVE  Forwarding'
  <1>1. Given' = Given
    BY DEF Given
  <1> QED
    BY <1>1 DEF Forwarding

(* A segment leaves the queue and the client makes nothing of it.          *)
LEMMA RestInv ==
  ASSUME Typed, IInv, tunOut # <<>>, tunOut' = Tail(tunOut),
         nat' = nat, fwd' = fwd, taken' = taken, client' = client
  PROVE  IInv'
  <1> DEFINE w == Tail(tunOut)
  <1>1. tunOut \in Seq(SegmentState)
    BY DEF Typed
  <1>2. /\ Len(w) \in Nat /\ Len(w) = Len(tunOut) - 1 /\ Len(tunOut) \in Nat
        /\ \A i \in 1..Len(w) : w[i] = tunOut[i + 1]
    BY <1>1, HeadTailProperties, LenProperties
  <1>3. ASSUME client.st = "syn"
        PROVE  Opening'
    <2>1. Opening
      BY <1>3 DEF IInv
    <2> HIDE DEF w
    <2>2. ASSUME NEW i \in 1..Len(w), NEW j \in 1..Len(w), i < j,
                 w[i].kind = "synack", w[i].ack = Sq(client.isn + 1)
          PROVE  w[j].ack = Sq(client.isn + 1)
      <3>1. /\ i + 1 \in 1..Len(tunOut) /\ j + 1 \in 1..Len(tunOut) /\ i + 1 < j + 1
            /\ w[i] = tunOut[i + 1] /\ w[j] = tunOut[j + 1]
        BY <1>2, <2>2
      <3> QED
        BY <2>1, <2>2, <3>1 DEF Opening
    <2>3. tunOut' = w
      BY DEF w
    <2> QED
      BY <2>1, <2>2, <2>3 DEF Opening
  <1>4. ASSUME client.st = "est", nat.ex \/ ~client.fin
        PROVE  Acknowledged'
    <2>1. Acknowledged
      BY <1>4 DEF IInv
    <2>2. client.isn \in Nat /\ client.una \in Nat /\ taken \in Nat
      BY ClientFields, GivenType DEF Typed
    <2>3. Acknowledge(w, client.isn, client.una, taken)
      BY <1>1, <2>1, <2>2, AcknowledgeRest DEF Acknowledged
    <2> QED
      BY <2>1, <2>3 DEF Acknowledged
  <1>5. Forwarding'
    BY SameForwarding DEF IInv
  <1> QED
    BY <1>3, <1>4, <1>5 DEF IInv

LEMMA DropStep ==
  ASSUME Typed, IInv, SegmentDropped
  PROVE  IInv' /\ Typed'
  <1>1. /\ tunOut # <<>> /\ tunOut' = Tail(tunOut)
        /\ nat' = nat /\ fwd' = fwd /\ taken' = taken /\ client' = client
        /\ syns' = syns /\ server' = server /\ late' = late /\ ended' = ended
    BY DEF SegmentDropped, upstream
  <1>2. tunOut' \in Seq(SegmentState)
    BY <1>1, HeadTailProperties DEF Typed
  <1>3. IInv'
    BY <1>1, RestInv
  <1> QED
    BY <1>1, <1>2, <1>3 DEF Typed

LEMMA AckedType ==
  ASSUME Typed, NEW ack \in Nat
  PROVE  Acked(ack) \in 0..MaxUp
  <1> DEFINE m == client.isn + 1 + client.una
             d == ack + Modulus - Sq(m)
             n == client.una + Sq(d)
  <1>1. client.isn \in Nat /\ client.una \in 0..MaxUp /\ client.nxt \in 0..MaxUp
        /\ client.una \in Nat /\ client.nxt \in Nat
    <2>1. client.una \in 0..MaxUp /\ client.nxt \in 0..MaxUp
      BY DEF Typed, ClientState
    <2> QED
      BY <2>1, ClientFields DEF Typed
  <1>2. m \in Nat
    BY <1>1
  <1>3. d \in Nat
    <2>1. Sq(m) \in 0..(Modulus - 1)
      BY <1>2, SqType
    <2> QED
      BY <2>1, Capacities
  <1>4. Sq(d) \in Nat
    BY <1>3, SqType
  <1>5. Acked(ack) = CASE n <= client.nxt -> n
                       [] client.fin /\ n = client.nxt + 1 -> client.nxt
                       [] OTHER -> client.una
    BY DEF Acked
  <1>6. n \in Nat
    BY <1>1, <1>4
  <1> HIDE DEF n
  <1>7. n <= client.nxt => n \in 0..MaxUp
    <2> DEFINE k == client.nxt
    <2>1. k \in Nat /\ k <= MaxUp
      BY <1>1, Capacities
    <2> HIDE DEF k
    <2>2. n <= k => n \in 0..MaxUp
      BY <1>6, <2>1, Capacities
    <2> QED
      BY <2>2 DEF k
  <1> QED
    BY <1>1, <1>5, <1>6, <1>7

(* The client makes out what is acknowledged to it.                        *)
LEMMA AckedExact ==
  ASSUME Typed, Acknowledged, NEW n \in client.una..taken
  PROVE  Acked(Sq(client.isn + 1 + n)) = n
  <1>1. /\ client.isn \in Nat /\ client.una \in Nat /\ client.nxt \in Nat
        /\ taken \in Nat /\ n \in Nat /\ client.una <= n /\ n <= taken
    BY ClientFields, GivenType DEF Typed
  <1>2. taken <= client.nxt /\ client.nxt <= client.una + Window
    BY DEF Acknowledged
  <1> DEFINE m == client.isn + 1 + client.una
             k == n - client.una
             x == client.isn + 1 + n
  <1>3. m \in Nat /\ k \in Nat /\ k < Modulus /\ x = m + k /\ client.una + k = n
    BY <1>1, <1>2, Capacities
  <1>4. n <= client.nxt
    BY <1>1, <1>2
  <1>5. Acked(Sq(x)) = LET r == client.una + Sq(Sq(x) + Modulus - Sq(m))
                       IN  CASE r <= client.nxt -> r
                             [] client.fin /\ r = client.nxt + 1 -> client.nxt
                             [] OTHER -> client.una
    BY DEF Acked
  <1> HIDE DEF m, k, x
  <1>6. Sq(Sq(x) + Modulus - Sq(m)) = k
    <2>1. Sq(Sq(m + k) + Modulus - Sq(m)) = k
      BY <1>3, Distance
    <2> QED
      BY <1>3, <2>1, Zenon
  <1>7. client.una + Sq(Sq(x) + Modulus - Sq(m)) = n
    BY <1>3, <1>6
  <1> DEFINE r == client.una + Sq(Sq(x) + Modulus - Sq(m))
  <1> HIDE DEF r
  <1>8. r = n
    BY <1>7 DEF r
  <1>9. Acked(Sq(x)) = CASE r <= client.nxt -> r
                         [] client.fin /\ r = client.nxt + 1 -> client.nxt
                         [] OTHER -> client.una
    BY <1>5 DEF r
  <1>10. Acked(Sq(x)) = n
    <2>1. client.nxt + 1 # n
      BY <1>1, <1>4
    <2> QED
      BY <1>4, <1>8, <1>9, <2>1
  <1> QED
    BY <1>10 DEF x

LEMMA ReceiveStep ==
  ASSUME Typed, IInv, ClientReceives
  PROVE  IInv' /\ Typed'
  <1> DEFINE p   == Head(tunOut)
             old == (client.rcv + Modulus - p.seq) % Modulus
             new == IF old < Len(p.data) THEN SubSeq(p.data, old + 1, Len(p.data))
                                         ELSE <<>>
             end == p.kind = "fin" /\ old = 0
             opens  == p.kind = "synack" /\ client.st = "syn" /\ p.ack = Sq(client.isn + 1)
             closes == p.kind = "rst" /\ Aborts(p)
             reads  == p.kind \in {"data", "ack", "fin"} /\ client.st = "est"
             got  == client.got \o new
             rfin == client.rfin \/ end
             rcv  == Sq(client.rcv + Len(new) + IF end THEN 1 ELSE 0)
             una  == Acked(p.ack)
  <1>1. /\ tunOut # <<>> /\ tunOut' = Tail(tunOut)
        /\ nat' = nat /\ fwd' = fwd /\ taken' = taken
        /\ syns' = syns /\ server' = server /\ late' = late /\ ended' = ended
    BY DEF ClientReceives, upstream
  <1>2. client' = CASE opens  -> [client EXCEPT !.st = "est", !.rcv = Sq(p.seq + 1)]
                    [] closes -> [client EXCEPT !.st = "closed"]
                    [] reads  -> [client EXCEPT !.una = una, !.got = got,
                                                !.rfin = rfin, !.rcv = rcv]
                    [] OTHER  -> client
    BY DEF ClientReceives
  <1>3. /\ tunOut \in Seq(SegmentState) /\ p \in SegmentState
        /\ tunOut' \in Seq(SegmentState)
    BY <1>1, HeadTailProperties DEF Typed
  <1>4. /\ p.seq \in Nat /\ p.seq < Modulus /\ p.ack \in Nat
        /\ p.data \in Seq(0..MaxDown) /\ client.rcv \in Nat
        /\ client.got \in Seq(0..MaxDown) /\ client \in ClientState
        /\ client.rfin \in BOOLEAN
    <2>1. p.seq \in 0..(Modulus - 1) /\ p.ack \in 0..(Modulus - 1) /\ p.data \in Seq(0..MaxDown)
      BY <1>3 DEF SegmentState
    <2> HIDE DEF p
    <2> QED
      BY <2>1, Capacities, ClientFields DEF Typed
  <1>5. old \in Nat
    <2>1. client.rcv + Modulus - p.seq \in Nat
      BY <1>4, Capacities
    <2> QED
      BY <2>1, SqType DEF Sq
  <1> HIDE DEF p, old
  <1>6. new \in Seq(0..MaxDown) /\ Len(new) \in Nat
    <2>1. new \in Seq(0..MaxDown)
      <3>1. CASE old < Len(p.data)
        <4>1. Len(p.data) \in Nat
          BY <1>4, LenProperties
        <4>2. old + 1 \in Int /\ Len(p.data) \in Int
              /\ \A i \in (old + 1)..Len(p.data) : i \in 1..Len(p.data)
          BY <1>5, <4>1
        <4>3. \A i \in (old + 1)..Len(p.data) : p.data[i] \in 0..MaxDown
          BY <1>4, <4>2, ElementOfSeq
        <4>4. SubSeq(p.data, old + 1, Len(p.data)) \in Seq(0..MaxDown)
          BY <4>2, <4>3, SubSeqProperties
        <4> QED
          BY <3>1, <4>4, Zenon
      <3>2. CASE ~(old < Len(p.data))
        <4>1. <<>> \in Seq(0..MaxDown)
          OBVIOUS
        <4> QED
          BY <3>2, <4>1, Zenon
      <3> QED
        BY <3>1, <3>2
    <2> HIDE DEF new
    <2> QED
      BY <2>1, LenProperties
  <1> HIDE DEF new
  <1>7. got \in Seq(0..MaxDown)
    BY <1>4, <1>6, ConcatProperties
  <1>8. rfin \in BOOLEAN
    OBVIOUS
  <1>9. rcv \in 0..(Modulus - 1)
    <2>1. client.rcv + Len(new) + (IF end THEN 1 ELSE 0) \in Nat
      BY <1>4, <1>6
    <2> QED
      BY <2>1, SqType
  <1>10. una \in 0..MaxUp
    BY <1>4, AckedType
  <1>11. Sq(p.seq + 1) \in 0..(Modulus - 1)
    <2>1. p.seq + 1 \in Nat
      BY <1>4
    <2> QED
      BY <2>1, SqType
  <1> HIDE DEF got, rfin, rcv, una, end
  <1>12. CASE opens
    <2> DEFINE r == Sq(p.seq + 1)
    <2>1. client' = [client EXCEPT !.st = "est", !.rcv = r]
      BY <1>2, <1>12
    <2>2. r \in 0..(Modulus - 1)
      BY <1>11
    <2> HIDE DEF r
    <2>3. /\ client' \in ClientState /\ client'.st = "est" /\ client'.isn = client.isn
          /\ client'.una = client.una /\ client'.nxt = client.nxt
      BY <1>4, <2>1, <2>2 DEF ClientState
    <2>4. Opening
      BY <1>12 DEF IInv
    <2> DEFINE w == Tail(tunOut)
               isn == client.isn
    <2>5. /\ Len(w) \in Nat /\ Len(w) = Len(tunOut) - 1 /\ Len(tunOut) \in Nat
          /\ \A i \in 1..Len(w) : w[i] = tunOut[i + 1]
          /\ p = tunOut[1]
      BY <1>1, <1>3, HeadTailProperties, LenProperties DEF p
    <2>6. isn \in Nat
      BY ClientFields DEF Typed
    <2> HIDE DEF w
    <2>7. \A i \in 1..Len(w) : w[i].ack = Sq(isn + 1)
      <3> SUFFICES ASSUME NEW i \in 1..Len(w)
                   PROVE  w[i].ack = Sq(isn + 1)
        OBVIOUS
      <3>1. 1 \in 1..Len(tunOut) /\ i + 1 \in 1..Len(tunOut) /\ 1 < i + 1
        BY <2>5
      <3> QED
        BY <1>12, <2>4, <2>5, <3>1 DEF Opening
    <2>8. Acknowledge(w, isn, 0, 0)
      <3> DEFINE f == [i \in 1..Len(w) |-> 0]
      <3>1. f \in [1..Len(w) -> 0..0]
        OBVIOUS
      <3>2. \A i \in 1..Len(w) : f[i] = 0 /\ isn + 1 + f[i] = isn + 1
        BY <2>6
      <3>3. \A i \in 1..Len(w) : w[i].ack = Sq(isn + 1 + f[i])
        BY <2>7, <3>2
      <3>4. \A i, j \in 1..Len(w) : i < j => f[i] <= f[j]
        OBVIOUS
      <3> HIDE DEF f
      <3> QED
        BY <3>1, <3>3, <3>4 DEF Acknowledge
    <2>9. Acknowledged'
      <3>1. client'.una = 0 /\ client'.nxt = 0 /\ taken' = 0 /\ tunOut' = w
            /\ client'.isn = isn
        BY <1>1, <2>3, <2>4 DEF Opening, w
      <3>2. Acknowledge(tunOut', client'.isn, client'.una, taken')
        BY <2>8, <3>1, Zenon
      <3>3. client'.una <= taken' /\ taken' <= client'.nxt
            /\ client'.nxt <= client'.una + Window
        BY <3>1, Capacities
      <3> QED
        BY <3>2, <3>3 DEF Acknowledged
    <2>10. Forwarding'
      BY <1>1, <1>12, <2>3, SameForwarding DEF IInv
    <2>11. IInv'
      BY <2>3, <2>9, <2>10 DEF IInv
    <2> QED
      BY <1>1, <1>3, <2>3, <2>11 DEF Typed
  <1>13. CASE ~opens /\ closes
    <2>1. client' = [client EXCEPT !.st = "closed"]
      BY <1>2, <1>13, Zenon
    <2>2. client' \in ClientState /\ client'.st = "closed"
      BY <1>4, <2>1 DEF ClientState
    <2>3. IInv'
      BY <1>1, <2>2, SameForwarding DEF IInv
    <2> QED
      BY <1>1, <1>3, <2>2, <2>3 DEF Typed
  <1>14. CASE ~opens /\ ~closes /\ reads
    <2>1. client' = [client EXCEPT !.una = una, !.got = got, !.rfin = rfin, !.rcv = rcv]
      BY <1>2, <1>14, Zenon
    <2>2. /\ client' \in ClientState /\ client'.st = "est" /\ client'.isn = client.isn
          /\ client'.una = una /\ client'.nxt = client.nxt /\ client'.fin = client.fin
      BY <1>4, <1>7, <1>8, <1>9, <1>10, <1>14, <2>1 DEF ClientState
    <2>3. ASSUME nat.ex \/ ~client.fin
          PROVE  Acknowledged'
      <3>1. Acknowledged
        BY <1>14, <2>3 DEF IInv
      <3>2. client.isn \in Nat /\ client.una \in Nat /\ taken \in Nat /\ client.nxt \in Nat
        BY ClientFields, GivenType DEF Typed
      <3>3. PICK n \in client.una..taken :
              /\ p.ack = Sq(client.isn + 1 + n)
              /\ Acknowledge(Tail(tunOut), client.isn, n, taken)
        BY <1>1, <1>3, <3>1, <3>2, AcknowledgeRest DEF Acknowledged, p
      <3>4. una = n
        BY <3>1, <3>3, AckedExact DEF una
      <3>5. n <= taken /\ taken <= client.nxt /\ client.nxt <= n + Window
        BY <3>1, <3>2, Capacities DEF Acknowledged
      <3> QED
        BY <1>1, <2>2, <3>3, <3>4, <3>5 DEF Acknowledged
    <2>4. Forwarding'
      BY <1>1, <1>14, <2>2, SameForwarding DEF IInv
    <2>5. IInv'
      BY <1>1, <2>2, <2>3, <2>4 DEF IInv
    <2> QED
      BY <1>1, <1>3, <2>2, <2>5 DEF Typed
  <1>15. CASE ~opens /\ ~closes /\ ~reads
    <2>1. client' = client
      BY <1>2, <1>15, Zenon
    <2>2. IInv'
      BY <1>1, <2>1, RestInv
    <2> QED
      BY <1>1, <1>3, <2>1, <2>2 DEF Typed
  <1> QED
    BY <1>12, <1>13, <1>14, <1>15

LEMMA CloseStep ==
  ASSUME Typed, IInv, ClientRst \/ ClientCloses
  PROVE  IInv' /\ Typed'
  <1>1. client' = [client EXCEPT !.st = "closed"] /\ syns' = syns
    BY DEF ClientRst, ClientCloses
  <1>2. client' \in ClientState /\ client'.st = "closed"
    BY <1>1 DEF Typed, ClientState
  <1>3. <<>> \in Seq(SegmentState) /\ tunOut \in Seq(SegmentState) /\ tunOut \o <<>> = tunOut
    BY ConcatEmptySeq DEF Typed
  <1>4. CASE HandleRst
    <2>1. Keeps(<<>>) /\ ended' \in BOOLEAN
      BY <1>4, RstHandled
    <2>2. IInv'
      BY <1>2, <2>1, KeepsInv
    <2>3. /\ tunOut' = tunOut /\ server' = server /\ late' = late
          /\ nat' \in EntryState /\ taken' = taken /\ fwd' \in Seq(1..MaxUp)
      BY <1>4, <2>1 DEF HandleRst, Keeps
    <2> QED
      BY <1>1, <1>2, <2>1, <2>2, <2>3 DEF Typed
  <1>5. CASE ~HandleRst
    <2>1. UNCHANGED <<nat, tunOut, server, late, taken, fwd, ended>>
      BY <1>5 DEF ClientRst, ClientCloses, Lost, upstream
    <2>2. IInv'
      BY <1>2, <2>1, KeepsAll, KeepsInv
    <2> QED
      BY <1>1, <1>2, <2>1, <2>2 DEF Typed
  <1> QED
    BY <1>4, <1>5

(* Whatever the relay reports on, and the timer, takes nothing.            *)
LEMMA HandledStep ==
  ASSUME Typed, IInv, NEW s, Keeps(s), UNCHANGED <<client, syns, taken, ended>>,
         server' \in [st : {"none", "asked", "up", "over"}, sent : 0..MaxDown],
         late' \in [st : {"asked", "up", "over"}, sent : 0..MaxDown]
  PROVE  IInv' /\ Typed'
  <1>1. IInv'
    BY KeepsInv
  <1>2. s \in Seq(SegmentState) /\ tunOut \in Seq(SegmentState)
    BY DEF Keeps, Typed
  <1>3. tunOut \o s \in Seq(SegmentState)
    BY <1>2, ConcatProperties
  <1>4. tunOut' \in Seq(SegmentState) /\ nat' \in EntryState /\ fwd' \in Seq(1..MaxUp)
    BY <1>3 DEF Keeps
  <1> QED
    BY <1>1, <1>4 DEF Typed

LEMMA ReportKinds ==
  ASSUME Typed, Relay \/ LateRelay
  PROVE  /\ server' \in [st : {"none", "asked", "up", "over"}, sent : 0..MaxDown]
         /\ late' \in [st : {"asked", "up", "over"}, sent : 0..MaxDown]
         /\ \/ OnConnected \/ OnReset \/ OnShutdown
            \/ \E data \in Seq(0..MaxDown) : data # <<>> /\ OnData(data)
  <1> DEFINE ServerState == [st : {"none", "asked", "up", "over"}, sent : 0..MaxDown]
             LateState   == [st : {"asked", "up", "over"}, sent : 0..MaxDown]
  <1>1. server \in ServerState /\ late \in LateState
    BY DEF Typed
  <1>2. /\ server' \in ServerState /\ late' \in LateState
        /\ \/ OnConnected \/ OnReset \/ OnShutdown
           \/ \E data \in Seq(0..MaxDown) : data # <<>> /\ OnData(data)
    <2>1. CASE Connected \/ ConnectFailed \/ ServerResets \/ ServerShutdown
      BY <1>1, <2>1
         DEF Connected, ConnectFailed, ServerResets, ServerShutdown, ServerIs
    <2>2. CASE LateConnected \/ LateFailed \/ LateReset \/ LateShutdown
      BY <1>1, <2>2 DEF LateConnected, LateFailed, LateReset, LateShutdown, LateIs
    <2>3. CASE ServerData
      <3>1. PICK n \in 1..MaxSeg :
              /\ server.sent + n <= MaxDown
              /\ server' = [server EXCEPT !.sent = @ + n]
              /\ OnData(Bytes(server.sent + 1, server.sent + n))
        BY <2>3 DEF ServerData
      <3> DEFINE a == server.sent + 1
                 b == server.sent + n
      <3>2. server.sent \in Nat /\ n \in Nat /\ n >= 1
        BY <1>1, Capacities
      <3>3. a \in Nat /\ b \in Nat /\ a <= b /\ b <= MaxDown
        BY <3>1, <3>2
      <3>4. server' \in ServerState
        <4>1. b \in 0..MaxDown /\ server' = [server EXCEPT !.sent = b]
          BY <3>1, <3>3, Capacities
        <4> HIDE DEF b
        <4> QED
          BY <1>1, <4>1
      <3>5. late' = late
        BY <2>3 DEF ServerData
      <3> HIDE DEF a, b
      <3>6. a..b \subseteq 0..MaxDown /\ a <= b + 1
        BY <3>3, Capacities
      <3>7. Bytes(a, b) \in Seq(0..MaxDown) /\ Len(Bytes(a, b)) = b + 1 - a
        BY <3>3, <3>6, BytesProperties, Zenon
      <3>8. Bytes(a, b) # <<>>
        <4>1. b + 1 - a # 0 /\ Len(<<>>) = 0
          BY <3>3
        <4> QED
          BY <3>7, <4>1, Zenon
      <3>9. OnData(Bytes(a, b))
        BY <3>1 DEF a, b
      <3> QED
        BY <1>1, <3>4, <3>5, <3>7, <3>8, <3>9
    <2>4. CASE LateData
      <3>1. /\ late.sent < MaxDown /\ late' = [late EXCEPT !.sent = @ + 1]
            /\ OnData(<<0>>) /\ server' = server
        BY <2>4 DEF LateData
      <3>2. late.sent + 1 \in 0..MaxDown /\ 0 \in 0..MaxDown
        BY <1>1, <3>1, Capacities
      <3>3. late' \in LateState
        BY <1>1, <3>1, <3>2
      <3>4. <<0>> \in Seq(0..MaxDown) /\ <<0>> # <<>>
        BY <3>2
      <3> QED
        BY <1>1, <3>1, <3>3, <3>4
    <2> QED
      BY <2>1, <2>2, <2>3, <2>4 DEF Relay, LateRelay
  <1> QED
    BY <1>2

LEMMA ReportStep ==
  ASSUME Typed, IInv, Relay \/ LateRelay
  PROVE  IInv' /\ Typed'
  <1>1. /\ \E s : Keeps(s)
        /\ UNCHANGED <<client, syns, taken, ended>>
    BY ReportKinds, ConnectedHandled, ResetHandled, ShutdownHandled, DataHandled
  <1> QED
    BY <1>1, ReportKinds, HandledStep

LEMMA TimerStep ==
  ASSUME Typed, IInv, TimePasses \/ Cleanup
  PROVE  IInv' /\ Typed'
  <1>1. /\ tunOut' = tunOut /\ fwd' = fwd
        /\ UNCHANGED <<client, syns, server, late, taken, ended>>
    BY DEF TimePasses, Cleanup, upstream
  <1>2. Keeps(<<>>)
    <2>1. CASE Cleanup
      BY <1>1, <2>1, KeepsNoEntry DEF Cleanup
    <2>2. CASE TimePasses
      <3>1. nat' = [nat EXCEPT !.aged = TRUE]
        BY <2>2 DEF TimePasses
      <3>2. /\ nat' \in EntryState /\ nat'.ex = nat.ex /\ nat'.conn = nat.conn
            /\ nat'.pend = nat.pend /\ nat'.cnext = nat.cnext /\ nat'.st = nat.st
        BY <3>1 DEF Typed, EntryState
      <3>3. <<>> \in Seq(SegmentState) /\ tunOut \o <<>> = tunOut /\ Len(<<>>) = 0
        BY ConcatEmptySeq DEF Typed
      <3>4. \A i \in 1..Len(<<>>) : <<>>[i].ack = nat.cnext
        BY <3>3
      <3> QED
        BY <1>1, <3>2, <3>3, <3>4 DEF Keeps, Typed
    <2> QED
      BY <2>1, <2>2
  <1> QED
    BY <1>1, <1>2, HandledStep DEF Typed
-----------------------------------------------------------------------------
LEMMA Inductive == Spec => [](Typed /\ IInv)
  <1>1. Init => Typed /\ IInv
    <2> SUFFICES ASSUME Init
                 PROVE  Typed /\ IInv
      OBVIOUS
    <2>1. <<>> \in Seq(1..MaxUp) /\ <<>> \in Seq(0..MaxDown) /\ <<>> \in Seq(SegmentState)
          /\ 0 \in 0..(Modulus - 1) /\ 0 \in 0..MaxUp /\ 0 \in 0..MaxDown /\ 0 \in 0..MaxSyn
      BY Capacities
    <2>2. Typed
      BY <2>1 DEF Init, Typed, EntryState, ClientState, NoEntry, NoClient
    <2>3. nat = NoEntry /\ ~nat.ex /\ nat.pend = <<>> /\ fwd = <<>> /\ client.st = "closed"
      BY DEF Init, NoEntry, NoClient
    <2>4. Given = Bytes(1, Len(Given))
      <3>1. Given = <<>> /\ Len(<<>>) = 0
        <4>1. Given = <<>> \o <<>>
          BY <2>3 DEF Given
        <4> QED
          BY <4>1
      <3>2. Bytes(1, 0) = <<>>
        <4>1. Bytes(1, 0) \in Seq(Nat) /\ Len(Bytes(1, 0)) = 0
          BY FirstBytes
        <4> QED
          BY <4>1, EmptySeq
      <3> QED
        BY <3>1, <3>2, Zenon
    <2> QED
      BY <2>2, <2>3, <2>4 DEF IInv, Forwarding
  <1>2. Typed /\ IInv /\ [Next]_vars => (Typed /\ IInv)'
    <2> SUFFICES ASSUME Typed, IInv, [Next]_vars
                 PROVE  IInv' /\ Typed'
      OBVIOUS
    <2>1. CASE UNCHANGED vars
      <3>1. /\ UNCHANGED <<nat, tunOut, client, syns, server, late, taken, fwd, ended>>
        BY <2>1 DEF vars, upstream
      <3>2. Keeps(<<>>)
        BY <3>1, KeepsAll
      <3> QED
        BY <3>1, <3>2, HandledStep DEF Typed
    <2>2. CASE Client
      BY <2>2, SynStep, DataStep, FinStep, AckStep, CloseStep DEF Client
    <2>3. CASE ClientReceives \/ SegmentDropped
      BY <2>3, ReceiveStep, DropStep
    <2>4. CASE Relay \/ LateRelay
      BY <2>4, ReportStep
    <2>5. CASE TimePasses \/ Cleanup
      BY <2>5, TimerStep
    <2> QED
      BY <2>1, <2>2, <2>3, <2>4, <2>5 DEF Next
  <1> QED
    BY <1>1, <1>2, PTL DEF Spec

(* Sequence numbers stay in their range, bytes in theirs, whatever is      *)
(* lost, repeated or reported late.                                        *)
THEOREM TypeCorrect == Spec => []TypeOK
  BY Inductive, TypeParts, PTL

(* The relay is given the client's bytes once each and in order, and the   *)
(* entry (tun_windows.rs, handle_tcp) expects the byte after those taken.  *)
THEOREM UpstreamIsExact == Spec => []UpstreamExact
  <1>1. Typed /\ IInv => UpstreamExact
    <2> SUFFICES ASSUME Typed, IInv
                 PROVE  UpstreamExact
      OBVIOUS
    <2>1. Forwarding /\ Given = fwd \o nat.pend
      BY DEF IInv, Given
    <2> QED
      BY <2>1 DEF Forwarding, UpstreamExact
  <1> QED
    BY <1>1, Inductive, PTL

(* What is acknowledged to the client was taken, so nothing that the proxy *)
(* has dropped is lost to the client's retransmission.                     *)
THEOREM AckedBytesWereTaken == Spec => []AckedWasTaken
  <1>1. IInv => AckedWasTaken
    BY DEF IInv, Acknowledged, AckedWasTaken
  <1> QED
    BY <1>1, Inductive, PTL
=============================================================================
