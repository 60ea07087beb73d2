----------------------------- MODULE NatFlowProofs -----------------------------
(***************************************************************************)
(* Proofs about what the client receives from the user-space TCP endpoint: *)
(* both ends agree on the next sequence number, and the endpoint keeps the *)
(* contract of Flow.                                                       *)
(***************************************************************************)
EXTENDS NatTableProofs

(***************************************************************************)
(* Downstream.  A segment moves the client's next sequence number on by    *)
(* what it carries.  The segments of q behind the kth one follow each      *)
(* other from the number n, and the next one would have the number After.  *)
(***************************************************************************)
Moves(p) == Len(p.data) + IF p.kind = "fin" THEN 1 ELSE 0

After(q, k, n, i) == IF i = k THEN n ELSE Sq(q[i].seq + Moves(q[i]))

Links(q, k, n) ==
  \A i \in (k + 1)..Len(q) : q[i].kind # "synack" /\ q[i].seq = After(q, k, n, i - 1)

Answers(p, isn) == p.kind = "synack" /\ p.ack = Sq(isn + 1)

(* Where the client's stream starts: at the head of the queue, or behind   *)
(* the answer to the SYN that it waits for.                                *)
Starts(k, n) ==
  \/ client.st = "est" /\ k = 0 /\ n = client.rcv
  \/ /\ client.st = "syn" /\ k \in 1..Len(tunOut) /\ Answers(tunOut[k], client.isn)
     /\ n = Sq(tunOut[k].seq + 1)

Downstream ==
  \A k \in 0..Len(tunOut), n \in Nat : Starts(k, n) =>
    /\ Links(tunOut, k, n)
    /\ nat.ex => nat.onext = After(tunOut, k, n, Len(tunOut))
-----------------------------------------------------------------------------
LEMMA SmallNumber ==
  ASSUME NEW n \in 0..(Modulus - 1)
  PROVE  Sq(n) = n /\ n \in Nat
  <1>1. n \in Nat /\ 0 \in Nat /\ n = Modulus * 0 + n
    BY Capacities
  <1>2. Sq(Modulus * 0 + n) = n
    BY <1>1, Remainder
  <1> QED
    BY <1>1, <1>2

LEMMA SegmentFields ==
  ASSUME NEW p \in SegmentState
  PROVE  /\ p.seq \in 0..(Modulus - 1) /\ p.seq \in Nat
         /\ p.data \in Seq(0..MaxDown) /\ Len(p.data) \in Nat
         /\ Moves(p) \in Nat /\ p.seq + Moves(p) \in Nat
  <1>1. p.seq \in 0..(Modulus - 1) /\ p.data \in Seq(0..MaxDown)
    BY DEF SegmentState
  <1>2. Len(p.data) \in Nat /\ p.seq \in Nat
    BY <1>1, Capacities, LenProperties
  <1>3. Moves(p) \in Nat
    <2>1. CASE p.kind = "fin"
      BY <1>2, <2>1 DEF Moves
    <2>2. CASE p.kind # "fin"
      BY <1>2, <2>2 DEF Moves
    <2> QED
      BY <2>1, <2>2
  <1> QED
    BY <1>1, <1>2, <1>3

LEMMA LinksNone ==
  ASSUME NEW n
  PROVE  Links(<<>>, 0, n) /\ After(<<>>, 0, n, Len(<<>>)) = n
  <1>1. Len(<<>>) = 0
    OBVIOUS
  <1>2. (0 + 1)..0 = {}
    OBVIOUS
  <1> QED
    BY <1>1, <1>2 DEF Links, After

LEMMA LinksMore ==
  ASSUME NEW q \in Seq(SegmentState), NEW s \in Seq(SegmentState), NEW k \in 0..Len(q),
         NEW n, Links(q, k, n), Links(s, 0, After(q, k, n, Len(q)))
  PROVE  /\ Links(q \o s, k, n)
         /\ After(q \o s, k, n, Len(q \o s)) = After(s, 0, After(q, k, n, Len(q)), Len(s))
  <1> DEFINE w == q \o s
             m == After(q, k, n, Len(q))
  <1>1. /\ Len(w) = Len(q) + Len(s) /\ Len(q) \in Nat /\ Len(s) \in Nat
        /\ \A i \in 1..Len(w) : w[i] = IF i <= Len(q) THEN q[i] ELSE s[i - Len(q)]
    BY ConcatProperties, LenProperties
  <1> HIDE DEF w
  <1>2. ASSUME NEW i \in k..Len(q)
        PROVE  After(w, k, n, i) = After(q, k, n, i)
    <2>1. CASE i = k
      BY <2>1 DEF After
    <2>2. CASE i # k
      <3>1. i \in 1..Len(w) /\ i <= Len(q)
        BY <1>1, <2>2
      <3> QED
        BY <1>1, <3>1 DEF After
    <2> QED
      BY <2>1, <2>2
  <1>3. ASSUME NEW j \in 0..Len(s)
        PROVE  After(w, k, n, Len(q) + j) = After(s, 0, m, j)
    <2>1. CASE j = 0
      <3>1. Len(q) + j = Len(q) /\ Len(q) \in k..Len(q)
        BY <1>1, <2>1
      <3>2. After(w, k, n, Len(q)) = m
        BY <1>2, <3>1
      <3> QED
        BY <2>1, <3>1, <3>2 DEF After
    <2>2. CASE j # 0
      <3>1. /\ Len(q) + j \in 1..Len(w) /\ ~(Len(q) + j <= Len(q)) /\ Len(q) + j # k
            /\ Len(q) + j - Len(q) = j
        BY <1>1, <2>2
      <3>2. w[Len(q) + j] = s[j]
        BY <1>1, <3>1
      <3> QED
        BY <2>2, <3>1, <3>2 DEF After
    <2> QED
      BY <2>1, <2>2
  <1>4. ASSUME NEW i \in (k + 1)..Len(w)
        PROVE  w[i].kind # "synack" /\ w[i].seq = After(w, k, n, i - 1)
    <2>1. CASE i <= Len(q)
      <3>1. i \in (k + 1)..Len(q) /\ i \in 1..Len(w) /\ i - 1 \in k..Len(q)
        BY <1>1, <2>1
      <3> QED
        BY <1>1, <1>2, <2>1, <3>1 DEF Links
    <2>2. CASE i > Len(q)
      <3> DEFINE j == i - Len(q)
      <3>1. /\ j \in (0 + 1)..Len(s) /\ i \in 1..Len(w) /\ ~(i <= Len(q))
            /\ j - 1 \in 0..Len(s) /\ Len(q) + (j - 1) = i - 1
        BY <1>1, <2>2
      <3>2. w[i] = s[j]
        BY <1>1, <3>1
      <3>3. s[j].kind # "synack" /\ s[j].seq = After(s, 0, m, j - 1)
        <4> HIDE DEF j, m
        <4>1. Links(s, 0, m)
          BY DEF m
        <4> QED
          BY <3>1, <4>1 DEF Links
      <3>4. After(w, k, n, Len(q) + (j - 1)) = After(s, 0, m, j - 1)
        BY <1>3, <3>1
      <3> HIDE DEF j, m
      <3> QED
        BY <3>1, <3>2, <3>3, <3>4
    <2> QED
      BY <1>1, <2>1, <2>2
  <1>5. After(w, k, n, Len(w)) = After(s, 0, m, Len(s))
    BY <1>1, <1>3
  <1> QED
    BY <1>4, <1>5 DEF Links, w, m

(* The head of the queue is gone.                                          *)
LEMMA LinksRest ==
  ASSUME NEW q \in Seq(SegmentState), q # <<>>, NEW k \in 1..Len(q), NEW n, Links(q, k, n)
  PROVE  /\ Links(Tail(q), k - 1, n)
         /\ After(Tail(q), k - 1, n, Len(Tail(q))) = After(q, k, n, Len(q))
  <1> DEFINE w == Tail(q)
  <1>1. /\ Len(w) \in Nat /\ Len(w) = Len(q) - 1 /\ Len(q) \in Nat
        /\ \A i \in 1..Len(w) : w[i] = q[i + 1]
    BY HeadTailProperties, LenProperties
  <1> HIDE DEF w
  <1>2. ASSUME NEW i \in (k - 1)..Len(w)
        PROVE  After(w, k - 1, n, i) = After(q, k, n, i + 1)
    <2>1. CASE i = k - 1
      <3>1. i + 1 = k
        BY <2>1
      <3> QED
        BY <2>1, <3>1 DEF After
    <2>2. CASE i # k - 1
      <3>1. i \in 1..Len(w) /\ i + 1 # k
        BY <1>1, <2>2
      <3> QED
        BY <1>1, <2>2, <3>1 DEF After
    <2> QED
      BY <2>1, <2>2
  <1>3. ASSUME NEW i \in (k - 1 + 1)..Len(w)
        PROVE  w[i].kind # "synack" /\ w[i].seq = After(w, k - 1, n, i - 1)
    <2>1. /\ i \in 1..Len(w) /\ i + 1 \in (k + 1)..Len(q) /\ i - 1 \in (k - 1)..Len(w)
          /\ i + 1 - 1 = i - 1 + 1
      BY <1>1
    <2>2. w[i] = q[i + 1]
      BY <1>1, <2>1
    <2>3. q[i + 1].kind # "synack" /\ q[i + 1].seq = After(q, k, n, i + 1 - 1)
      BY <2>1 DEF Links
    <2>4. After(w, k - 1, n, i - 1) = After(q, k, n, i - 1 + 1)
      BY <1>2, <2>1
    <2> QED
      BY <2>1, <2>2, <2>3, <2>4
  <1>4. After(w, k - 1, n, Len(w)) = After(q, k, n, Len(q))
    <2>1. Len(w) \in (k - 1)..Len(w) /\ Len(w) + 1 = Len(q)
      BY <1>1
    <2> QED
      BY <1>2, <2>1
  <1> QED
    BY <1>3, <1>4 DEF Links, w

(* The client has taken the head of the queue.                             *)
LEMMA LinksNext ==
  ASSUME NEW q \in Seq(SegmentState), q # <<>>, NEW n, Links(q, 0, n)
  PROVE  /\ q[1].kind # "synack" /\ q[1].seq = n
         /\ Links(Tail(q), 0, Sq(n + Moves(q[1])))
         /\ After(Tail(q), 0, Sq(n + Moves(q[1])), Len(Tail(q))) = After(q, 0, n, Len(q))
  <1> DEFINE m == Sq(n + Moves(q[1]))
  <1>1. Len(q) \in Nat /\ Len(q) >= 1
    BY LenProperties, EmptySeq
  <1>2. q[1].kind # "synack" /\ q[1].seq = n
    <2>1. 1 \in (0 + 1)..Len(q) /\ 1 - 1 = 0
      BY <1>1
    <2> QED
      BY <2>1 DEF Links, After
  <1>3. \A i \in 1..Len(q) : After(q, 1, m, i) = After(q, 0, n, i)
    BY <1>2 DEF After
  <1> HIDE DEF m
  <1>4. Links(q, 1, m)
    <2> SUFFICES ASSUME NEW i \in (1 + 1)..Len(q)
                 PROVE  q[i].kind # "synack" /\ q[i].seq = After(q, 1, m, i - 1)
      BY DEF Links
    <2>1. i \in (0 + 1)..Len(q) /\ i - 1 \in 1..Len(q)
      BY <1>1
    <2> QED
      BY <1>3, <2>1 DEF Links
  <1>5. 1 \in 1..Len(q) /\ Len(q) \in 1..Len(q) /\ 1 - 1 = 0
    BY <1>1
  <1>6. Links(Tail(q), 0, m) /\ After(Tail(q), 0, m, Len(Tail(q))) = After(q, 1, m, Len(q))
    BY <1>4, <1>5, LinksRest
  <1> QED
    BY <1>2, <1>3, <1>5, <1>6 DEF m

(* A control segment with the number n.                                    *)
LEMMA LinksSignal ==
  ASSUME NEW kind \in {"ack", "fin", "rst"}, NEW n \in 0..(Modulus - 1),
         NEW a \in 0..(Modulus - 1)
  PROVE  LET s == <<Segment(kind, n, a, <<>>)>>
         IN  /\ Links(s, 0, n)
             /\ After(s, 0, n, Len(s)) = IF kind = "fin" THEN Sq(n + 1) ELSE n
  <1> DEFINE x == Segment(kind, n, a, <<>>)
             s == <<x>>
  <1>1. x.kind = kind /\ x.seq = n /\ Len(x.data) = 0
    BY DEF Segment
  <1> HIDE DEF x
  <1>2. Len(s) = 1 /\ s[1] = x
    OBVIOUS
  <1> HIDE DEF s
  <1>3. Links(s, 0, n)
    <2> SUFFICES ASSUME NEW i \in (0 + 1)..Len(s)
                 PROVE  s[i].kind # "synack" /\ s[i].seq = After(s, 0, n, i - 1)
      BY DEF Links
    <2>1. i = 1 /\ i - 1 = 0
      BY <1>2
    <2> QED
      BY <1>1, <1>2, <2>1 DEF After
  <1>4. After(s, 0, n, Len(s)) = Sq(n + IF kind = "fin" THEN 1 ELSE 0)
    <2>1. After(s, 0, n, 1) = Sq(x.seq + Moves(x))
      BY <1>2 DEF After
    <2>2. Moves(x) = IF kind = "fin" THEN 1 ELSE 0
      BY <1>1 DEF Moves
    <2> QED
      BY <1>1, <1>2, <2>1, <2>2
  <1>5. n + 0 = n /\ Sq(n) = n
    BY SmallNumber
  <1> QED
    BY <1>3, <1>4, <1>5 DEF x, s
-----------------------------------------------------------------------------
(* How many of the bytes d are in the first i chunks.                      *)
Cut(d, i) == IF i * Mss > Len(d) THEN Len(d) ELSE i * Mss

LEMMA Multiples ==
  ASSUME NEW i \in Nat, NEW j \in Nat, i <= j
  PROVE  i * Mss \in Nat /\ i * Mss <= j * Mss /\ (i + 1) * Mss = i * Mss + Mss
  <1>1. PICK d \in Nat : j = i + d
    BY j - i \in Nat
  <1>2. j * Mss = i * Mss + d * Mss /\ d * Mss \in Nat /\ i * Mss \in Nat
    BY <1>1, Capacities
  <1>3. (i + 1) * Mss = i * Mss + Mss
    BY Capacities
  <1> QED
    BY <1>2, <1>3

LEMMA ChunksCut ==
  ASSUME NEW e \in EntryState, NEW d \in Seq(0..MaxDown), d # <<>>
  PROVE  LET s == Chunks(e, d)
         IN  /\ Len(s) \in Nat \ {0}
             /\ Cut(d, 0) = 0 /\ Cut(d, Len(s)) = Len(d)
             /\ \A i \in 1..Len(s) :
                  /\ Cut(d, i - 1) \in Nat /\ Cut(d, i) \in Nat
                  /\ Cut(d, i - 1) < Cut(d, i) /\ Cut(d, i) <= Len(d)
                  /\ s[i] = Segment("data", Sq(e.onext + Cut(d, i - 1)), e.cnext,
                                    SubSeq(d, Cut(d, i - 1) + 1, Cut(d, i)))
  <1> DEFINE s == Chunks(e, d)
             L == Len(d)
             q == (L - 1) \div Mss
             n == q + 1
  <1>1. L \in Nat /\ L >= 1 /\ L - 1 \in Nat
    BY EmptySeq, LenProperties
  <1>2. q \in Nat /\ q * Mss <= L - 1 /\ L - 1 < q * Mss + Mss
    <2>1. Mss \in Nat /\ Mss > 0
      BY Capacities
    <2> HIDE DEF L
    <2> DEFINE r == (L - 1) % Mss
    <2>2. q \in Nat /\ L - 1 = Mss * q + r /\ r \in 0..(Mss - 1)
      BY <1>1, <2>1
    <2> HIDE DEF q, r
    <2> DEFINE y == q * Mss
    <2>3. Mss * q = y /\ y \in Nat
      BY <2>1, <2>2
    <2> HIDE DEF y
    <2>4. L - 1 = y + r /\ r \in Nat /\ r < Mss
      BY <2>1, <2>2, <2>3
    <2>5. y <= L - 1 /\ L - 1 < y + Mss
      BY <1>1, <2>1, <2>3, <2>4
    <2> QED
      BY <2>2, <2>5 DEF y
  <1>3. DOMAIN s = 1..n
    BY DEF Chunks
  <1>4. Len(s) = n
    <2>1. s \in Seq(SegmentState)
      BY ChunksType
    <2>2. Len(s) \in Nat /\ DOMAIN s = 1..Len(s)
      BY <2>1, LenProperties
    <2> HIDE DEF s, q
    <2> QED
      BY <1>2, <1>3, <2>2
  <1> HIDE DEF q
  <1>5. n * Mss >= L
    <2>1. n * Mss = q * Mss + Mss /\ q * Mss \in Nat
      BY <1>2, Multiples
    <2> QED
      BY <1>1, <1>2, <2>1, Capacities
  <1>6. Cut(d, n) = L
    <2>1. n * Mss > L \/ n * Mss = L
      BY <1>1, <1>2, <1>5, Multiples
    <2> QED
      BY <2>1 DEF Cut
  <1>7. Cut(d, 0) = 0
    <2>1. 0 * Mss = 0
      BY Capacities
    <2> QED
      BY <1>1, <2>1 DEF Cut
  <1>8. ASSUME NEW i \in 1..n
        PROVE  /\ Cut(d, i - 1) = (i - 1) * Mss /\ Cut(d, i - 1) \in Nat /\ Cut(d, i) \in Nat
               /\ Cut(d, i) = IF (i - 1) * Mss + Mss > L THEN L ELSE (i - 1) * Mss + Mss
               /\ Cut(d, i - 1) < Cut(d, i) /\ Cut(d, i) <= L
    <2>1. i - 1 \in Nat /\ i - 1 <= q /\ i - 1 + 1 = i
      BY <1>2
    <2>2. (i - 1) * Mss \in Nat /\ (i - 1) * Mss <= q * Mss /\ i * Mss = (i - 1) * Mss + Mss
      BY <1>2, <2>1, Multiples
    <2> DEFINE x == (i - 1) * Mss
               y == i * Mss
    <2>3. x \in Nat /\ x < L /\ y = x + Mss /\ q * Mss \in Nat
      BY <1>1, <1>2, <2>2, Multiples
    <2>4. Cut(d, i - 1) = (IF x > L THEN L ELSE x) /\ Cut(d, i) = (IF y > L THEN L ELSE y)
      BY DEF Cut
    <2> HIDE DEF x, y, L
    <2>5. /\ Cut(d, i - 1) = x /\ Cut(d, i - 1) \in Nat /\ Cut(d, i) \in Nat
          /\ Cut(d, i) = IF x + Mss > L THEN L ELSE x + Mss
          /\ Cut(d, i - 1) < Cut(d, i) /\ Cut(d, i) <= L
      BY <1>1, <2>3, <2>4, Capacities
    <2> QED
      BY <2>5 DEF x
  <1>9. ASSUME NEW i \in 1..n
        PROVE  s[i] = Segment("data", Sq(e.onext + Cut(d, i - 1)), e.cnext,
                              SubSeq(d, Cut(d, i - 1) + 1, Cut(d, i)))
    <2>1. s[i] = Segment("data", Sq(e.onext + (i - 1) * Mss), e.cnext,
                         SubSeq(d, (i - 1) * Mss + 1,
                                IF (i - 1) * Mss + Mss > L THEN L ELSE (i - 1) * Mss + Mss))
      BY DEF Chunks, q
    <2>2. /\ Cut(d, i - 1) = (i - 1) * Mss
          /\ Cut(d, i) = IF (i - 1) * Mss + Mss > L THEN L ELSE (i - 1) * Mss + Mss
      BY <1>8
    <2> HIDE DEF s, L
    <2> QED
      BY <2>1, <2>2, Zenon
  <1> HIDE DEF s, L
  <1>10. Len(s) \in Nat \ {0} /\ Cut(d, Len(s)) = L
    BY <1>2, <1>4, <1>6
  <1> QED
    BY <1>4, <1>7, <1>8, <1>9, <1>10 DEF s, L

LEMMA ChunksLinks ==
  ASSUME NEW e \in EntryState, NEW d \in Seq(0..MaxDown), d # <<>>
  PROVE  LET s == Chunks(e, d)
         IN  /\ Links(s, 0, e.onext)
             /\ After(s, 0, e.onext, Len(s)) = Advance(e.onext, Len(d))
  <1> DEFINE s == Chunks(e, d)
             o == e.onext
  <1>1. /\ Len(s) \in Nat \ {0}
        /\ Cut(d, 0) = 0 /\ Cut(d, Len(s)) = Len(d)
        /\ \A i \in 1..Len(s) :
             /\ Cut(d, i - 1) \in Nat /\ Cut(d, i) \in Nat
             /\ Cut(d, i - 1) < Cut(d, i) /\ Cut(d, i) <= Len(d)
             /\ s[i] = Segment("data", Sq(o + Cut(d, i - 1)), e.cnext,
                               SubSeq(d, Cut(d, i - 1) + 1, Cut(d, i)))
    BY ChunksCut
  <1>2. o \in 0..(Modulus - 1) /\ o \in Nat /\ Sq(o) = o
    BY EntryFields, SmallNumber
  <1> HIDE DEF s, o
  <1>3. ASSUME NEW i \in 1..Len(s)
        PROVE  /\ s[i].kind = "data" /\ s[i].seq = Sq(o + Cut(d, i - 1))
               /\ Moves(s[i]) = Cut(d, i) - Cut(d, i - 1)
    <2> DEFINE a == Cut(d, i - 1)
               b == Cut(d, i)
               t == SubSeq(d, a + 1, b)
    <2>1. a \in Nat /\ b \in Nat /\ a < b /\ b <= Len(d) /\ s[i] = Segment("data", Sq(o + a), e.cnext, t)
      BY <1>1
    <2>2. Len(t) = b - a
      <3>1. a + 1 \in Int /\ b \in Int /\ Len(d) \in Nat
        BY <2>1, LenProperties
      <3> HIDE DEF a, b
      <3>2. \A j \in (a + 1)..b : d[j] \in 0..MaxDown
        <4> SUFFICES ASSUME NEW j \in (a + 1)..b
                     PROVE  d[j] \in 0..MaxDown
          OBVIOUS
        <4>1. j \in 1..Len(d)
          BY <2>1, <3>1
        <4> QED
          BY <4>1, ElementOfSeq
      <3>3. Len(t) = IF a + 1 <= b THEN b - (a + 1) + 1 ELSE 0
        BY <3>1, <3>2, SubSeqProperties
      <3> QED
        BY <2>1, <3>3
    <2> HIDE DEF a, b, t
    <2>3. s[i].kind = "data" /\ s[i].seq = Sq(o + a) /\ s[i].data = t
      BY <2>1 DEF Segment
    <2>4. Moves(s[i]) = b - a
      <3>1. s[i].kind # "fin"
        BY <2>3
      <3>2. Moves(s[i]) = (b - a) + 0
        BY <2>2, <2>3, <3>1, Zenon DEF Moves
      <3> QED
        BY <2>1, <3>2
    <2> QED
      BY <2>3, <2>4 DEF a, b
  <1>4. ASSUME NEW i \in 0..Len(s)
        PROVE  After(s, 0, o, i) = Sq(o + Cut(d, i))
    <2>1. CASE i = 0
      <3>1. o + Cut(d, i) = o
        BY <1>1, <1>2, <2>1
      <3> QED
        BY <1>2, <2>1, <3>1 DEF After
    <2>2. CASE i # 0
      <3>1. i \in 1..Len(s)
        BY <2>2
      <3> DEFINE a == Cut(d, i - 1)
                 b == Cut(d, i)
      <3>2. a \in Nat /\ b \in Nat /\ a < b /\ s[i].seq = Sq(o + a) /\ Moves(s[i]) = b - a
        BY <1>1, <1>3, <3>1
      <3> HIDE DEF a, b
      <3>3. o + a \in Nat /\ b - a \in Nat /\ o + a + (b - a) = o + b
        BY <1>2, <3>2
      <3>4. Sq(Sq(o + a) + (b - a)) = Sq(o + b)
        BY <3>3, CountOn
      <3> QED
        BY <2>2, <3>2, <3>4 DEF After, b
    <2> QED
      BY <2>1, <2>2
  <1>5. Links(s, 0, o)
    <2> SUFFICES ASSUME NEW i \in (0 + 1)..Len(s)
                 PROVE  s[i].kind # "synack" /\ s[i].seq = After(s, 0, o, i - 1)
      BY DEF Links
    <2>1. i \in 1..Len(s) /\ i - 1 \in 0..Len(s)
      BY <1>1
    <2> QED
      BY <1>3, <1>4, <2>1
  <1>6. After(s, 0, o, Len(s)) = Sq(o + Len(d))
    BY <1>1, <1>4
  <1> QED
    BY <1>5, <1>6 DEF s, o, Advance
-----------------------------------------------------------------------------
(* A step that sends s to the client, numbered from the entry's number on, *)
(* and counts it there as long as there is an entry.                       *)
Sends(s) ==
  /\ s \in Seq(SegmentState) /\ tunOut' = tunOut \o s
  /\ ~nat.ex => s = <<>>
  /\ Links(s, 0, nat.onext)
  /\ nat'.ex => nat.ex /\ nat'.onext = After(s, 0, nat.onext, Len(s))

(* None of it carries bytes, and whatever ends the stream does so because  *)
(* of e.                                                                   *)
Quiet(s, e) == \A i \in 1..Len(s) : s[i].data = <<>> /\ (s[i].kind = "fin" => e)

LEMMA SendsNothing ==
  ASSUME Typed, tunOut' = tunOut, nat'.ex => nat.ex /\ nat'.onext = nat.onext
  PROVE  Sends(<<>>) /\ Quiet(<<>>, FALSE)
  <1>1. <<>> \in Seq(SegmentState) /\ tunOut \o <<>> = tunOut
    BY ConcatEmptySeq DEF Typed
  <1>2. Quiet(<<>>, FALSE)
    <2>1. Len(<<>>) = 0
      OBVIOUS
    <2> QED
      BY <2>1 DEF Quiet
  <1> QED
    BY <1>1, <1>2, LinksNone DEF Sends

(* A control segment.                                                      *)
LEMMA SignalSends ==
  ASSUME NEW kind \in {"ack", "fin", "rst"}, NEW n \in 0..(Modulus - 1),
         NEW a \in 0..(Modulus - 1), NEW e, kind = "fin" => e
  PROVE  LET s == <<Segment(kind, n, a, <<>>)>>
         IN  /\ s \in Seq(SegmentState) /\ Links(s, 0, n) /\ Quiet(s, e)
             /\ After(s, 0, n, Len(s)) = IF kind = "fin" THEN Sq(n + 1) ELSE n
  <1> DEFINE x == Segment(kind, n, a, <<>>)
             s == <<x>>
  <1>1. s \in Seq(SegmentState) /\ Len(s) = 1
    BY SignalType
  <1>2. Quiet(s, e)
    <2>1. s[1].kind = kind /\ s[1].data = <<>>
      BY DEF Segment
    <2> HIDE DEF s
    <2>2. \A i \in 1..Len(s) : i = 1
      BY <1>1
    <2> QED
      BY <2>1, <2>2 DEF Quiet
  <1>3. Links(s, 0, n) /\ After(s, 0, n, Len(s)) = IF kind = "fin" THEN Sq(n + 1) ELSE n
    BY LinksSignal
  <1> QED
    BY <1>1, <1>2, <1>3

LEMMA SegmentSends ==
  ASSUME Typed, NEW seq \in 0..(Modulus - 1), NEW data \in Seq(1..MaxUp), NEW fin \in BOOLEAN,
         HandleSegment(seq, data, fin)
  PROVE  \E s : Sends(s) /\ Quiet(s, ended')
  <1>1. CASE ~nat.ex
    <2>1. UNCHANGED <<nat, tunOut>>
      BY <1>1 DEF HandleSegment
    <2>2. Sends(<<>>) /\ Quiet(<<>>, FALSE)
      BY <2>1, SendsNothing
    <2> QED
      BY <2>2 DEF Quiet
  <1>2. CASE nat.ex
    <2> DEFINE closing == nat.st = "closing"
               take == data # <<>> /\ InOrder(nat, seq)
               cn == IF take THEN Sq(seq + Len(data)) ELSE nat.cnext
               e1 == [nat EXCEPT !.st = IF @ = "syn" THEN "est" ELSE @,
                                 !.cnext = cn,
                                 !.pend = IF take /\ ~closing /\ ~nat.conn
                                          THEN @ \o data ELSE @]
               kind == IF closing THEN "ack" ELSE "fin"
               c == Sq(cn + 1)
               a == <<Segment("ack", nat.onext, cn, <<>>)>>
               b == <<Segment(kind, nat.onext, c, <<>>)>>
               ack1 == IF data # <<>> \/ (~fin /\ seq # nat.cnext) THEN a ELSE <<>>
               ack2 == IF fin THEN b ELSE <<>>
    <2>1. nat \in EntryState /\ tunOut \in Seq(SegmentState)
      BY DEF Typed
    <2>2. e1.ex /\ e1.onext = nat.onext /\ e1.cnext = cn
      BY <1>2, <2>1 DEF EntryState
    <2>3. /\ nat' = IF fin THEN NoEntry ELSE e1
          /\ tunOut' = tunOut \o ack1 \o ack2
          /\ ended' = (ended \/ (fin /\ ~closing))
      BY <1>2, <2>2 DEF HandleSegment, AfterFin
    <2>4. cn \in 0..(Modulus - 1) /\ cn \in Nat /\ nat.onext \in 0..(Modulus - 1)
      <3>1. seq + Len(data) \in Nat
        BY Capacities, LenProperties
      <3> QED
        BY <2>1, <3>1, SqType, EntryFields
    <2> HIDE DEF e1, cn
    <2>5. c \in 0..(Modulus - 1)
      <3>1. cn + 1 \in Nat
        BY <2>4
      <3> QED
        BY <3>1, SqType
    <2> HIDE DEF c
    <2>6. /\ a \in Seq(SegmentState) /\ Links(a, 0, nat.onext) /\ Quiet(a, ended')
          /\ After(a, 0, nat.onext, Len(a)) = nat.onext
      BY <2>4, SignalSends
    <2>7. ASSUME fin
          PROVE  b \in Seq(SegmentState) /\ Links(b, 0, nat.onext) /\ Quiet(b, ended')
      <3>1. kind \in {"ack", "fin", "rst"} /\ (kind = "fin" => ended')
        BY <2>3, <2>7
      <3> HIDE DEF kind
      <3> QED
        BY <2>4, <2>5, <3>1, SignalSends
    <2> HIDE DEF a, b
    <2>8. /\ <<>> \in Seq(SegmentState) /\ Links(<<>>, 0, nat.onext)
          /\ After(<<>>, 0, nat.onext, Len(<<>>)) = nat.onext /\ Len(<<>>) = 0
      BY LinksNone
    <2>9. \A e : Quiet(<<>>, e)
      BY <2>8 DEF Quiet
    <2>10. /\ ack1 \in Seq(SegmentState) /\ Links(ack1, 0, nat.onext) /\ Quiet(ack1, ended')
           /\ After(ack1, 0, nat.onext, Len(ack1)) = nat.onext
      BY <2>6, <2>8, <2>9
    <2>11. /\ ack2 \in Seq(SegmentState) /\ Links(ack2, 0, nat.onext) /\ Quiet(ack2, ended')
           /\ ~fin => ack2 = <<>>
      BY <2>7, <2>8, <2>9
    <2> HIDE DEF ack1, ack2
    <2> DEFINE s == ack1 \o ack2
    <2>12. /\ s \in Seq(SegmentState) /\ tunOut' = tunOut \o s
           /\ Len(s) = Len(ack1) + Len(ack2) /\ Len(ack1) \in Nat /\ Len(ack2) \in Nat
           /\ \A i \in 1..Len(s) : s[i] = IF i <= Len(ack1) THEN ack1[i] ELSE ack2[i - Len(ack1)]
      <3>1. tunOut' = tunOut \o s
        <4>1. /\ tunOut \in Seq(SegmentState) /\ ack1 \in Seq(SegmentState)
              /\ ack2 \in Seq(SegmentState)
          BY <2>1, <2>10, <2>11
        <4>2. (tunOut \o ack1) \o ack2 = tunOut \o (ack1 \o ack2)
          BY ONLY <4>1, ConcatAssociative
        <4> QED
          BY ONLY <2>3, <4>2
      <3> QED
        BY <2>10, <2>11, <3>1, ConcatProperties, LenProperties
    <2>13. /\ Links(s, 0, nat.onext)
           /\ After(s, 0, nat.onext, Len(s)) = After(ack2, 0, nat.onext, Len(ack2))
      <3>1. 0 \in 0..Len(ack1)
        BY <2>12
      <3> QED
        BY <2>10, <2>11, <3>1, LinksMore
    <2> HIDE DEF s
    <2>14. Quiet(s, ended')
      <3> SUFFICES ASSUME NEW i \in 1..Len(s)
                   PROVE  s[i].data = <<>> /\ (s[i].kind = "fin" => ended')
        BY DEF Quiet
      <3>1. CASE i <= Len(ack1)
        <4>1. i \in 1..Len(ack1) /\ s[i] = ack1[i]
          BY <2>12, <3>1
        <4> QED
          BY <2>10, <4>1 DEF Quiet
      <3>2. CASE i > Len(ack1)
        <4>1. i - Len(ack1) \in 1..Len(ack2) /\ s[i] = ack2[i - Len(ack1)]
          BY <2>12, <3>2
        <4> QED
          BY <2>11, <4>1 DEF Quiet
      <3> QED
        BY <2>12, <3>1, <3>2
    <2>15. nat'.ex => nat'.onext = After(s, 0, nat.onext, Len(s))
      <3>1. CASE fin
        BY <2>3, <3>1, NoEntryType
      <3>2. CASE ~fin
        <4>1. After(ack2, 0, nat.onext, Len(ack2)) = nat.onext
          BY <2>8, <2>11, <3>2
        <4> QED
          BY <2>2, <2>3, <2>13, <3>2, <4>1
      <3> QED
        BY <3>1, <3>2
    <2> QED
      BY <1>2, <2>12, <2>13, <2>14, <2>15 DEF Sends
  <1> QED
    BY <1>1, <1>2

LEMMA ResetSends ==
  ASSUME Typed, OnReset
  PROVE  \E s : Sends(s) /\ Quiet(s, FALSE)
  <1>1. nat' = NoEntry /\ ~nat'.ex
    BY NoEntryType DEF OnReset
  <1>2. CASE ~nat.ex
    BY <1>1, <1>2, SendsNothing DEF OnReset
  <1>3. CASE nat.ex
    <2>1. nat.onext \in 0..(Modulus - 1) /\ nat.cnext \in 0..(Modulus - 1)
          /\ tunOut \in Seq(SegmentState)
      BY EntryFields DEF Typed
    <2> DEFINE s == <<Segment("rst", nat.onext, nat.cnext, <<>>)>>
    <2>2. s \in Seq(SegmentState) /\ Links(s, 0, nat.onext) /\ Quiet(s, FALSE)
      BY <2>1, SignalSends
    <2>3. tunOut' = tunOut \o s
      <3>1. Append(tunOut, Segment("rst", nat.onext, nat.cnext, <<>>)) = tunOut \o s
        BY <2>1, SignalType
      <3> QED
        BY <1>3, <3>1 DEF OnReset
    <2> HIDE DEF s
    <2> QED
      BY <1>1, <1>3, <2>2, <2>3 DEF Sends
  <1> QED
    BY <1>2, <1>3

LEMMA ShutdownSends ==
  ASSUME Typed, OnShutdown
  PROVE  \E s : Sends(s) /\ Quiet(s, TRUE)
  <1>1. CASE ~nat.ex
    <2>1. Sends(<<>>) /\ Quiet(<<>>, FALSE)
      BY <1>1, SendsNothing DEF OnShutdown
    <2> QED
      BY <2>1 DEF Quiet
  <1>2. CASE nat.ex
    <2>1. nat.onext \in 0..(Modulus - 1) /\ nat.cnext \in 0..(Modulus - 1)
          /\ tunOut \in Seq(SegmentState)
      BY EntryFields DEF Typed
    <2> DEFINE s == <<Segment("fin", nat.onext, nat.cnext, <<>>)>>
    <2>2. /\ s \in Seq(SegmentState) /\ Links(s, 0, nat.onext) /\ Quiet(s, TRUE)
          /\ After(s, 0, nat.onext, Len(s)) = Sq(nat.onext + 1)
      BY <2>1, SignalSends
    <2>3. tunOut' = tunOut \o s
      <3>1. Append(tunOut, Segment("fin", nat.onext, nat.cnext, <<>>)) = tunOut \o s
        BY <2>1, SignalType
      <3> QED
        BY <1>2, <3>1 DEF OnShutdown
    <2> DEFINE o == Sq(nat.onext + 1)
    <2>4. nat' = [nat EXCEPT !.onext = o, !.st = "closing"]
      BY <1>2 DEF OnShutdown
    <2> HIDE DEF s, o
    <2>5. nat'.onext = o
      BY <2>4 DEF Typed, EntryState
    <2> QED
      BY <1>2, <2>2, <2>3, <2>5 DEF Sends, o
  <1> QED
    BY <1>1, <1>2

LEMMA DataSends ==
  ASSUME Typed, NEW data \in Seq(0..MaxDown), data # <<>>, OnData(data)
  PROVE  Sends(IF nat.ex THEN Chunks(nat, data) ELSE <<>>)
  <1>1. CASE ~nat.ex
    <2>1. Sends(<<>>)
      BY <1>1, SendsNothing DEF OnData
    <2> QED
      BY <1>1, <2>1
  <1>2. CASE nat.ex
    <2> DEFINE s == Chunks(nat, data)
               o == Advance(nat.onext, Len(data))
    <2>1. nat \in EntryState
      BY DEF Typed
    <2>2. s \in Seq(SegmentState)
      BY <2>1, ChunksType
    <2>3. Links(s, 0, nat.onext) /\ After(s, 0, nat.onext, Len(s)) = o
      BY <2>1, ChunksLinks
    <2>4. tunOut' = tunOut \o s /\ nat' = [nat EXCEPT !.onext = o]
      BY <1>2 DEF OnData
    <2> HIDE DEF s, o
    <2>5. nat'.onext = o
      BY <2>1, <2>4 DEF EntryState
    <2>6. Sends(s)
      BY <1>2, <2>2, <2>3, <2>4, <2>5 DEF Sends
    <2> QED
      BY <1>2, <2>6 DEF s
  <1> QED
    BY <1>1, <1>2
-----------------------------------------------------------------------------
(* What the client's stream starts with stays where it is while segments   *)
(* are added to the queue.                                                 *)
SameClient ==
  \/ client'.st = "closed"
  \/ client'.st = client.st /\ client'.isn = client.isn /\ client'.rcv = client.rcv

LEMMA StartsKept ==
  ASSUME Typed, NEW s, Sends(s), SameClient,
         NEW k \in 0..Len(tunOut'), NEW n, Starts(k, n)'
  PROVE  k \in 0..Len(tunOut) /\ Starts(k, n) /\ client'.st = client.st
  <1>1. client'.st # "closed" /\ client'.st = client.st /\ client'.isn = client.isn
        /\ client'.rcv = client.rcv
    BY DEF SameClient, Starts
  <1>2. /\ s \in Seq(SegmentState) /\ tunOut \in Seq(SegmentState) /\ tunOut' = tunOut \o s
        /\ Links(s, 0, nat.onext)
    BY DEF Typed, Sends
  <1> DEFINE w == tunOut \o s
  <1>3. /\ Len(w) = Len(tunOut) + Len(s) /\ Len(tunOut) \in Nat /\ Len(s) \in Nat
        /\ \A i \in 1..Len(w) : w[i] = IF i <= Len(tunOut) THEN tunOut[i] ELSE s[i - Len(tunOut)]
    BY <1>2, ConcatProperties, LenProperties
  <1>4. tunOut' = w
    BY <1>2
  <1> HIDE DEF w
  <1>5. CASE client'.st = "est"
    BY <1>1, <1>3, <1>5 DEF Starts
  <1>6. CASE client'.st = "syn"
    <2>1. k \in 1..Len(w) /\ w[k].kind = "synack" /\ w[k].ack = Sq(client.isn + 1)
          /\ n = Sq(w[k].seq + 1)
      BY <1>1, <1>4, <1>6 DEF Starts, Answers
    <2>2. CASE k <= Len(tunOut)
      <3>1. w[k] = tunOut[k] /\ k \in 1..Len(tunOut)
        BY <1>3, <2>1, <2>2
      <3> QED
        BY <1>1, <1>6, <2>1, <3>1 DEF Starts, Answers
    <2>3. CASE k > Len(tunOut)
      <3>1. k - Len(tunOut) \in (0 + 1)..Len(s) /\ w[k] = s[k - Len(tunOut)]
        BY <1>3, <2>1, <2>3
      <3>2. s[k - Len(tunOut)].kind # "synack"
        BY <1>2, <3>1 DEF Links
      <3> QED
        BY <2>1, <3>1, <3>2
    <2> QED
      BY <1>3, <2>1, <2>2, <2>3
  <1> QED
    BY <1>5, <1>6 DEF Starts

LEMMA DownstreamKept ==
  ASSUME Typed, Downstream, NEW s, Sends(s), SameClient
  PROVE  Downstream'
  <1> SUFFICES ASSUME NEW k \in 0..Len(tunOut'), NEW n \in Nat, Starts(k, n)'
               PROVE  /\ Links(tunOut', k, n)
                      /\ nat'.ex => nat'.onext = After(tunOut', k, n, Len(tunOut'))
    BY DEF Downstream
  <1>1. k \in 0..Len(tunOut) /\ Starts(k, n)
    BY StartsKept
  <1>2. /\ Links(tunOut, k, n)
        /\ nat.ex => nat.onext = After(tunOut, k, n, Len(tunOut))
    BY <1>1 DEF Downstream
  <1>3. tunOut \in Seq(SegmentState) /\ s \in Seq(SegmentState) /\ tunOut' = tunOut \o s
    BY DEF Typed, Sends
  <1>4. CASE nat.ex
    <2>1. Links(s, 0, After(tunOut, k, n, Len(tunOut)))
      BY <1>2, <1>4 DEF Sends
    <2>2. /\ Links(tunOut \o s, k, n)
          /\ After(tunOut \o s, k, n, Len(tunOut \o s)) = After(s, 0, nat.onext, Len(s))
      BY <1>1, <1>2, <1>3, <1>4, <2>1, LinksMore
    <2> QED
      BY <1>3, <2>2 DEF Sends
  <1>5. CASE ~nat.ex
    <2>1. ~nat'.ex /\ tunOut' = tunOut
      BY <1>3, <1>5, ConcatEmptySeq DEF Sends
    <2> QED
      BY <1>2, <2>1
  <1> QED
    BY <1>4, <1>5

(* A new connection: only the answer to its own SYN counts.                *)
LEMMA SynFacts ==
  ASSUME Typed, ClientSyn
  PROVE  \E isn \in Isns, seq \in 0..(Modulus - 1) :
           /\ client' = [NoClient EXCEPT !.st = "syn", !.isn = seq]
           /\ client'.st = "syn" /\ client'.isn = seq /\ client'.got = <<>> /\ ~client'.rfin
           /\ nat' = NewEntry(seq, isn)
           /\ isn \in Nat
           /\ Len(tunOut') = Len(tunOut) + 1 /\ Len(tunOut) \in Nat
           /\ tunOut'[Len(tunOut')].seq = isn
           /\ \A k \in 1..Len(tunOut') : Answers(tunOut'[k], client'.isn) => k = Len(tunOut')
  <1>1. PICK seq \in Isns :
          /\ \A i \in 1..Len(tunOut) :
               tunOut[i].kind = "synack" => tunOut[i].ack # Sq(seq + 1)
          /\ client' = [NoClient EXCEPT !.st = "syn", !.isn = seq]
          /\ HandleSyn(seq)
    BY DEF ClientSyn
  <1>2. PICK isn \in Isns :
          /\ nat' = NewEntry(seq, isn)
          /\ tunOut' = Append(tunOut, Segment("synack", isn, Sq(seq + 1), <<>>))
    BY <1>1 DEF HandleSyn
  <1>3. seq \in 0..(Modulus - 1) /\ isn \in Nat /\ isn \in 0..(Modulus - 1) /\ seq + 1 \in Nat
    BY Capacities
  <1>4. client'.st = "syn" /\ client'.isn = seq /\ client'.got = <<>> /\ ~client'.rfin
    BY <1>1 DEF NoClient
  <1> DEFINE c == Sq(seq + 1)
             x == Segment("synack", isn, c, <<>>)
  <1>5. c \in 0..(Modulus - 1)
    BY <1>3, SqType
  <1> HIDE DEF c
  <1>6. x \in SegmentState /\ x.seq = isn
    BY <1>3, <1>5, SignalType DEF Segment
  <1> HIDE DEF x
  <1>7. tunOut' = Append(tunOut, x) /\ tunOut \in Seq(SegmentState)
    BY <1>2 DEF Typed, x, c
  <1>8. /\ Len(tunOut') = Len(tunOut) + 1 /\ Len(tunOut) \in Nat
        /\ \A i \in 1..Len(tunOut) : tunOut'[i] = tunOut[i]
        /\ tunOut'[Len(tunOut) + 1] = x
    BY <1>6, <1>7, AppendProperties, LenProperties
  <1>9. ASSUME NEW k \in 1..Len(tunOut'), Answers(tunOut'[k], client'.isn)
        PROVE  k = Len(tunOut')
    <2>1. CASE k \in 1..Len(tunOut)
      BY <1>1, <1>4, <1>8, <1>9, <2>1 DEF Answers
    <2> QED
      BY <1>8, <2>1
  <1> QED
    BY <1>1, <1>2, <1>3, <1>4, <1>6, <1>8, <1>9

LEMMA SynDownstream ==
  ASSUME Typed, ClientSyn
  PROVE  Downstream'
  <1>1. PICK isn \in Isns, seq \in 0..(Modulus - 1) :
          /\ client'.st = "syn"
          /\ nat' = NewEntry(seq, isn)
          /\ Len(tunOut') = Len(tunOut) + 1 /\ Len(tunOut) \in Nat
          /\ tunOut'[Len(tunOut')].seq = isn
          /\ \A k \in 1..Len(tunOut') : Answers(tunOut'[k], client'.isn) => k = Len(tunOut')
    BY SynFacts
  <1>2. nat'.onext = Sq(isn + 1)
    BY <1>1 DEF NewEntry, NoEntry
  <1> SUFFICES ASSUME NEW k \in 0..Len(tunOut'), NEW n \in Nat, Starts(k, n)'
               PROVE  /\ Links(tunOut', k, n)
                      /\ nat'.ex => nat'.onext = After(tunOut', k, n, Len(tunOut'))
    BY DEF Downstream
  <1>3. k = Len(tunOut') /\ n = Sq(isn + 1)
    BY <1>1 DEF Starts
  <1>4. Links(tunOut', k, n)
    <2>1. (k + 1)..Len(tunOut') = {}
      BY <1>1, <1>3
    <2> QED
      BY <2>1 DEF Links
  <1> QED
    BY <1>2, <1>3, <1>4 DEF After

(* What the client makes of the head of the queue.                         *)
LEMMA Received ==
  ASSUME Typed, Downstream, ClientReceives
  PROVE  /\ tunOut # <<>> /\ tunOut' = Tail(tunOut) /\ nat' = nat
         /\ UNCHANGED <<server, late, taken, fwd, ended>>
         /\ LET p == tunOut[1]
            IN  \/ client'.st = "closed" /\ client'.got = client.got /\ client'.rfin = client.rfin
                \/ /\ client.st = "syn" /\ Answers(p, client.isn)
                   /\ client'.st = "est" /\ client'.rcv = Sq(p.seq + 1)
                   /\ client'.got = client.got /\ client'.rfin = client.rfin
                \/ /\ client.st = "est" /\ Links(tunOut, 0, client.rcv)
                   /\ client'.st = "est" /\ client'.rcv = Sq(client.rcv + Moves(p))
                   /\ client'.got = client.got \o p.data
                   /\ client'.rfin = (client.rfin \/ p.kind = "fin")
                \/ client.st = "syn" /\ client' = client
  <1> DEFINE p   == Head(tunOut)
             old == (client.rcv + Modulus - p.seq) % Modulus
             new == IF old < Len(p.data) THEN SubSeq(p.data, old + 1, Len(p.data))
                                         ELSE <<>>
             end == p.kind = "fin" /\ old = 0
             opens  == p.kind = "synack" /\ client.st = "syn" /\ p.ack = Sq(client.isn + 1)
             closes == p.kind = "rst" /\ Aborts(p)
             reads  == p.kind \in {"data", "ack", "fin"} /\ client.st = "est"
             got  == client.got \o new
             rfin == client.rfin \/ end
             rcv  == Sq(client.rcv + Len(new) + IF end THEN 1 ELSE 0)
             una  == Acked(p.ack)
  <1>1. /\ tunOut # <<>> /\ tunOut' = Tail(tunOut) /\ nat' = nat
        /\ UNCHANGED <<server, late, taken, fwd, ended>>
    BY DEF ClientReceives, upstream
  <1>2. client' = CASE opens  -> [client EXCEPT !.st = "est", !.rcv = Sq(p.seq + 1)]
                    [] closes -> [client EXCEPT !.st = "closed"]
                    [] reads  -> [client EXCEPT !.una = una, !.got = got,
                                                !.rfin = rfin, !.rcv = rcv]
                    [] OTHER  -> client
    BY DEF ClientReceives
  <1>3. /\ tunOut \in Seq(SegmentState) /\ p \in SegmentState /\ p = tunOut[1]
        /\ client \in ClientState /\ client.rcv \in 0..(Modulus - 1)
    BY <1>1, HeadTailProperties DEF Typed, ClientState
  <1> HIDE DEF p
  <1>4. ASSUME client.st = "est"
        PROVE  Links(tunOut, 0, client.rcv) /\ p.seq = client.rcv /\ p.kind # "synack"
    <2>1. Starts(0, client.rcv) /\ client.rcv \in Nat /\ 0 \in 0..Len(tunOut)
      BY <1>3, <1>4, Capacities, LenProperties DEF Starts
    <2>2. Links(tunOut, 0, client.rcv)
      BY <2>1 DEF Downstream
    <2> QED
      BY <1>1, <1>3, <2>2, LinksNext
  <1>5. ASSUME client.st = "est"
        PROVE  old = 0 /\ new = p.data /\ rcv = Sq(client.rcv + Moves(p))
    <2>1. client.rcv + Modulus - p.seq = Modulus /\ Modulus \in Nat \ {0}
      BY <1>3, <1>4, <1>5, Capacities
    <2>2. old = 0
      <3>1. 1 \in Nat /\ 0 \in 0..(Modulus - 1) /\ Modulus * 1 + 0 = Modulus
        BY <2>1
      <3>2. Sq(Modulus * 1 + 0) = 0
        BY <3>1, Remainder
      <3> QED
        BY <2>1, <3>1, <3>2 DEF Sq
    <2> HIDE DEF old
    <2>3. p.data \in Seq(0..MaxDown) /\ Len(p.data) \in Nat
      BY <1>3, SegmentFields
    <2> DEFINE d == p.data
    <2>4. new = IF 0 < Len(d) THEN SubSeq(d, 0 + 1, Len(d)) ELSE <<>>
      BY <2>2
    <2> HIDE DEF new, d
    <2>5. d \in Seq(0..MaxDown) /\ Len(d) \in Nat /\ 0 + 1 = 1
      BY <2>3 DEF d
    <2>6. new = d
      <3>1. CASE 0 < Len(d)
        <4>1. SubSeq(d, 1, Len(d)) = d
          BY <2>5, SubSeqFull
        <4> QED
          BY <2>4, <2>5, <3>1, <4>1
      <3>2. CASE ~(0 < Len(d))
        <4>1. d = <<>>
          BY <2>5, <3>2, EmptySeq
        <4> QED
          BY <2>4, <3>2, <4>1
      <3> QED
        BY <3>1, <3>2
    <2>7. rcv = Sq(client.rcv + Moves(p))
      <3>1. Moves(p) = Len(new) + IF end THEN 1 ELSE 0
        BY <2>2, <2>6 DEF Moves, d
      <3>2. client.rcv + Len(new) + (IF end THEN 1 ELSE 0)
              = client.rcv + (Len(new) + IF end THEN 1 ELSE 0)
        <4>1. Len(new) \in Nat /\ client.rcv \in Nat
          BY <1>3, <2>5, <2>6, Capacities
        <4> HIDE DEF end
        <4> QED
          BY <4>1
      <3> QED
        BY <3>1, <3>2
    <2> QED
      BY <2>2, <2>6, <2>7 DEF d
  <1> HIDE DEF old, new, una, rcv
  <1>6. CASE opens
    <2> DEFINE r == Sq(p.seq + 1)
    <2>1. client' = [client EXCEPT !.st = "est", !.rcv = r]
      BY <1>2, <1>6, Zenon
    <2> HIDE DEF r
    <2>2. client'.st = "est" /\ client'.rcv = r /\ client'.got = client.got
          /\ client'.rfin = client.rfin
      BY <1>3, <2>1 DEF ClientState
    <2> QED
      BY <1>1, <1>3, <1>6, <2>2 DEF Answers, r
  <1>7. CASE ~opens /\ closes
    <2>1. client' = [client EXCEPT !.st = "closed"]
      BY <1>2, <1>7, Zenon
    <2>2. client'.st = "closed" /\ client'.got = client.got /\ client'.rfin = client.rfin
      BY <1>3, <2>1 DEF ClientState
    <2> QED
      BY <1>1, <2>2
  <1>8. CASE ~opens /\ ~closes /\ reads
    <2> HIDE DEF got, rfin
    <2>1. client' = [client EXCEPT !.una = una, !.got = got, !.rfin = rfin, !.rcv = rcv]
      BY <1>2, <1>8, Zenon
    <2>2. client'.st = "est" /\ client'.rcv = rcv /\ client'.got = got /\ client'.rfin = rfin
      BY <1>3, <1>8, <2>1 DEF ClientState
    <2>3. got = client.got \o p.data
      BY <1>5, <1>8 DEF got
    <2>4. rfin = (client.rfin \/ p.kind = "fin")
      BY <1>5, <1>8, Zenon DEF rfin
    <2>5. client'.rfin = (client.rfin \/ p.kind = "fin")
      BY <2>2, <2>4, Zenon
    <2>6. client'.rcv = Sq(client.rcv + Moves(p)) /\ client'.got = client.got \o p.data
      BY <1>5, <1>8, <2>2, <2>3
    <2> QED
      BY <1>1, <1>3, <1>4, <1>8, <2>2, <2>5, <2>6, Zenon
  <1>9. CASE ~opens /\ ~closes /\ ~reads
    <2>1. client' = client
      BY <1>2, <1>9, Zenon
    <2>2. client.st # "est"
      <3>1. p.kind \in {"synack", "ack", "data", "fin", "rst"}
        BY <1>3 DEF SegmentState
      <3> QED
        BY <1>4, <1>9, <3>1 DEF Aborts
    <2>3. client.st \in {"closed", "syn", "est"}
      BY <1>3 DEF ClientState
    <2> QED
      BY <1>1, <2>1, <2>2, <2>3
  <1> QED
    BY <1>6, <1>7, <1>8, <1>9

LEMMA ReceiveDownstream ==
  ASSUME Typed, Downstream, ClientReceives
  PROVE  Downstream'
  <1>1. /\ tunOut # <<>> /\ tunOut' = Tail(tunOut) /\ nat' = nat
        /\ tunOut \in Seq(SegmentState) /\ Len(tunOut) \in Nat /\ Len(tunOut) >= 1
        /\ Len(Tail(tunOut)) = Len(tunOut) - 1
        /\ \A i \in 1..Len(Tail(tunOut)) : Tail(tunOut)[i] = tunOut[i + 1]
    <2>1. tunOut # <<>> /\ tunOut' = Tail(tunOut) /\ nat' = nat
      BY Received
    <2>2. tunOut \in Seq(SegmentState)
      BY DEF Typed
    <2> QED
      BY <2>1, <2>2, HeadTailProperties, LenProperties, EmptySeq
  <1> SUFFICES ASSUME NEW k \in 0..Len(tunOut'), NEW n \in Nat, Starts(k, n)'
               PROVE  /\ Links(tunOut', k, n)
                      /\ nat'.ex => nat'.onext = After(tunOut', k, n, Len(tunOut'))
    BY DEF Downstream
  <1>2. ASSUME NEW m \in Nat, k + 1 \in 1..Len(tunOut), Starts(k + 1, m), m = n
        PROVE  /\ Links(tunOut', k, n)
               /\ nat'.ex => nat'.onext = After(tunOut', k, n, Len(tunOut'))
    <2>1. k + 1 - 1 = k /\ k + 1 \in 0..Len(tunOut)
      BY <1>2
    <2>2. /\ Links(tunOut, k + 1, n)
          /\ nat.ex => nat.onext = After(tunOut, k + 1, n, Len(tunOut))
      BY <1>2, <2>1 DEF Downstream
    <2>3. /\ Links(Tail(tunOut), k + 1 - 1, n)
          /\ After(Tail(tunOut), k + 1 - 1, n, Len(Tail(tunOut)))
               = After(tunOut, k + 1, n, Len(tunOut))
      BY <1>1, <1>2, <2>2, LinksRest
    <2> QED
      BY <1>1, <2>1, <2>2, <2>3
  <1>3. CASE /\ client.st = "syn" /\ Answers(tunOut[1], client.isn)
             /\ client'.st = "est" /\ client'.rcv = Sq(tunOut[1].seq + 1)
    <2>1. k = 0 /\ n = Sq(tunOut[1].seq + 1) /\ k + 1 = 1 /\ 1 \in 1..Len(tunOut)
      BY <1>1, <1>3 DEF Starts
    <2>2. Starts(1, n)
      BY <1>3, <2>1 DEF Starts
    <2> QED
      BY <1>2, <2>1, <2>2
  <1>4. CASE /\ client.st = "est" /\ Links(tunOut, 0, client.rcv)
             /\ client'.st = "est" /\ client'.rcv = Sq(client.rcv + Moves(tunOut[1]))
    <2>1. k = 0 /\ n = Sq(client.rcv + Moves(tunOut[1]))
      BY <1>4 DEF Starts
    <2>2. Starts(0, client.rcv) /\ client.rcv \in Nat /\ 0 \in 0..Len(tunOut)
      BY <1>1, <1>4, ClientFields DEF Starts, Typed
    <2>3. nat.ex => nat.onext = After(tunOut, 0, client.rcv, Len(tunOut))
      BY <2>2 DEF Downstream
    <2>4. /\ Links(Tail(tunOut), 0, n)
          /\ After(Tail(tunOut), 0, n, Len(Tail(tunOut))) = After(tunOut, 0, client.rcv, Len(tunOut))
      BY <1>1, <1>4, <2>1, LinksNext
    <2> QED
      BY <1>1, <2>1, <2>3, <2>4
  <1>5. CASE client.st = "syn" /\ client' = client
    <2>1. /\ k \in 1..Len(Tail(tunOut)) /\ Answers(Tail(tunOut)[k], client.isn)
          /\ n = Sq(Tail(tunOut)[k].seq + 1)
      BY <1>1, <1>5 DEF Starts
    <2>2. k + 1 \in 1..Len(tunOut) /\ Tail(tunOut)[k] = tunOut[k + 1]
      BY <1>1, <2>1
    <2>3. Starts(k + 1, n)
      BY <1>5, <2>1, <2>2 DEF Starts
    <2> QED
      BY <1>2, <2>2, <2>3
  <1> QED
    BY <1>3, <1>4, <1>5, Received DEF Starts

(* A segment from the client changes what it has sent.                     *)
LEMMA ClientSegment ==
  ASSUME Typed, ClientData \/ ClientFin \/ ClientAck
  PROVE  /\ client.st = "est" /\ SameClient /\ client'.st = "est"
         /\ client'.got = client.got /\ client'.rfin = client.rfin
         /\ \E seq \in 0..(Modulus - 1), data \in Seq(1..MaxUp), fin \in BOOLEAN :
              HandleSegment(seq, data, fin) \/ Lost
  <1>1. /\ client.isn \in Nat /\ client.una \in Nat /\ client.nxt \in Nat
        /\ client.nxt <= MaxUp /\ client \in ClientState /\ MaxUp \in Nat
    BY ClientFields, Capacities DEF Typed
  <1>2. ASSUME NEW a \in Nat, a >= 1, NEW b \in Nat, b <= MaxUp, a <= b + 1
        PROVE  Sq(client.isn + a) \in 0..(Modulus - 1) /\ Bytes(a, b) \in Seq(1..MaxUp)
    <2>1. a..b \subseteq 1..MaxUp /\ client.isn + a \in Nat
      BY <1>1, <1>2
    <2>2. Bytes(a, b) \in Seq(1..MaxUp)
      BY <1>2, <2>1, BytesProperties, Zenon
    <2> QED
      BY <2>1, <2>2, SqType
  <1>3. CASE ClientData
    <2>1. PICK a \in (client.una + 1)..(client.nxt + 1), b \in 1..MaxUp :
            /\ a <= b
            /\ client' = [client EXCEPT !.nxt = IF b > @ THEN b ELSE @]
            /\ HandleSegment(Sq(client.isn + a), Bytes(a, b), FALSE) \/ Lost
      BY <1>3 DEF ClientData
    <2>2. client.st = "est"
      BY <1>3 DEF ClientData
    <2>3. client'.st = "est" /\ SameClient /\ client'.got = client.got /\ client'.rfin = client.rfin
      BY <1>1, <2>1, <2>2 DEF SameClient, ClientState
    <2>4. Sq(client.isn + a) \in 0..(Modulus - 1) /\ Bytes(a, b) \in Seq(1..MaxUp)
      BY <1>1, <1>2, <2>1
    <2> QED
      BY <2>1, <2>2, <2>3, <2>4, Zenon
  <1>4. CASE ClientFin
    <2>1. PICK a \in (client.una + 1)..(client.nxt + 1) :
            HandleSegment(Sq(client.isn + a), Bytes(a, client.nxt), TRUE) \/ Lost
      BY <1>4 DEF ClientFin
    <2>2. client.st = "est" /\ client' = [client EXCEPT !.fin = TRUE]
      BY <1>4 DEF ClientFin
    <2>3. client'.st = "est" /\ SameClient /\ client'.got = client.got /\ client'.rfin = client.rfin
      BY <1>1, <2>2 DEF SameClient, ClientState
    <2>4. Sq(client.isn + a) \in 0..(Modulus - 1) /\ Bytes(a, client.nxt) \in Seq(1..MaxUp)
      BY <1>1, <1>2
    <2> QED
      BY <2>1, <2>2, <2>3, <2>4, Zenon
  <1>5. CASE ClientAck
    <2>1. PICK m \in {client.una, client.nxt + IF client.fin THEN 2 ELSE 1} :
            HandleSegment(Sq(client.isn + m), <<>>, FALSE) \/ Lost
      BY <1>5 DEF ClientAck
    <2>2. client.st = "est" /\ client' = client
      BY <1>5 DEF ClientAck
    <2>3. client.isn + m \in Nat
      BY <1>1
    <2>4. Sq(client.isn + m) \in 0..(Modulus - 1) /\ <<>> \in Seq(1..MaxUp)
      BY <2>3, SqType
    <2> QED
      BY <2>1, <2>2, <2>4, Zenon DEF SameClient
  <1> QED
    BY <1>3, <1>4, <1>5

LEMMA LostKeeps ==
  ASSUME Lost
  PROVE  UNCHANGED <<nat, tunOut, server, late, taken, fwd, ended>>
  BY DEF Lost, upstream

(* Whatever else happens, the queue only grows.                            *)
LEMMA OthersSend ==
  ASSUME Typed,
         \/ ClientData \/ ClientFin \/ ClientAck \/ ClientRst \/ ClientCloses
         \/ Relay \/ LateRelay \/ TimePasses \/ Cleanup \/ UNCHANGED vars
  PROVE  SameClient /\ \E s : Sends(s)
  <1>1. CASE ClientData \/ ClientFin \/ ClientAck
    <2>1. SameClient
      BY <1>1, ClientSegment
    <2>2. PICK seq \in 0..(Modulus - 1), data \in Seq(1..MaxUp), fin \in BOOLEAN :
            HandleSegment(seq, data, fin) \/ Lost
      BY <1>1, ClientSegment
    <2>3. CASE HandleSegment(seq, data, fin)
      BY <2>1, <2>3, SegmentSends
    <2>4. CASE Lost
      BY <2>1, <2>4, LostKeeps, SendsNothing
    <2> QED
      BY <2>2, <2>3, <2>4
  <1>2. CASE ClientRst \/ ClientCloses
    <2>1. client' = [client EXCEPT !.st = "closed"]
      BY <1>2 DEF ClientRst, ClientCloses
    <2>2. SameClient
      BY <2>1 DEF SameClient, Typed, ClientState
    <2>3. tunOut' = tunOut /\ (nat' = nat \/ ~nat'.ex)
      BY <1>2, LostKeeps, NoEntryType DEF ClientRst, ClientCloses, HandleRst
    <2>4. Sends(<<>>)
      BY <2>3, SendsNothing
    <2> QED
      BY <2>2, <2>4
  <1>3. CASE Relay \/ LateRelay
    <2>1. \/ OnConnected \/ OnReset \/ OnShutdown
          \/ \E data \in Seq(0..MaxDown) : data # <<>> /\ OnData(data)
      BY <1>3, ReportKinds
    <2>2. CASE OnConnected
      <3>1. client' = client /\ tunOut' = tunOut
        BY <2>2 DEF OnConnected
      <3>2. nat'.ex => nat.ex /\ nat'.onext = nat.onext
        BY <2>2 DEF OnConnected, Typed, EntryState
      <3>3. Sends(<<>>)
        BY <3>1, <3>2, SendsNothing
      <3> QED
        BY <3>1, <3>3 DEF SameClient
    <2>3. CASE OnReset
      BY <2>3, ResetSends DEF OnReset, SameClient
    <2>4. CASE OnShutdown
      BY <2>4, ShutdownSends DEF OnShutdown, SameClient
    <2>5. ASSUME NEW data \in Seq(0..MaxDown), data # <<>>, OnData(data)
          PROVE  SameClient /\ \E s : Sends(s)
      <3>1. client' = client
        BY <2>5 DEF OnData
      <3>2. Sends(IF nat.ex THEN Chunks(nat, data) ELSE <<>>)
        BY <2>5, DataSends
      <3> QED
        BY <3>1, <3>2 DEF SameClient
    <2> QED
      BY <2>1, <2>2, <2>3, <2>4, <2>5
  <1>4. CASE TimePasses \/ Cleanup \/ UNCHANGED vars
    <2>1. client' = client /\ tunOut' = tunOut
      BY <1>4 DEF TimePasses, Cleanup, vars
    <2>2. nat'.ex => nat.ex /\ nat'.onext = nat.onext
      BY <1>4, NoEntryType DEF TimePasses, Cleanup, vars, Typed, EntryState
    <2>3. Sends(<<>>)
      BY <2>1, <2>2, SendsNothing
    <2> QED
      BY <2>1, <2>3 DEF SameClient
  <1> QED
    BY <1>1, <1>2, <1>3, <1>4

(* When the adapter drops nothing and the client does not repeat its SYN,  *)
(* whatever else is lost or late.                                          *)
LEMMA DownstreamInductive ==
  ASSUME ~LossOut, ~SynRetry
  PROVE  Spec => []Downstream
  <1>1. Init => Downstream
    <2> SUFFICES ASSUME Init
                 PROVE  Downstream
      OBVIOUS
    <2>1. client.st = "closed"
      BY DEF Init, NoClient
    <2> QED
      BY <2>1 DEF Downstream, Starts
  <1>2. Typed /\ Downstream /\ [Next]_vars => Downstream'
    <2> SUFFICES ASSUME Typed, Downstream, [Next]_vars
                 PROVE  Downstream'
      OBVIOUS
    <2>1. ~SegmentDropped /\ ~ClientSynAgain
      BY DEF SegmentDropped, ClientSynAgain
    <2>2. CASE ClientSyn
      BY <2>2, SynDownstream
    <2>3. CASE ClientReceives
      BY <2>3, ReceiveDownstream
    <2>4. CASE ~ClientSyn /\ ~ClientReceives
      <3>1. SameClient /\ \E s : Sends(s)
        BY <2>1, <2>4, OthersSend DEF Next, Client
      <3> QED
        BY <3>1, DownstreamKept
    <2> QED
      BY <2>2, <2>3, <2>4
  <1> QED
    BY <1>1, <1>2, Inductive, PTL DEF Spec

(* A client whose queue is empty expects the number the entry would send   *)
(* (tun_windows.rs:48, our_next_seq), whatever the client sends again or   *)
(* loses, and whatever reports of the connection before still come.        *)
THEOREM NumbersAgree ==
  ASSUME ~LossOut, ~SynRetry
  PROVE  Spec => []InStep
  <1>1. Typed /\ Downstream => InStep
    <2> SUFFICES ASSUME Typed, Downstream, client.st = "est", nat.ex, tunOut = <<>>
                 PROVE  client.rcv = nat.onext
      BY DEF InStep
    <2>1. Len(tunOut) = 0 /\ 0 \in 0..Len(tunOut) /\ client.rcv \in Nat
      BY ClientFields DEF Typed
    <2>2. Starts(0, client.rcv)
      BY DEF Starts
    <2>3. nat.onext = After(tunOut, 0, client.rcv, Len(tunOut))
      BY <2>1, <2>2 DEF Downstream
    <2> QED
      BY <2>1, <2>3 DEF After
  <1> QED
    BY <1>1, Inductive, DownstreamInductive, PTL
-----------------------------------------------------------------------------
(***************************************************************************)
(* What the segments carry.  The segments of q behind the kth one carry    *)
(* the server's bytes a + 1 to b, each at its place, and no byte comes     *)
(* behind the end of the stream.                                           *)
(***************************************************************************)
Carries(q, k, a, b) ==
  \E f \in [k..Len(q) -> a..b] :
    /\ f[k] = a /\ f[Len(q)] = b
    /\ \A i \in (k + 1)..Len(q) :
         /\ q[i].data = Bytes(f[i - 1] + 1, f[i])
         /\ q[i].kind = "fin" => f[i - 1] = b
    /\ \A i, j \in k..Len(q) : i <= j => f[i] <= f[j]

HasFin(q, k) == \E i \in (k + 1)..Len(q) : q[i].kind = "fin"

LEMMA NoBytes ==
  ASSUME NEW n \in Nat
  PROVE  Bytes(n + 1, n) = <<>>
  <1>1. n + 1 \in Nat /\ n + 1 <= n + 1 /\ n + 1 - (n + 1) = 0
    OBVIOUS
  <1>2. Bytes(n + 1, n) \in Seq(Nat) /\ Len(Bytes(n + 1, n)) = 0
    BY <1>1, BytesProperties, Zenon
  <1> QED
    BY <1>2, EmptySeq

LEMMA BytesSub ==
  ASSUME NEW b \in Nat, NEW c \in Nat, b <= c, NEW x \in Nat, NEW y \in Nat,
         x <= y, b + y <= c
  PROVE  SubSeq(Bytes(b + 1, c), x + 1, y) = Bytes(b + x + 1, b + y)
  <1> DEFINE d == Bytes(b + 1, c)
             s == SubSeq(d, x + 1, y)
             t == Bytes(b + x + 1, b + y)
  <1>1. /\ b + 1 \in Nat /\ b + 1 <= c + 1 /\ c + 1 - (b + 1) = c - b
        /\ b + x + 1 \in Nat /\ b + y \in Nat /\ b + x + 1 <= b + y + 1
        /\ b + y + 1 - (b + x + 1) = y - x
    OBVIOUS
  <1>2. \A i \in 1..(c - b) : d[i] = b + 1 + i - 1
    <2>1. \A i \in 1..(c + 1 - (b + 1)) : d[i] = b + 1 + i - 1
      BY <1>1, BytesProperties, Zenon
    <2> QED
      BY <1>1, <2>1, Zenon
  <1>3. /\ t \in Seq(Nat) /\ Len(t) = y - x
        /\ \A i \in 1..(y - x) : t[i] = b + x + 1 + i - 1
    <2>1. /\ t \in Seq(Nat) /\ Len(t) = b + y + 1 - (b + x + 1)
          /\ \A i \in 1..(b + y + 1 - (b + x + 1)) : t[i] = b + x + 1 + i - 1
      BY <1>1, BytesProperties, Zenon
    <2> QED
      BY <1>1, <2>1, Zenon
  <1> HIDE DEF d, t
  <1>4. \A i \in (x + 1)..y : i \in 1..(c - b) /\ d[i] \in Nat
    <2> SUFFICES ASSUME NEW i \in (x + 1)..y
                 PROVE  i \in 1..(c - b) /\ d[i] \in Nat
      OBVIOUS
    <2>1. i \in 1..(c - b)
      OBVIOUS
    <2>2. d[i] = b + 1 + i - 1
      BY <1>2, <2>1
    <2> QED
      BY <2>1, <2>2
  <1>5. /\ s \in Seq(Nat) /\ Len(s) = IF x + 1 <= y THEN y - (x + 1) + 1 ELSE 0
        /\ \A i \in 1..(y - (x + 1) + 1) : s[i] = d[x + 1 + i - 1]
    <2>1. x + 1 \in Int /\ y \in Int
      OBVIOUS
    <2> QED
      BY <1>4, <2>1, SubSeqProperties
  <1> HIDE DEF s
  <1>6. Len(s) = y - x
    BY <1>5
  <1>7. ASSUME NEW i \in 1..Len(s)
        PROVE  s[i] = t[i]
    <2>1. /\ i \in 1..(y - (x + 1) + 1) /\ i \in 1..(y - x)
          /\ x + 1 + i - 1 \in 1..(c - b)
      BY <1>6
    <2>2. s[i] = d[x + 1 + i - 1] /\ t[i] = b + x + 1 + i - 1
      BY <1>3, <1>5, <2>1
    <2>3. d[x + 1 + i - 1] = b + 1 + (x + 1 + i - 1) - 1
      BY <1>2, <2>1
    <2> QED
      BY <2>2, <2>3
  <1>8. s = t
    BY <1>3, <1>5, <1>6, <1>7, SeqEqual
  <1> QED
    BY <1>8 DEF s, t, d

LEMMA CarriesQuiet ==
  ASSUME NEW s \in Seq(SegmentState), NEW e, Quiet(s, e), NEW b \in Nat
  PROVE  Carries(s, 0, b, b) /\ (HasFin(s, 0) => e)
  <1> DEFINE f == [i \in 0..Len(s) |-> b]
  <1>1. Len(s) \in Nat
    BY LenProperties
  <1>2. f \in [0..Len(s) -> b..b] /\ \A i \in 0..Len(s) : f[i] = b
    OBVIOUS
  <1> HIDE DEF f
  <1>3. ASSUME NEW i \in (0 + 1)..Len(s)
        PROVE  s[i].data = Bytes(f[i - 1] + 1, f[i]) /\ f[i - 1] = b
    <2>1. i \in 1..Len(s) /\ i \in 0..Len(s) /\ i - 1 \in 0..Len(s)
      BY <1>1
    <2>2. f[i] = b /\ f[i - 1] = b /\ s[i].data = <<>>
      BY <1>2, <2>1 DEF Quiet
    <2> QED
      BY <2>2, NoBytes
  <1>4. Carries(s, 0, b, b)
    BY <1>1, <1>2, <1>3 DEF Carries
  <1>5. HasFin(s, 0) => e
    BY <1>1 DEF HasFin, Quiet
  <1> QED
    BY <1>4, <1>5

LEMMA CutGrows ==
  ASSUME NEW S, NEW d \in Seq(S), NEW i \in Nat, NEW j \in Nat, i <= j
  PROVE  Cut(d, i) <= Cut(d, j) /\ Cut(d, i) \in 0..Len(d)
  <1>1. Len(d) \in Nat
    BY LenProperties
  <1>2. i * Mss \in Nat /\ j * Mss \in Nat /\ i * Mss <= j * Mss
    <2>1. i * Mss \in Nat /\ i * Mss <= j * Mss
      BY Multiples, Zenon
    <2>2. j <= j
      OBVIOUS
    <2>3. j * Mss \in Nat
      BY <2>2, Multiples, Zenon
    <2> QED
      BY <2>1, <2>3, Zenon
  <1> DEFINE l == Len(d)
             x == i * Mss
             y == j * Mss
  <1>3. l \in Nat /\ x \in Nat /\ y \in Nat /\ x <= y
    BY <1>1, <1>2
  <1>4. Cut(d, i) = (IF x > l THEN l ELSE x) /\ Cut(d, j) = (IF y > l THEN l ELSE y)
    BY DEF Cut
  <1> HIDE DEF l, x, y
  <1>5. Cut(d, i) <= Cut(d, j) /\ Cut(d, i) \in 0..l
    BY <1>3, <1>4
  <1> QED
    BY <1>5 DEF l

LEMMA CarriesChunks ==
  ASSUME NEW e \in EntryState, NEW b \in Nat, NEW c \in Nat, b < c, c <= MaxDown
  PROVE  LET s == Chunks(e, Bytes(b + 1, c))
         IN  Carries(s, 0, b, c) /\ ~HasFin(s, 0)
  <1> DEFINE d == Bytes(b + 1, c)
             s == Chunks(e, d)
             f == [i \in 0..Len(s) |-> b + Cut(d, i)]
  <1>1. d \in Seq(0..MaxDown) /\ Len(d) = c - b /\ d # <<>>
    <2>1. b + 1 \in Nat /\ b + 1 <= c + 1 /\ c + 1 - (b + 1) = c - b
          /\ (b + 1)..c \subseteq 0..MaxDown
      BY Capacities
    <2>2. d \in Seq(0..MaxDown) /\ Len(d) = c - b
      BY <2>1, BytesProperties, Zenon
    <2>3. c - b # 0 /\ Len(<<>>) = 0
      OBVIOUS
    <2> QED
      BY <2>2, <2>3, Zenon
  <1>2. /\ Len(s) \in Nat \ {0}
        /\ Cut(d, 0) = 0 /\ Cut(d, Len(s)) = Len(d)
        /\ \A i \in 1..Len(s) :
             /\ Cut(d, i - 1) \in Nat /\ Cut(d, i) \in Nat
             /\ Cut(d, i - 1) < Cut(d, i) /\ Cut(d, i) <= Len(d)
             /\ s[i] = Segment("data", Sq(e.onext + Cut(d, i - 1)), e.cnext,
                               SubSeq(d, Cut(d, i - 1) + 1, Cut(d, i)))
    <2> HIDE DEF d
    <2> QED
      BY <1>1, ChunksCut
  <1> HIDE DEF s
  <1>3. ASSUME NEW i \in 0..Len(s)
        PROVE  f[i] = b + Cut(d, i) /\ f[i] \in b..c
    <2> HIDE DEF d
    <2>1. Cut(d, i) \in 0..Len(d)
      BY <1>1, <1>2, CutGrows
    <2> QED
      BY <1>1, <2>1
  <1>4. f \in [0..Len(s) -> b..c]
    BY <1>3
  <1>5. ASSUME NEW i \in 0..Len(s), NEW j \in 0..Len(s), i <= j
        PROVE  f[i] <= f[j]
    <2> HIDE DEF d, f
    <2>1. Cut(d, i) <= Cut(d, j) /\ Cut(d, i) \in 0..Len(d) /\ Cut(d, j) \in 0..Len(d)
      BY <1>1, <1>2, <1>5, CutGrows
    <2>2. Cut(d, i) \in Nat /\ Cut(d, j) \in Nat
      BY <1>1, <2>1
    <2> QED
      BY <1>3, <2>1, <2>2
  <1>6. ASSUME NEW i \in (0 + 1)..Len(s)
        PROVE  s[i].kind = "data" /\ s[i].data = Bytes(f[i - 1] + 1, f[i])
    <2> DEFINE x == Cut(d, i - 1)
               y == Cut(d, i)
    <2>1. i \in 1..Len(s) /\ i \in 0..Len(s) /\ i - 1 \in 0..Len(s)
      BY <1>2
    <2>2. /\ x \in Nat /\ y \in Nat /\ x < y /\ y <= c - b
          /\ s[i].kind = "data" /\ s[i].data = SubSeq(d, x + 1, y)
      <3> HIDE DEF d
      <3>1. /\ x \in Nat /\ y \in Nat /\ x < y /\ y <= Len(d)
            /\ s[i] = Segment("data", Sq(e.onext + x), e.cnext, SubSeq(d, x + 1, y))
        BY <1>2, <2>1
      <3> HIDE DEF x, y
      <3>2. s[i].kind = "data" /\ s[i].data = SubSeq(d, x + 1, y)
        BY <3>1 DEF Segment
      <3> QED
        BY <1>1, <3>1, <3>2
    <2>3. f[i - 1] = b + x /\ f[i] = b + y
      BY <1>3, <2>1
    <2> HIDE DEF x, y, f
    <2>4. x <= y /\ b + y <= c /\ b <= c
      BY <2>2
    <2>5. SubSeq(Bytes(b + 1, c), x + 1, y) = Bytes(b + x + 1, b + y)
      <3>1. x \in Nat /\ y \in Nat /\ x <= y /\ b + y <= c /\ b <= c /\ b \in Nat /\ c \in Nat
        BY <2>2, <2>4
      <3> QED
        BY ONLY <3>1, BytesSub, Zenon
    <2> QED
      BY <2>2, <2>3, <2>5
  <1>7. f[0] = b /\ f[Len(s)] = c
    <2>1. 0 \in 0..Len(s) /\ Len(s) \in 0..Len(s)
      BY <1>2
    <2>2. f[0] = b + Cut(d, 0) /\ f[Len(s)] = b + Cut(d, Len(s))
      BY <1>3, <2>1
    <2> HIDE DEF f, d
    <2> QED
      BY <1>1, <1>2, <2>2
  <1> HIDE DEF f
  <1>8. Carries(s, 0, b, c)
    BY <1>4, <1>5, <1>6, <1>7 DEF Carries
  <1>9. ~HasFin(s, 0)
    BY <1>6 DEF HasFin
  <1> QED
    BY <1>8, <1>9 DEF s

LEMMA CarriesMore ==
  ASSUME NEW q \in Seq(SegmentState), NEW s \in Seq(SegmentState), NEW k \in 0..Len(q),
         NEW a \in Nat, NEW b \in Nat, NEW c \in Nat, a <= b, b <= c,
         Carries(q, k, a, b), Carries(s, 0, b, c), b = c \/ ~HasFin(q, k)
  PROVE  /\ Carries(q \o s, k, a, c)
         /\ HasFin(q \o s, k) => HasFin(q, k) \/ HasFin(s, 0)
  <1> DEFINE w == q \o s
             l == Len(q)
  <1>1. /\ Len(w) = l + Len(s) /\ l \in Nat /\ Len(s) \in Nat
        /\ \A i \in 1..Len(w) : w[i] = IF i <= l THEN q[i] ELSE s[i - l]
    BY ConcatProperties, LenProperties
  <1>2. PICK f \in [k..l -> a..b] :
          /\ f[k] = a /\ f[l] = b
          /\ \A i \in (k + 1)..l :
               /\ q[i].data = Bytes(f[i - 1] + 1, f[i])
               /\ q[i].kind = "fin" => f[i - 1] = b
          /\ \A i, j \in k..l : i <= j => f[i] <= f[j]
    BY DEF Carries
  <1>3. PICK h \in [0..Len(s) -> b..c] :
          /\ h[0] = b /\ h[Len(s)] = c
          /\ \A i \in (0 + 1)..Len(s) :
               /\ s[i].data = Bytes(h[i - 1] + 1, h[i])
               /\ s[i].kind = "fin" => h[i - 1] = c
          /\ \A i, j \in 0..Len(s) : i <= j => h[i] <= h[j]
    BY DEF Carries
  <1> HIDE DEF w
  <1>l. l = Len(q) /\ k \in 0..l
    OBVIOUS
  <1> HIDE DEF l
  <1> DEFINE g == [i \in k..Len(w) |-> IF i <= l THEN f[i] ELSE h[i - l]]
  <1>4. ASSUME NEW i \in k..l
        PROVE  g[i] = f[i] /\ f[i] \in a..b /\ i \in k..Len(w)
    BY <1>1, <1>2, <1>l
  <1>5. ASSUME NEW i \in l..Len(w)
        PROVE  g[i] = h[i - l] /\ h[i - l] \in b..c /\ i - l \in 0..Len(s) /\ i \in k..Len(w)
    <2>1. i - l \in 0..Len(s) /\ i \in k..Len(w)
      BY <1>1, <1>l
    <2>2. CASE i = l
      <3>1. g[l] = f[l] /\ i - l = 0
        BY <1>1, <1>4, <1>l, <2>2
      <3> QED
        BY <1>2, <1>3, <2>1, <2>2, <3>1
    <2>3. CASE i # l
      <3>1. ~(i <= l)
        BY <1>1, <2>3
      <3> QED
        BY <1>3, <2>1, <3>1
    <2> QED
      BY <2>2, <2>3
  <1>6. g \in [k..Len(w) -> a..c]
    <2> SUFFICES ASSUME NEW i \in k..Len(w)
                 PROVE  g[i] \in a..c
      OBVIOUS
    <2>1. CASE i <= l
      <3>1. i \in k..l
        BY <1>1, <1>l, <2>1
      <3>2. g[i] \in a..b
        BY <1>4, <3>1
      <3> QED
        BY <3>2
    <2>2. CASE i > l
      <3>1. i \in l..Len(w)
        BY <1>1, <1>l, <2>2
      <3>2. g[i] \in b..c
        BY <1>5, <3>1
      <3> QED
        BY <3>2
    <2> QED
      BY <1>1, <1>l, <2>1, <2>2
  <1> HIDE DEF g
  <1>7. g[k] = a /\ g[Len(w)] = c
    <2>1. k \in k..l /\ Len(w) \in l..Len(w) /\ Len(w) - l = Len(s)
      BY <1>1, <1>l
    <2> QED
      BY <1>2, <1>3, <1>4, <1>5, <2>1
  <1>8. ASSUME NEW i \in (k + 1)..Len(w)
        PROVE  /\ w[i].data = Bytes(g[i - 1] + 1, g[i])
               /\ w[i].kind = "fin" => g[i - 1] = c /\ (HasFin(q, k) \/ HasFin(s, 0))
    <2>1. CASE i <= l
      <3>1. i \in (k + 1)..l /\ i \in k..l /\ i - 1 \in k..l /\ i \in 1..Len(w)
        BY <1>1, <1>l, <2>1
      <3>2. w[i] = q[i] /\ g[i] = f[i] /\ g[i - 1] = f[i - 1]
        BY <1>1, <1>4, <2>1, <3>1
      <3>3. w[i].kind = "fin" => HasFin(q, k)
        BY <1>l, <3>1, <3>2 DEF HasFin
      <3> QED
        BY <1>2, <3>1, <3>2, <3>3
    <2>2. CASE i > l
      <3>1. /\ i - l \in (0 + 1)..Len(s) /\ i \in l..Len(w) /\ i - 1 \in l..Len(w)
            /\ i \in 1..Len(w) /\ ~(i <= l) /\ i - 1 - l = i - l - 1
        BY <1>1, <1>l, <2>2
      <3>2. w[i] = s[i - l] /\ g[i] = h[i - l] /\ g[i - 1] = h[i - l - 1]
        BY <1>1, <1>5, <3>1
      <3>3. w[i].kind = "fin" => HasFin(s, 0)
        BY <3>1, <3>2 DEF HasFin
      <3> QED
        BY <1>3, <3>1, <3>2, <3>3
    <2> QED
      BY <1>1, <1>l, <2>1, <2>2
  <1>9. ASSUME NEW i \in k..Len(w), NEW j \in k..Len(w), i <= j
        PROVE  g[i] <= g[j]
    <2>1. CASE j <= l
      <3>1. i \in k..l /\ j \in k..l
        BY <1>1, <1>l, <1>9, <2>1
      <3> QED
        BY <1>2, <1>4, <1>9, <3>1
    <2>2. CASE i <= l /\ j > l
      <3>1. i \in k..l /\ j \in l..Len(w)
        BY <1>1, <1>l, <2>2
      <3>2. g[i] \in a..b /\ g[j] \in b..c
        BY <1>4, <1>5, <3>1
      <3> QED
        BY <3>2
    <2>3. CASE i > l
      <3>1. i \in l..Len(w) /\ j \in l..Len(w) /\ i - l <= j - l
        BY <1>1, <1>l, <1>9, <2>3
      <3> QED
        BY <1>3, <1>5, <3>1
    <2> QED
      BY <1>1, <1>l, <2>1, <2>2, <2>3
  <1>10. Carries(w, k, a, c)
    BY <1>6, <1>7, <1>8, <1>9 DEF Carries
  <1>11. HasFin(w, k) => HasFin(q, k) \/ HasFin(s, 0)
    BY <1>8 DEF HasFin
  <1> QED
    BY <1>10, <1>11 DEF w

LEMMA CarriesRest ==
  ASSUME NEW q \in Seq(SegmentState), q # <<>>, NEW k \in 1..Len(q),
         NEW a \in Nat, NEW b \in Nat, Carries(q, k, a, b)
  PROVE  /\ Carries(Tail(q), k - 1, a, b)
         /\ HasFin(Tail(q), k - 1) => HasFin(q, k)
  <1> DEFINE w == Tail(q)
  <1>1. /\ Len(w) \in Nat /\ Len(w) = Len(q) - 1 /\ Len(q) \in Nat
        /\ \A i \in 1..Len(w) : w[i] = q[i + 1]
    BY HeadTailProperties, LenProperties
  <1>2. PICK f \in [k..Len(q) -> a..b] :
          /\ f[k] = a /\ f[Len(q)] = b
          /\ \A i \in (k + 1)..Len(q) :
               /\ q[i].data = Bytes(f[i - 1] + 1, f[i])
               /\ q[i].kind = "fin" => f[i - 1] = b
          /\ \A i, j \in k..Len(q) : i <= j => f[i] <= f[j]
    BY DEF Carries
  <1> HIDE DEF w
  <1> DEFINE g == [i \in (k - 1)..Len(w) |-> f[i + 1]]
  <1>3. ASSUME NEW i \in (k - 1)..Len(w)
        PROVE  i + 1 \in k..Len(q) /\ g[i] = f[i + 1] /\ g[i] \in a..b
    BY <1>1, <1>2
  <1>4. g \in [(k - 1)..Len(w) -> a..b]
    BY <1>3
  <1> HIDE DEF g
  <1>5. g[k - 1] = a /\ g[Len(w)] = b
    <2>1. k - 1 \in (k - 1)..Len(w) /\ k - 1 + 1 = k
          /\ Len(w) \in (k - 1)..Len(w) /\ Len(w) + 1 = Len(q)
      BY <1>1
    <2> QED
      BY <1>2, <1>3, <2>1
  <1>6. ASSUME NEW i \in (k - 1 + 1)..Len(w)
        PROVE  /\ w[i].data = Bytes(g[i - 1] + 1, g[i])
               /\ w[i].kind = "fin" => g[i - 1] = b /\ HasFin(q, k)
    <2>1. /\ i \in 1..Len(w) /\ i + 1 \in (k + 1)..Len(q) /\ i \in (k - 1)..Len(w)
          /\ i - 1 \in (k - 1)..Len(w) /\ i - 1 + 1 = i + 1 - 1
      BY <1>1
    <2>2. w[i] = q[i + 1] /\ g[i] = f[i + 1] /\ g[i - 1] = f[i + 1 - 1]
      BY <1>1, <1>3, <2>1
    <2>3. w[i].kind = "fin" => HasFin(q, k)
      BY <2>1, <2>2 DEF HasFin
    <2> QED
      BY <1>2, <2>1, <2>2, <2>3
  <1>7. ASSUME NEW i \in (k - 1)..Len(w), NEW j \in (k - 1)..Len(w), i <= j
        PROVE  g[i] <= g[j]
    BY <1>2, <1>3, <1>7
  <1> QED
    BY <1>4, <1>5, <1>6, <1>7 DEF Carries, HasFin, w

LEMMA CarriesNext ==
  ASSUME NEW q \in Seq(SegmentState), q # <<>>,
         NEW a \in Nat, NEW b \in Nat, Carries(q, 0, a, b)
  PROVE  /\ \E c \in a..b : /\ q[1].data = Bytes(a + 1, c)
                            /\ q[1].kind = "fin" => a = b
                            /\ Carries(Tail(q), 0, c, b)
         /\ HasFin(Tail(q), 0) \/ q[1].kind = "fin" => HasFin(q, 0)
  <1>1. Len(q) \in Nat /\ Len(q) >= 1
    BY LenProperties, EmptySeq
  <1>2. PICK f \in [0..Len(q) -> a..b] :
          /\ f[0] = a /\ f[Len(q)] = b
          /\ \A i \in (0 + 1)..Len(q) :
               /\ q[i].data = Bytes(f[i - 1] + 1, f[i])
               /\ q[i].kind = "fin" => f[i - 1] = b
          /\ \A i, j \in 0..Len(q) : i <= j => f[i] <= f[j]
    BY DEF Carries
  <1> DEFINE c == f[1]
             g == [i \in 1..Len(q) |-> f[i]]
  <1>3. /\ c \in a..b /\ c \in Nat /\ q[1].data = Bytes(a + 1, c)
        /\ q[1].kind = "fin" => a = b /\ HasFin(q, 0)
    <2>1. 1 \in 0..Len(q) /\ 1 \in (0 + 1)..Len(q) /\ 1 - 1 = 0
      BY <1>1
    <2>2. c \in a..b /\ q[1].data = Bytes(f[0] + 1, c) /\ (q[1].kind = "fin" => f[0] = b)
      BY <1>2, <2>1
    <2>3. q[1].kind = "fin" => HasFin(q, 0)
      BY <2>1 DEF HasFin
    <2> QED
      BY <1>2, <2>2, <2>3
  <1>4. ASSUME NEW i \in 1..Len(q)
        PROVE  g[i] = f[i] /\ g[i] \in c..b
    <2>1. i \in 0..Len(q) /\ 1 \in 0..Len(q) /\ 1 <= i
      BY <1>1
    <2>2. f[1] <= f[i] /\ f[i] \in a..b
      BY <1>2, <2>1
    <2> QED
      BY <1>3, <2>2
  <1>5. g \in [1..Len(q) -> c..b]
    BY <1>4
  <1>6. g[1] = c /\ g[Len(q)] = b
    BY <1>1, <1>2, <1>4
  <1> HIDE DEF g, c
  <1>7. ASSUME NEW i \in (1 + 1)..Len(q)
        PROVE  /\ q[i].data = Bytes(g[i - 1] + 1, g[i])
               /\ q[i].kind = "fin" => g[i - 1] = b /\ HasFin(q, 0)
    <2>1. i \in 1..Len(q) /\ i \in (0 + 1)..Len(q) /\ i - 1 \in 1..Len(q)
      BY <1>1
    <2>2. g[i] = f[i] /\ g[i - 1] = f[i - 1]
      BY <1>4, <2>1
    <2>3. q[i].kind = "fin" => HasFin(q, 0)
      BY <2>1 DEF HasFin
    <2> QED
      BY <1>2, <2>1, <2>2, <2>3
  <1>8. ASSUME NEW i \in 1..Len(q), NEW j \in 1..Len(q), i <= j
        PROVE  g[i] <= g[j]
    BY <1>1, <1>2, <1>4, <1>8
  <1>9. Carries(q, 1, c, b)
    BY <1>5, <1>6, <1>7, <1>8 DEF Carries
  <1>10. Carries(Tail(q), 0, c, b) /\ (HasFin(Tail(q), 0) => HasFin(q, 1))
    <2>1. 1 \in 1..Len(q) /\ 1 - 1 = 0
      BY <1>1
    <2> QED
      BY <1>3, <1>9, <2>1, CarriesRest
  <1>11. HasFin(q, 1) => HasFin(q, 0)
    BY <1>7 DEF HasFin
  <1> QED
    BY <1>3, <1>10, <1>11
-----------------------------------------------------------------------------
(***************************************************************************)
(* The entry and the relay, when the relay reports on one connection of    *)
(* the port at a time.  An entry knows how far the server is; without one  *)
(* the relay connects in vain only if it is told that the client is done.  *)
(***************************************************************************)
Relayed ==
  /\ late.st = "over"
  /\ nat.ex => /\ ~ended /\ server.st # "none"
               /\ nat.st = "closing" <=> server.st = "over"
               /\ nat.conn => server.st # "asked"
               /\ server.st = "up" => nat.conn
  /\ server.st = "asked" => nat.ex \/ ended

LEMMA SegmentEnds ==
  ASSUME Typed, NEW seq \in 0..(Modulus - 1), NEW data \in Seq(1..MaxUp), NEW fin \in BOOLEAN,
         HandleSegment(seq, data, fin)
  PROVE  /\ server' = server /\ late' = late
         /\ ~nat.ex => UNCHANGED <<nat, tunOut, taken, fwd, ended>>
         /\ nat.ex => \E e \in EntryState, s \in Seq(SegmentState) :
              /\ Handled(seq, data, fin, e, s)
              /\ ended' = (ended \/ (fin /\ nat.st # "closing"))
  <1>1. CASE nat.ex
    <2>1. server' = server /\ late' = late /\ ended' = (ended \/ (fin /\ nat.st # "closing"))
      BY <1>1 DEF HandleSegment
    <2>2. \E e \in EntryState, s \in Seq(SegmentState) : Handled(seq, data, fin, e, s)
      BY <1>1, SegmentHandled
    <2> QED
      BY <1>1, <2>1, <2>2
  <1>2. CASE ~nat.ex
    BY <1>2 DEF HandleSegment, upstream
  <1> QED
    BY <1>1, <1>2

LEMMA SegmentRelayed ==
  ASSUME Typed, Relayed, ClientData \/ ClientFin \/ ClientAck
  PROVE  Relayed'
  <1>1. PICK seq \in 0..(Modulus - 1), data \in Seq(1..MaxUp), fin \in BOOLEAN :
          HandleSegment(seq, data, fin) \/ Lost
    BY ClientSegment
  <1>2. CASE Lost \/ (HandleSegment(seq, data, fin) /\ ~nat.ex)
    <2>1. UNCHANGED <<nat, server, late, ended>>
      BY <1>2, LostKeeps, SegmentEnds
    <2> QED
      BY <2>1 DEF Relayed
  <1>3. CASE HandleSegment(seq, data, fin) /\ nat.ex
    <2>1. server' = server /\ late' = late
      BY <1>3, SegmentEnds
    <2>2. PICK e \in EntryState, s \in Seq(SegmentState) :
            /\ Handled(seq, data, fin, e, s)
            /\ ended' = (ended \/ (fin /\ nat.st # "closing"))
      BY <1>3, SegmentEnds
    <2>3. /\ e.ex /\ e.conn = nat.conn /\ (e.st = "closing" <=> nat.st = "closing")
          /\ nat' = IF fin THEN NoEntry ELSE e
      BY <2>2 DEF Handled
    <2>4. CASE fin
      <3>1. ~nat'.ex /\ (ended' \/ nat.st = "closing")
        BY <2>2, <2>3, <2>4, NoEntryType
      <3> QED
        BY <1>3, <2>1, <3>1 DEF Relayed
    <2>5. CASE ~fin
      <3>1. nat' = e /\ ended' = ended
        BY <2>2, <2>3, <2>5 DEF Typed
      <3> QED
        BY <1>3, <2>1, <2>3, <3>1 DEF Relayed
    <2> QED
      BY <2>4, <2>5
  <1> QED
    BY <1>1, <1>2, <1>3

(* A report on the connection: what it says of the server.                 *)
LEMMA ServerFields ==
  ASSUME Typed, NEW from, NEW to, ServerIs(from, to)
  PROVE  /\ server.st = from /\ server'.st = to /\ server'.sent = server.sent
         /\ server.sent \in Nat /\ late' = late
  <1>1. server \in [st : {"none", "asked", "up", "over"}, sent : 0..MaxDown]
    BY DEF Typed
  <1>2. server.sent \in Nat
    BY <1>1, Capacities
  <1> QED
    BY <1>1, <1>2 DEF ServerIs

LEMMA ReportRelayed ==
  ASSUME Typed, Relayed, Relay
  PROVE  Relayed'
  <1>1. nat \in EntryState
    BY DEF Typed
  <1>2. CASE Connected
    <2>1. server.st = "asked" /\ server'.st = "up" /\ late' = late
      BY <1>2, ServerFields DEF Connected
    <2>2. /\ ended' = ended
          /\ nat'.ex => nat.ex /\ nat'.st = nat.st /\ nat'.conn
      BY <1>1, <1>2 DEF Connected, OnConnected, EntryState
    <2> QED
      BY <2>1, <2>2 DEF Relayed
  <1>3. CASE ConnectFailed \/ ServerResets
    <2>1. server'.st = "over" /\ late' = late
      BY <1>3, ServerFields DEF ConnectFailed, ServerResets
    <2>2. ~nat'.ex
      BY <1>3, NoEntryType DEF ConnectFailed, ServerResets, OnReset
    <2> QED
      BY <2>1, <2>2 DEF Relayed
  <1>4. CASE ServerShutdown
    <2>1. server.st = "up" /\ server'.st = "over" /\ late' = late
      BY <1>4, ServerFields DEF ServerShutdown
    <2>2. ended' = ended
      BY <1>4 DEF ServerShutdown, OnShutdown, upstream
    <2>3. nat'.ex => nat.ex /\ nat'.st = "closing" /\ nat'.conn = nat.conn
      <3> DEFINE o == Sq(nat.onext + 1)
      <3>1. nat.ex => nat' = [nat EXCEPT !.onext = o, !.st = "closing"]
        BY <1>4 DEF ServerShutdown, OnShutdown
      <3>2. ~nat.ex => nat' = nat
        BY <1>4 DEF ServerShutdown, OnShutdown
      <3> HIDE DEF o
      <3> QED
        BY <1>1, <3>1, <3>2 DEF EntryState
    <2> QED
      BY <2>1, <2>2, <2>3 DEF Relayed
  <1>5. CASE ServerData
    <2>1. server.st = "up" /\ server'.st = "up" /\ late' = late
      BY <1>5 DEF ServerData, Typed
    <2>2. /\ ended' = ended
          /\ nat'.ex => nat.ex /\ nat'.st = nat.st /\ nat'.conn = nat.conn
      BY <1>1, <1>5 DEF ServerData, OnData, upstream, EntryState
    <2> QED
      BY <2>1, <2>2 DEF Relayed
  <1> QED
    BY <1>2, <1>3, <1>4, <1>5 DEF Relay

LEMMA RelayedStep ==
  ASSUME ~Late, ~SynRetry, Typed, Relayed, [Next]_vars
  PROVE  Relayed'
  <1>1. nat \in EntryState
    BY DEF Typed
  <1>2. CASE ClientSyn
    <2>1. PICK seq \in Isns : HandleSyn(seq)
      BY <1>2 DEF ClientSyn
    <2>2. PICK isn \in Isns : nat' = NewEntry(seq, isn)
      BY <2>1 DEF HandleSyn
    <2>3. server'.st = "asked" /\ late' = late /\ ~ended'
      BY <2>1 DEF HandleSyn
    <2>4. nat'.ex /\ nat'.st = "syn" /\ ~nat'.conn
      BY <2>2 DEF NewEntry, NoEntry
    <2> QED
      BY <2>3, <2>4 DEF Relayed
  <1>3. CASE ClientData \/ ClientFin \/ ClientAck
    BY <1>3, SegmentRelayed
  <1>4. CASE ClientRst
    <2>1. CASE HandleRst
      <3>1. server' = server /\ late' = late /\ ~nat'.ex /\ ended' = (ended \/ nat.ex)
        BY <2>1, NoEntryType DEF HandleRst
      <3> QED
        BY <3>1 DEF Relayed
    <2>2. CASE Lost
      BY <2>2, LostKeeps DEF Relayed
    <2> QED
      BY <1>4, <2>1, <2>2 DEF ClientRst
  <1>5. CASE ClientCloses \/ ClientReceives \/ SegmentDropped \/ UNCHANGED vars
    <2>1. UNCHANGED <<nat, server, late, ended>>
      BY <1>5 DEF ClientCloses, ClientReceives, SegmentDropped, vars, upstream
    <2> QED
      BY <2>1 DEF Relayed
  <1>6. CASE Relay
    BY <1>6, ReportRelayed
  <1>7. CASE LateRelay
    BY <1>7 DEF LateRelay, LateConnected, LateFailed, LateReset, LateShutdown, LateData,
                LateIs, Relayed
  <1>8. CASE TimePasses
    <2>1. UNCHANGED <<server, late, ended>> /\ nat' = [nat EXCEPT !.aged = TRUE]
      BY <1>8 DEF TimePasses, upstream
    <2>2. nat'.ex = nat.ex /\ nat'.st = nat.st /\ nat'.conn = nat.conn
      BY <1>1, <2>1 DEF EntryState
    <2> QED
      BY <2>1, <2>2 DEF Relayed
  <1>9. CASE Cleanup
    <2>1. UNCHANGED <<server, late, ended>> /\ nat.ex /\ nat.st = "closing" /\ ~nat'.ex
      BY <1>9, NoEntryType DEF Cleanup, Stale, upstream
    <2> QED
      BY <2>1 DEF Relayed
  <1>10. ~ClientSynAgain
    BY DEF ClientSynAgain
  <1> QED
    BY <1>2, <1>3, <1>4, <1>5, <1>6, <1>7, <1>8, <1>9, <1>10 DEF Next, Client
-----------------------------------------------------------------------------
(* The client has b bytes and no more will come, or none that count.       *)
Done(b) == ended \/ (server.st = "over" /\ b = server.sent)

(***************************************************************************)
(* The client has read the first bytes the server said.  The segments      *)
(* under way to it carry the following ones, all of them as long as there  *)
(* is an entry, and the end of the stream only when it is due.             *)
(***************************************************************************)
Brought(k, b) ==
  /\ Carries(tunOut, k, Len(client.got), b)
  /\ nat.ex => b = server.sent
  /\ HasFin(tunOut, k) \/ client.rfin => Done(b)
  /\ client.rfin => Len(client.got) = b

Content ==
  /\ client.st # "closed" => client.got = Bytes(1, Len(client.got))
  /\ \A k \in 0..Len(tunOut), n \in Nat : Starts(k, n) =>
       \E b \in 0..server.sent : Brought(k, b)

LEMMA CarriesNone ==
  ASSUME NEW q \in Seq(SegmentState), NEW b \in Nat
  PROVE  Carries(q, Len(q), b, b) /\ ~HasFin(q, Len(q))
  <1> DEFINE f == [i \in Len(q)..Len(q) |-> b]
  <1>1. Len(q) \in Nat
    BY LenProperties
  <1>2. (Len(q) + 1)..Len(q) = {} /\ \A i \in Len(q)..Len(q) : i = Len(q)
    BY <1>1
  <1>3. f \in [Len(q)..Len(q) -> b..b] /\ f[Len(q)] = b
    BY <1>1
  <1> HIDE DEF f
  <1>4. Carries(q, Len(q), b, b)
    BY <1>2, <1>3 DEF Carries
  <1> QED
    BY <1>2, <1>4 DEF HasFin

(* What is sent adds the bytes to the server's that it carries, and ends   *)
(* the stream only for a reason.                                           *)
LEMMA ContentSent ==
  ASSUME Typed, Content, NEW s, Sends(s), SameClient,
         client'.got = client.got, client'.rfin = client.rfin,
         server.sent \in Nat, server'.sent \in Nat, server.sent <= server'.sent,
         server.st = "over" => server' = server, ended => ended',
         nat.ex => Carries(s, 0, server.sent, server'.sent),
         HasFin(s, 0) => ended' \/ server'.st = "over",
         nat.ex /\ server'.sent # server.sent => ~ended /\ server.st # "over"
  PROVE  Content'
  <1>1. /\ tunOut \in Seq(SegmentState) /\ s \in Seq(SegmentState) /\ tunOut' = tunOut \o s
        /\ client.got \in Seq(0..MaxDown)
    BY ClientFields DEF Typed, Sends
  <1>2. client'.st # "closed" => client'.got = Bytes(1, Len(client'.got))
    BY DEF Content, SameClient
  <1> SUFFICES ASSUME NEW k \in 0..Len(tunOut'), NEW n \in Nat, Starts(k, n)'
               PROVE  \E b \in 0..server'.sent : Brought(k, b)'
    BY <1>2 DEF Content
  <1> DEFINE a == Len(client.got)
  <1>3. k \in 0..Len(tunOut) /\ Starts(k, n)
    BY StartsKept
  <1>4. PICK b \in 0..server.sent : Brought(k, b)
    BY <1>3 DEF Content
  <1>5. /\ Carries(tunOut, k, a, b)
        /\ nat.ex => b = server.sent
        /\ HasFin(tunOut, k) \/ client.rfin => Done(b)
        /\ client.rfin => a = b
    BY <1>4 DEF Brought
  <1>6. a \in Nat /\ b \in Nat /\ b \in 0..server'.sent /\ Len(client'.got) = a
    BY <1>1, LenProperties
  <1> HIDE DEF a
  <1>7. Done(b) => Done(b)'
    BY DEF Done
  <1>8. CASE ~nat.ex
    <2>1. tunOut' = tunOut /\ ~nat'.ex
      BY <1>1, <1>8, ConcatEmptySeq DEF Sends
    <2>2. Brought(k, b)'
      BY <1>5, <1>6, <1>7, <2>1 DEF Brought
    <2> QED
      BY <1>6, <2>2
  <1>9. CASE nat.ex
    <2>0. PICK c \in Nat : c = server'.sent
      OBVIOUS
    <2>1. Carries(tunOut, k, a, b) /\ Carries(s, 0, b, c) /\ b <= c /\ c \in Nat
      BY <1>5, <1>9, <2>0
    <2>2. a <= b
      <3>1. PICK f \in [k..Len(tunOut) -> a..b] : f[k] = a
        BY <2>1 DEF Carries
      <3>2. k \in k..Len(tunOut)
        BY <1>1, <1>3, LenProperties
      <3>3. f[k] \in a..b
        BY <3>1, <3>2
      <3> QED
        BY <1>6, <3>1, <3>3
    <2>3. (HasFin(tunOut, k) \/ client.rfin) /\ b # c => FALSE
      BY <1>5, <1>9, <2>0 DEF Done
    <2>4. /\ Carries(tunOut \o s, k, a, c)
          /\ HasFin(tunOut \o s, k) => HasFin(tunOut, k) \/ HasFin(s, 0)
      <3>1. b = c \/ ~HasFin(tunOut, k)
        BY <2>3
      <3> QED
        BY <1>1, <1>3, <1>6, <2>1, <2>2, <3>1, CarriesMore
    <2>5. HasFin(tunOut \o s, k) \/ client.rfin => Done(c)'
      BY <1>5, <1>7, <2>0, <2>3, <2>4 DEF Done
    <2>6. Brought(k, c)'
      BY <1>1, <1>5, <1>6, <2>0, <2>3, <2>4, <2>5 DEF Brought
    <2>7. c \in 0..server'.sent
      BY <2>0
    <2> QED
      BY <2>6, <2>7
  <1> QED
    BY <1>8, <1>9

(* Control segments carry nothing.                                         *)
LEMMA ContentQuiet ==
  ASSUME Typed, Content, NEW s, Sends(s), SameClient,
         client'.got = client.got, client'.rfin = client.rfin,
         server'.sent = server.sent,
         server.st = "over" => server' = server, ended => ended',
         NEW e, Quiet(s, e), e => ended' \/ server'.st = "over"
  PROVE  Content'
  <1>1. server.sent \in Nat /\ s \in Seq(SegmentState)
    BY Capacities DEF Typed, Sends
  <1>2. Carries(s, 0, server.sent, server.sent) /\ (HasFin(s, 0) => e)
    BY <1>1, CarriesQuiet
  <1> QED
    BY <1>1, <1>2, ContentSent

LEMMA NoFin == ~HasFin(<<>>, 0)
  <1>1. (0 + 1)..Len(<<>>) = {}
    OBVIOUS
  <1> QED
    BY <1>1 DEF HasFin

LEMMA DataContent ==
  ASSUME Typed, Relayed, Content, ServerData
  PROVE  Content'
  <1>1. PICK n \in 1..MaxSeg :
          /\ server.sent + n <= MaxDown
          /\ server' = [server EXCEPT !.sent = @ + n]
          /\ OnData(Bytes(server.sent + 1, server.sent + n))
    BY DEF ServerData
  <1>2. server.st = "up" /\ server.sent \in Nat /\ server \in [st : {"none", "asked", "up", "over"}, sent : 0..MaxDown]
    BY Capacities DEF ServerData, Typed
  <1> DEFINE b == server.sent
             c == server.sent + n
             data == Bytes(b + 1, c)
  <1>3. b \in Nat /\ c \in Nat /\ b < c /\ c <= MaxDown /\ server'.sent = c /\ n \in Nat
    BY <1>1, <1>2, Capacities
  <1>4. data \in Seq(0..MaxDown) /\ data # <<>>
    <2> HIDE DEF c
    <2>1. b + 1 \in Nat /\ b + 1 <= c + 1 /\ c + 1 - (b + 1) = c - b
          /\ (b + 1)..c \subseteq 0..MaxDown
      BY <1>3, Capacities
    <2>2. data \in Seq(0..MaxDown) /\ Len(data) = c + 1 - (b + 1)
      BY <1>3, <2>1, BytesProperties, Zenon
    <2>3. c + 1 - (b + 1) # 0 /\ Len(<<>>) = 0
      BY <1>3
    <2> QED
      BY <2>2, <2>3, Zenon
  <1>5. OnData(data) /\ client' = client /\ ended' = ended
    BY <1>1 DEF OnData, upstream
  <1> DEFINE s == IF nat.ex THEN Chunks(nat, data) ELSE <<>>
  <1>6. Sends(s)
    <2> HIDE DEF data
    <2> QED
      BY <1>4, <1>5, DataSends
  <1>7. nat.ex => Carries(s, 0, b, c) /\ ~HasFin(s, 0)
    <2>1. nat \in EntryState
      BY DEF Typed
    <2>2. Carries(Chunks(nat, data), 0, b, c) /\ ~HasFin(Chunks(nat, data), 0)
      <3> HIDE DEF b, c
      <3> QED
        BY <1>3, <2>1, CarriesChunks
    <2> HIDE DEF data
    <2> QED
      BY <2>2
  <1>8. ~HasFin(s, 0)
    <2> HIDE DEF data
    <2> QED
      BY <1>7, NoFin
  <1>9. nat.ex => ~ended
    BY DEF Relayed
  <1>10. SameClient
    BY <1>5 DEF SameClient
  <1> HIDE DEF s, data, c
  <1>11. b <= c
    BY <1>3
  <1> QED
    BY <1>2, <1>3, <1>5, <1>6, <1>7, <1>8, <1>9, <1>10, <1>11, ContentSent

LEMMA SynContent ==
  ASSUME Typed, ClientSyn
  PROVE  Content'
  <1>1. PICK isn \in Isns, seq \in 0..(Modulus - 1) :
          /\ client'.st = "syn" /\ client'.got = <<>> /\ ~client'.rfin
          /\ \A k \in 1..Len(tunOut') : Answers(tunOut'[k], client'.isn) => k = Len(tunOut')
    BY SynFacts
  <1>2. server'.sent = 0 /\ tunOut' \in Seq(SegmentState)
    <2>1. PICK q \in Isns : HandleSyn(q)
      BY DEF ClientSyn
    <2>2. PICK isn2 \in Isns :
            tunOut' = Append(tunOut, Segment("synack", isn2, Sq(q + 1), <<>>))
      BY <2>1 DEF HandleSyn
    <2>3. isn2 \in 0..(Modulus - 1) /\ q \in Nat
      BY Capacities
    <2>4. Sq(q + 1) \in 0..(Modulus - 1)
      BY <2>3, SqType
    <2>5. Segment("synack", isn2, Sq(q + 1), <<>>) \in SegmentState
      BY <2>3, <2>4, SignalType
    <2>6. tunOut' \in Seq(SegmentState)
      BY <2>2, <2>5, AppendProperties DEF Typed
    <2> QED
      BY <2>1, <2>6 DEF HandleSyn
  <1>3. Len(<<>>) = 0 /\ Bytes(1, 0) = <<>>
    <2>1. 0 + 1 = 1
      OBVIOUS
    <2> QED
      BY <2>1, NoBytes
  <1> SUFFICES ASSUME NEW k \in 0..Len(tunOut'), NEW n \in Nat, Starts(k, n)'
               PROVE  \E b \in 0..server'.sent : Brought(k, b)'
    BY <1>1, <1>3 DEF Content
  <1>4. k = Len(tunOut')
    BY <1>1 DEF Starts
  <1>5. Carries(tunOut', k, 0, 0) /\ ~HasFin(tunOut', k)
    BY <1>2, <1>4, CarriesNone
  <1>6. Brought(k, 0)'
    BY <1>1, <1>2, <1>3, <1>5 DEF Brought
  <1> QED
    BY <1>2, <1>6

(* What the client reads is the next of the server's bytes.                *)
LEMMA ReadsNext ==
  ASSUME Typed, Content, client.st = "est", tunOut # <<>>
  PROVE  \E a \in Nat, b \in 0..server.sent, c \in Nat :
           /\ a = Len(client.got) /\ a <= c /\ c <= b
           /\ client.got = Bytes(1, a) /\ tunOut[1].data = Bytes(a + 1, c)
           /\ client.got \o tunOut[1].data = Bytes(1, c)
           /\ nat.ex => b = server.sent
           /\ Carries(Tail(tunOut), 0, c, b)
           /\ HasFin(Tail(tunOut), 0) \/ client.rfin \/ tunOut[1].kind = "fin" => Done(b)
           /\ client.rfin \/ tunOut[1].kind = "fin" => a = b
  <1> DEFINE a == Len(client.got)
  <1>1. /\ tunOut \in Seq(SegmentState) /\ client.got \in Seq(0..MaxDown)
        /\ client.rcv \in Nat /\ Len(tunOut) \in Nat /\ a \in Nat /\ server.sent \in Nat
    BY ClientFields, LenProperties, Capacities DEF Typed
  <1>2. Starts(0, client.rcv) /\ 0 \in 0..Len(tunOut)
    BY <1>1 DEF Starts
  <1>3. PICK b \in 0..server.sent : Brought(0, b)
    BY <1>1, <1>2 DEF Content
  <1>4. /\ Carries(tunOut, 0, a, b)
        /\ nat.ex => b = server.sent
        /\ HasFin(tunOut, 0) \/ client.rfin => Done(b)
        /\ client.rfin => a = b
        /\ client.got = Bytes(1, a)
    BY <1>3 DEF Brought, Content
  <1> HIDE DEF a
  <1>5. b \in Nat
    BY <1>1
  <1>6. PICK c \in a..b :
          /\ tunOut[1].data = Bytes(a + 1, c)
          /\ tunOut[1].kind = "fin" => a = b
          /\ Carries(Tail(tunOut), 0, c, b)
    BY <1>1, <1>4, <1>5, CarriesNext
  <1>7. HasFin(Tail(tunOut), 0) \/ tunOut[1].kind = "fin" => HasFin(tunOut, 0)
    BY <1>1, <1>4, <1>5, CarriesNext
  <1>8. c \in Nat /\ a <= c /\ c <= b
    BY <1>1, <1>5
  <1>9. client.got \o tunOut[1].data = Bytes(1, c)
    BY <1>1, <1>4, <1>6, <1>8, BytesJoin
  <1> QED
    BY <1>1, <1>4, <1>6, <1>7, <1>8, <1>9 DEF a

LEMMA ReceiveContent ==
  ASSUME Typed, Downstream, Content, ClientReceives
  PROVE  Content'
  <1>1. /\ tunOut # <<>> /\ tunOut' = Tail(tunOut) /\ nat' = nat
        /\ server' = server /\ ended' = ended
        /\ tunOut \in Seq(SegmentState) /\ Len(tunOut) \in Nat /\ Len(tunOut) >= 1
        /\ Len(Tail(tunOut)) = Len(tunOut) - 1
        /\ \A i \in 1..Len(Tail(tunOut)) : Tail(tunOut)[i] = tunOut[i + 1]
        /\ client.got \in Seq(0..MaxDown)
    <2>1. tunOut # <<>> /\ tunOut' = Tail(tunOut) /\ nat' = nat /\ server' = server
          /\ ended' = ended
      BY Received
    <2>2. tunOut \in Seq(SegmentState) /\ client.got \in Seq(0..MaxDown)
      BY ClientFields DEF Typed
    <2> QED
      BY <2>1, <2>2, HeadTailProperties, LenProperties, EmptySeq
  <1>2. \A b : Done(b)' = Done(b)
    BY <1>1 DEF Done
  <1>3. ASSUME NEW k \in 0..Len(tunOut'), NEW m \in Nat, k + 1 \in 1..Len(tunOut), Starts(k + 1, m),
               client'.got = client.got, client'.rfin = client.rfin
        PROVE  \E b \in 0..server'.sent : Brought(k, b)'
    <2>1. k + 1 \in 0..Len(tunOut) /\ k + 1 - 1 = k
      BY <1>3
    <2>2. PICK b \in 0..server.sent : Brought(k + 1, b)
      BY <1>3, <2>1 DEF Content
    <2>3. b \in Nat /\ Len(client.got) \in Nat
      BY <1>1, Capacities, LenProperties DEF Typed
    <2>4. /\ Carries(Tail(tunOut), k, Len(client.got), b)
          /\ HasFin(Tail(tunOut), k) => HasFin(tunOut, k + 1)
      BY <1>1, <1>3, <2>1, <2>2, <2>3, CarriesRest DEF Brought
    <2>5. Brought(k, b)'
      BY <1>1, <1>2, <1>3, <2>2, <2>4 DEF Brought
    <2> QED
      BY <1>1, <2>5
  <1>4. CASE client'.st = "closed"
    BY <1>4 DEF Content, Starts
  <1>5. CASE /\ client.st = "syn" /\ Answers(tunOut[1], client.isn)
             /\ client'.st = "est" /\ client'.rcv = Sq(tunOut[1].seq + 1)
             /\ client'.got = client.got /\ client'.rfin = client.rfin
    <2>1. client'.got = Bytes(1, Len(client'.got))
      BY <1>5 DEF Content
    <2> SUFFICES ASSUME NEW k \in 0..Len(tunOut'), NEW n \in Nat, Starts(k, n)'
                 PROVE  \E b \in 0..server'.sent : Brought(k, b)'
      BY <2>1 DEF Content
    <2>2. k = 0 /\ n = Sq(tunOut[1].seq + 1) /\ k + 1 = 1 /\ 1 \in 1..Len(tunOut)
      BY <1>1, <1>5 DEF Starts
    <2>3. Starts(1, n)
      BY <1>5, <2>2 DEF Starts
    <2> QED
      BY <1>3, <1>5, <2>2, <2>3
  <1>6. CASE /\ client.st = "est" /\ client'.st = "est"
             /\ client'.got = client.got \o tunOut[1].data
             /\ client'.rfin = (client.rfin \/ tunOut[1].kind = "fin")
    <2>1. PICK a \in Nat, b \in 0..server.sent, c \in Nat :
            /\ a = Len(client.got) /\ a <= c /\ c <= b
            /\ client.got \o tunOut[1].data = Bytes(1, c)
            /\ nat.ex => b = server.sent
            /\ Carries(Tail(tunOut), 0, c, b)
            /\ HasFin(Tail(tunOut), 0) \/ client.rfin \/ tunOut[1].kind = "fin" => Done(b)
            /\ client.rfin \/ tunOut[1].kind = "fin" => a = b
      BY <1>1, <1>6, ReadsNext
    <2>2. client'.got = Bytes(1, c) /\ Len(client'.got) = c
      <3>1. Len(Bytes(1, c)) = c
        BY FirstBytes, Zenon
      <3> QED
        BY <1>6, <2>1, <3>1
    <2> SUFFICES ASSUME NEW k \in 0..Len(tunOut'), NEW n \in Nat, Starts(k, n)'
                 PROVE  \E x \in 0..server'.sent : Brought(k, x)'
      BY <2>2 DEF Content
    <2>3. k = 0
      BY <1>6 DEF Starts
    <2>4. client'.rfin => c = b
      <3>1. b \in Nat /\ (a = b => c = b)
        BY <2>1, Capacities DEF Typed
      <3>2. client'.rfin => a = b
        BY <1>6, <2>1, Zenon
      <3> QED
        BY <3>1, <3>2
    <2>5. HasFin(tunOut', k) \/ client'.rfin => Done(b)'
      BY <1>1, <1>2, <1>6, <2>1, <2>3
    <2>6. Brought(k, b)'
      BY <1>1, <2>1, <2>2, <2>3, <2>4, <2>5 DEF Brought
    <2> QED
      BY <1>1, <2>6
  <1>7. CASE client.st = "syn" /\ client' = client
    <2> SUFFICES ASSUME NEW k \in 0..Len(tunOut'), NEW n \in Nat, Starts(k, n)'
                 PROVE  \E b \in 0..server'.sent : Brought(k, b)'
      BY <1>7 DEF Content
    <2>1. /\ k \in 1..Len(Tail(tunOut)) /\ Answers(Tail(tunOut)[k], client.isn)
          /\ n = Sq(Tail(tunOut)[k].seq + 1)
      BY <1>1, <1>7 DEF Starts
    <2>2. k + 1 \in 1..Len(tunOut) /\ Tail(tunOut)[k] = tunOut[k + 1]
      BY <1>1, <2>1
    <2>3. Starts(k + 1, n)
      BY <1>7, <2>1, <2>2 DEF Starts
    <2> QED
      BY <1>3, <1>7, <2>2, <2>3
  <1> QED
    BY <1>4, <1>5, <1>6, <1>7, Received

(* A step of the client's, of the relay's or of the timer's that sends no  *)
(* bytes.                                                                  *)
LEMMA SegmentContent ==
  ASSUME Typed, Content, ClientData \/ ClientFin \/ ClientAck
  PROVE  Content'
  <1>1. SameClient /\ client'.got = client.got /\ client'.rfin = client.rfin
    BY ClientSegment
  <1>2. PICK seq \in 0..(Modulus - 1), data \in Seq(1..MaxUp), fin \in BOOLEAN :
          HandleSegment(seq, data, fin) \/ Lost
    BY ClientSegment
  <1>3. CASE HandleSegment(seq, data, fin)
    <2>1. server' = server /\ (ended => ended')
      BY <1>3, SegmentEnds
    <2>2. PICK s : Sends(s) /\ Quiet(s, ended')
      BY <1>3, SegmentSends
    <2> QED
      BY <1>1, <2>1, <2>2, ContentQuiet
  <1>4. CASE Lost
    <2>1. server' = server /\ ended' = ended /\ Sends(<<>>) /\ Quiet(<<>>, FALSE)
      BY <1>4, LostKeeps, SendsNothing
    <2> QED
      BY <1>1, <2>1, ContentQuiet
  <1> QED
    BY <1>2, <1>3, <1>4

LEMMA ReportContent ==
  ASSUME Typed, Relayed, Content, Relay
  PROVE  Content'
  <1>1. CASE Connected
    <2>1. /\ server.st = "asked" /\ server'.sent = server.sent
          /\ client' = client /\ tunOut' = tunOut /\ ended' = ended
      BY <1>1, ServerFields DEF Connected, OnConnected
    <2>2. nat'.ex => nat.ex /\ nat'.onext = nat.onext
      BY <1>1 DEF Connected, OnConnected, Typed, EntryState
    <2>3. Sends(<<>>) /\ Quiet(<<>>, FALSE)
      BY <2>1, <2>2, SendsNothing
    <2> QED
      BY <2>1, <2>3, ContentQuiet DEF SameClient
  <1>2. CASE ConnectFailed \/ ServerResets
    <2>1. /\ server.st # "over" /\ server'.sent = server.sent
          /\ client' = client /\ ended' = ended /\ OnReset
      BY <1>2, ServerFields DEF ConnectFailed, ServerResets, OnReset, upstream
    <2>2. PICK s : Sends(s) /\ Quiet(s, FALSE)
      BY <2>1, ResetSends
    <2> QED
      BY <2>1, <2>2, ContentQuiet DEF SameClient
  <1>3. CASE ServerShutdown
    <2>1. /\ server.st # "over" /\ server'.st = "over" /\ server'.sent = server.sent
          /\ client' = client /\ ended' = ended /\ OnShutdown
      BY <1>3, ServerFields DEF ServerShutdown, OnShutdown, upstream
    <2>2. PICK s : Sends(s) /\ Quiet(s, TRUE)
      BY <2>1, ShutdownSends
    <2> QED
      BY <2>1, <2>2, ContentQuiet DEF SameClient
  <1> QED
    BY <1>1, <1>2, <1>3, DataContent DEF Relay

LEMMA ContentStep ==
  ASSUME ~Late, ~LossOut, ~SynRetry, Typed, Downstream, Relayed, Content, [Next]_vars
  PROVE  Content'
  <1>1. CASE ClientRst
    <2>1. client' = [client EXCEPT !.st = "closed"] /\ client \in ClientState
      BY <1>1 DEF ClientRst, Typed
    <2>2. SameClient /\ client'.got = client.got /\ client'.rfin = client.rfin
      BY <2>1 DEF SameClient, ClientState
    <2>3. /\ server' = server /\ tunOut' = tunOut /\ (nat' = nat \/ ~nat'.ex)
          /\ ended => ended'
      <3>1. CASE HandleRst
        BY <3>1, NoEntryType DEF HandleRst
      <3>2. CASE Lost
        BY <3>2, LostKeeps
      <3> QED
        BY <1>1, <3>1, <3>2 DEF ClientRst
    <2>4. Sends(<<>>) /\ Quiet(<<>>, FALSE)
      BY <2>3, SendsNothing
    <2> QED
      BY <2>2, <2>3, <2>4, ContentQuiet
  <1>2. CASE ClientCloses
    <2>1. client' = [client EXCEPT !.st = "closed"] /\ client \in ClientState
      BY <1>2 DEF ClientCloses, Typed
    <2>2. client'.st = "closed"
      BY <2>1 DEF ClientState
    <2> QED
      BY <2>2 DEF Content, Starts
  <1>3. CASE TimePasses \/ Cleanup \/ UNCHANGED vars
    <2>1. client' = client /\ tunOut' = tunOut /\ server' = server /\ ended' = ended
      BY <1>3 DEF TimePasses, Cleanup, vars, upstream
    <2>2. nat'.ex => nat.ex /\ nat'.onext = nat.onext
      BY <1>3, NoEntryType DEF TimePasses, Cleanup, vars, Typed, EntryState
    <2>3. Sends(<<>>) /\ Quiet(<<>>, FALSE)
      BY <2>1, <2>2, SendsNothing
    <2> QED
      BY <2>1, <2>3, ContentQuiet DEF SameClient
  <1>4. ~ClientSynAgain /\ ~SegmentDropped
    BY DEF ClientSynAgain, SegmentDropped
  <1>5. ~LateRelay
    BY DEF LateRelay, LateConnected, LateFailed, LateReset, LateShutdown, LateData,
           LateIs, Relayed
  <1>6. CASE ClientSyn
    BY <1>6, SynContent
  <1>7. CASE ClientReceives
    BY <1>7, ReceiveContent
  <1>8. CASE ClientData \/ ClientFin \/ ClientAck
    BY <1>8, SegmentContent
  <1>9. CASE Relay
    BY <1>9, ReportContent
  <1> QED
    BY <1>1, <1>2, <1>3, <1>4, <1>5, <1>6, <1>7, <1>8, <1>9 DEF Next, Client

LEMMA ContentInductive ==
  ASSUME ~Late, ~LossOut, ~SynRetry
  PROVE  Spec => [](Relayed /\ Content)
  <1>1. Init => Relayed /\ Content
    <2> SUFFICES ASSUME Init
                 PROVE  Relayed /\ Content
      OBVIOUS
    <2>1. client.st = "closed" /\ late.st = "over" /\ server.st = "none" /\ ~nat.ex
      BY DEF Init, NoClient, NoEntry
    <2> QED
      BY <2>1 DEF Relayed, Content, Starts
  <1>2. Typed /\ Downstream /\ Relayed /\ Content /\ [Next]_vars => (Relayed /\ Content)'
    BY RelayedStep, ContentStep
  <1> QED
    BY <1>1, <1>2, Inductive, DownstreamInductive, PTL DEF Spec
-----------------------------------------------------------------------------
(***************************************************************************)
(* The contract.  Every step of the endpoint is a step of the flow between *)
(* the two applications, or one they do not see.                           *)
(***************************************************************************)
LEMMA BytesInit ==
  ASSUME NEW a \in Nat, NEW b \in Nat, a <= b
  PROVE  /\ F!IsPrefix(Bytes(1, a), Bytes(1, b))
         /\ a < b => F!IsStrictPrefix(Bytes(1, a), Bytes(1, b))
  <1> DEFINE s == Bytes(1, a)
             t == Bytes(1, b)
  <1>1. s \in Seq(Nat) /\ Len(s) = a /\ \A i \in 1..a : s[i] = i
    BY FirstBytes, Zenon
  <1>2. t \in Seq(Nat) /\ Len(t) = b /\ \A i \in 1..b : t[i] = i
    BY FirstBytes, Zenon
  <1> HIDE DEF s, t
  <1>3. SubSeq(s, 1, a) = s
    BY <1>1, SubSeqFull
  <1> DEFINE u == SubSeq(t, 1, a)
  <1>4. u \in Seq(Nat) /\ Len(u) = a /\ \A i \in 1..a : u[i] = i
    <2>1. \A i \in 1..a : t[i] \in Nat
      BY <1>2
    <2>2. /\ u \in Seq(Nat) /\ Len(u) = IF 1 <= a THEN a - 1 + 1 ELSE 0
          /\ \A i \in 1..(a - 1 + 1) : u[i] = t[1 + i - 1]
      BY <2>1, SubSeqProperties
    <2>3. Len(u) = a /\ a - 1 + 1 = a
      BY <2>2
    <2> HIDE DEF u
    <2>4. ASSUME NEW i \in 1..a
          PROVE  u[i] = i
      <3>1. 1 + i - 1 = i /\ i \in 1..b
        OBVIOUS
      <3> QED
        BY <1>2, <2>2, <2>3, <3>1
    <2> QED
      BY <2>2, <2>3, <2>4
  <1> HIDE DEF u
  <1>5. s = u
    BY <1>1, <1>4, SeqEqual
  <1>6. F!IsPrefix(s, t)
    BY <1>1, <1>2, <1>3, <1>5 DEF F!IsPrefix, u
  <1>7. a < b => s # t
    BY <1>1, <1>2
  <1> QED
    BY <1>6, <1>7 DEF F!IsStrictPrefix, s, t

LEMMA FlowStutters ==
  ASSUME server' = server, taken' = taken, fwd' = fwd, ended' = ended,
         client'.got = client.got, client'.rfin = client.rfin
  PROVE  UNCHANGED F!vars
  BY DEF F!vars, F!toServer, F!toClient

(* While the server is up, what was taken has been handed over.            *)
LEMMA AllGiven ==
  ASSUME Typed, IInv, Relayed, nat.ex, server.st = "up"
  PROVE  fwd = Bytes(1, taken) /\ Len(fwd) = taken /\ nat.pend = <<>>
         /\ nat.conn /\ nat.st # "closing"
  <1>1. nat.conn /\ nat.st # "closing"
    BY DEF Relayed
  <1>2. nat.pend = <<>> /\ Given = Bytes(1, Len(Given)) /\ Len(Given) = taken
    BY <1>1 DEF IInv, Forwarding
  <1>3. Given = fwd
    BY <1>2, GivenType, ConcatEmptySeq DEF Given
  <1> QED
    BY <1>1, <1>2, <1>3

(* A segment of the client's is a write, an end, or both.                  *)
LEMMA FlowWrites ==
  ASSUME Typed, IInv, IInv', Relayed, nat.ex,
         NEW seq \in 0..(Modulus - 1), NEW data \in Seq(1..MaxUp), NEW fin \in BOOLEAN,
         HandleSegment(seq, data, fin),
         client'.got = client.got, client'.rfin = client.rfin
  PROVE  F!Write
  <1>1. server' = server /\ ~ended /\ server.st # "none"
    BY SegmentEnds DEF Relayed
  <1>2. PICK e \in EntryState, s \in Seq(SegmentState) :
          /\ Handled(seq, data, fin, e, s)
          /\ ended' = (ended \/ (fin /\ nat.st # "closing"))
    BY SegmentEnds
  <1> DEFINE some == data # <<>> /\ seq = nat.cnext
  <1>3. /\ nat' = IF fin THEN NoEntry ELSE e
        /\ some => /\ taken' = taken + Len(data)
                   /\ nat.st = "closing" \/ ~nat.conn => fwd' = fwd
                   /\ nat.st # "closing" /\ nat.conn => fwd' = fwd \o data /\ e.pend = nat.pend
        /\ ~some => taken' = taken /\ fwd' = fwd /\ e.pend = nat.pend
    BY <1>2 DEF Handled
  <1> HIDE DEF some
  <1>4. /\ taken \in Nat /\ fwd \in Seq(Nat) /\ data \in Seq(Nat) /\ Len(data) \in Nat
        /\ ended' \in BOOLEAN
    <2>1. 1..MaxUp \subseteq Nat
      BY Capacities
    <2>2. data \in Seq(Nat)
      BY <2>1, SeqMonotonic
    <2>3. ended' \in BOOLEAN
      BY <1>2
    <2> QED
      BY <2>2, <2>3, GivenType, LenProperties
  <1>5. taken' \in Nat /\ taken <= taken'
    BY <1>3, <1>4
  <1>6. F!IsPrefix(Bytes(1, taken), Bytes(1, taken'))
    BY <1>4, <1>5, BytesInit
  <1>7. ASSUME server.st = "up"
        PROVE  fwd' = Bytes(1, taken')
    <2>1. /\ Len(fwd) = taken /\ nat.pend = <<>>
          /\ nat.conn /\ nat.st # "closing"
      BY <1>7, AllGiven
    <2>2. nat'.pend = <<>>
      BY <1>3, <2>1, NoEntryType
    <2>3. fwd' \in Seq(Nat) /\ Len(fwd') = taken'
      <3>1. CASE some
        <4>1. fwd' = fwd \o data /\ taken' = taken + Len(data)
          BY <1>3, <2>1, <3>1
        <4>2. fwd \o data \in Seq(Nat) /\ Len(fwd \o data) = Len(fwd) + Len(data)
          BY <1>4, ConcatProperties
        <4> QED
          BY <2>1, <4>1, <4>2
      <3>2. CASE ~some
        BY <1>3, <1>4, <2>1, <3>2
      <3> QED
        BY <3>1, <3>2
    <2>4. (fwd \o nat.pend)' = fwd'
      BY <2>2, <2>3, ConcatEmptySeq
    <2>5. Given' = Bytes(1, Len(Given'))
      BY DEF IInv, Forwarding
    <2> QED
      BY <2>3, <2>4, <2>5 DEF Given
  <1>8. ASSUME server.st # "up"
        PROVE  fwd' = fwd
    <2>1. nat.st = "closing" \/ ~nat.conn
      <3>1. server.st \in {"none", "asked", "up", "over"}
        BY DEF Typed
      <3> QED
        BY <1>1, <1>8, <3>1 DEF Relayed
    <2> QED
      BY <1>3, <2>1
  <1>9. fwd' = IF server.st = "up" THEN Bytes(1, taken') ELSE fwd
    BY <1>7, <1>8
  <1> QED
    BY <1>1, <1>4, <1>6, <1>9 DEF F!Write, F!toClient

LEMMA FlowResets ==
  ASSUME Typed, IInv, Relayed, nat.ex, HandleRst,
         client'.got = client.got, client'.rfin = client.rfin
  PROVE  F!Write
  <1>1. /\ server' = server /\ taken' = taken /\ fwd' = fwd /\ ended' = (ended \/ nat.ex)
        /\ ~ended /\ server.st # "none"
    BY DEF HandleRst, Relayed
  <1>2. ended' \in BOOLEAN
    BY <1>1
  <1>3. F!IsPrefix(Bytes(1, taken), Bytes(1, taken'))
    <2>1. taken \in Nat /\ taken <= taken
      BY GivenType
    <2> QED
      BY <1>1, <2>1, BytesInit
  <1>4. server.st = "up" => fwd' = Bytes(1, taken')
    BY <1>1, AllGiven
  <1> QED
    BY <1>1, <1>2, <1>3, <1>4 DEF F!Write, F!toClient

LEMMA FlowOpens ==
  ASSUME Typed, ClientSyn
  PROVE  F!Open
  <1>1. client'.got = <<>> /\ client'.rfin = FALSE
    BY DEF ClientSyn, NoClient
  <1>2. /\ server'.st = "asked" /\ server'.sent = 0 /\ taken' = 0 /\ fwd' = <<>>
        /\ ended' = FALSE
    BY DEF ClientSyn, HandleSyn
  <1>3. Bytes(1, 0) = <<>>
    <2>1. 0 + 1 = 1
      OBVIOUS
    <2> QED
      BY <2>1, NoBytes
  <1>4. Bytes(1, taken') = <<>> /\ Bytes(1, server'.sent) = <<>>
    BY <1>2, <1>3, Zenon
  <1> QED
    BY <1>1, <1>2, <1>4 DEF F!Open, F!toServer, F!toClient

(* What waits for the connection is handed over with it.                   *)
LEMMA FlowConnects ==
  ASSUME Typed, IInv, Relayed, Connected
  PROVE  F!Connect
  <1>1. /\ server.st = "asked" /\ server'.st = "up" /\ server'.sent = server.sent
        /\ client' = client /\ taken' = taken /\ ended' = ended
    BY ServerFields DEF Connected, OnConnected
  <1>2. CASE nat.ex
    <2>1. nat.st # "closing" /\ ~ended
      BY <1>1, <1>2 DEF Relayed
    <2>2. Given = Bytes(1, taken)
      BY <1>2, <2>1 DEF IInv, Forwarding
    <2>3. fwd' = Given
      BY <1>2 DEF Connected, OnConnected, Given
    <2> QED
      BY <1>1, <2>1, <2>2, <2>3 DEF F!Connect, F!toClient
  <1>3. CASE ~nat.ex
    <2>1. ended /\ fwd' = fwd
      BY <1>1, <1>3 DEF Relayed, Connected, OnConnected
    <2> QED
      BY <1>1, <2>1 DEF F!Connect, F!toClient
  <1> QED
    BY <1>2, <1>3

LEMMA FlowReports ==
  ASSUME Typed, IInv, Relayed, Relay
  PROVE  F!Next
  <1>1. CASE Connected
    BY <1>1, FlowConnects DEF F!Next
  <1>2. CASE ConnectFailed
    <2>1. /\ server.st = "asked" /\ server'.st = "over" /\ server'.sent = server.sent
          /\ client' = client /\ UNCHANGED <<taken, fwd, ended>>
      BY <1>2, ServerFields DEF ConnectFailed, OnReset, upstream
    <2> QED
      BY <2>1 DEF F!Next, F!Refuse, F!toServer, F!toClient
  <1>3. CASE ServerResets \/ ServerShutdown
    <2>1. /\ server.st = "up" /\ server'.st = "over" /\ server'.sent = server.sent
          /\ client' = client /\ UNCHANGED <<taken, fwd, ended>>
      BY <1>3, ServerFields DEF ServerResets, ServerShutdown, OnReset, OnShutdown, upstream
    <2> QED
      BY <2>1 DEF F!Next, F!Finish, F!toServer, F!toClient
  <1>4. CASE ServerData
    <2>1. PICK n \in 1..MaxSeg : server' = [server EXCEPT !.sent = @ + n]
      BY <1>4 DEF ServerData
    <2>2. /\ server.st = "up" /\ client' = client /\ UNCHANGED <<taken, fwd, ended>>
          /\ server.sent \in Nat /\ server'.sent = server.sent + n /\ server'.st = server.st
      BY <1>4, <2>1, Capacities DEF ServerData, OnData, upstream, Typed
    <2>3. server'.sent \in Nat /\ server.sent < server'.sent /\ server.sent <= server'.sent
      BY <2>2
    <2>4. F!IsStrictPrefix(Bytes(1, server.sent), Bytes(1, server'.sent))
      BY <2>2, <2>3, BytesInit
    <2> QED
      BY <2>2, <2>4 DEF F!Next, F!Say, F!Grows, F!toServer
  <1> QED
    BY <1>1, <1>2, <1>3, <1>4 DEF Relay

(* The client hears what comes next, or the end when it is due.            *)
LEMMA FlowHears ==
  ASSUME Typed, Downstream, Content, ClientReceives
  PROVE  F!Next \/ UNCHANGED F!vars
  <1>1. tunOut # <<>> /\ UNCHANGED <<server, taken, fwd, ended>>
    BY Received
  <1>2. CASE client'.got = client.got /\ client'.rfin = client.rfin
    BY <1>1, <1>2, FlowStutters
  <1>3. CASE /\ client.st = "est"
             /\ client'.got = client.got \o tunOut[1].data
             /\ client'.rfin = (client.rfin \/ tunOut[1].kind = "fin")
    <2>1. PICK a \in Nat, b \in 0..server.sent, c \in Nat :
            /\ a <= c /\ c <= b
            /\ client.got = Bytes(1, a) /\ tunOut[1].data = Bytes(a + 1, c)
            /\ client.got \o tunOut[1].data = Bytes(1, c)
            /\ HasFin(Tail(tunOut), 0) \/ client.rfin \/ tunOut[1].kind = "fin" => Done(b)
            /\ client.rfin \/ tunOut[1].kind = "fin" => a = b
      BY <1>1, <1>3, ReadsNext
    <2>2. server.sent \in Nat /\ b \in Nat /\ b <= server.sent
      BY Capacities DEF Typed
    <2>3. client'.got = Bytes(1, c)
      BY <1>3, <2>1
    <2>4. client.rfin \in BOOLEAN /\ client'.rfin \in BOOLEAN
      BY <1>3, ClientFields DEF Typed
    <2>5. CASE client.rfin \/ tunOut[1].kind = "fin"
      <3>1. a = b /\ c = a /\ client'.got = client.got /\ client'.rfin = TRUE
        <4>1. a = b /\ client'.rfin = TRUE
          BY <1>3, <2>1, <2>5, Zenon
        <4>2. c = a
          BY <2>1, <2>2, <4>1
        <4> QED
          BY <2>1, <2>3, <4>1, <4>2
      <3>2. CASE client.rfin
        <4>1. client'.rfin = client.rfin
          BY <2>4, <3>1, <3>2
        <4> QED
          BY <1>1, <3>1, <4>1, FlowStutters
      <3>3. CASE ~client.rfin
        <4>1. Done(b)
          BY <2>1, <2>5
        <4>2. ended \/ (server.st = "over" /\ client.got = Bytes(1, server.sent))
          BY <2>1, <3>1, <4>1 DEF Done
        <4> QED
          BY <1>1, <3>1, <3>3, <4>2 DEF F!Next, F!End, F!toServer
      <3> QED
        BY <3>2, <3>3
    <2>6. CASE ~client.rfin /\ tunOut[1].kind # "fin"
      <3>1. client'.rfin = client.rfin
        BY <1>3, <2>4, <2>6
      <3>2. CASE a = c
        <4>1. client'.got = client.got
          BY <2>1, <2>3, <3>2
        <4> QED
          BY <1>1, <3>1, <4>1, FlowStutters
      <3>3. CASE a # c
        <4>1. a < c /\ c <= server.sent
          BY <2>1, <2>2, <3>3
        <4>2. F!IsStrictPrefix(Bytes(1, a), Bytes(1, c))
          BY <2>1, <4>1, BytesInit
        <4>3. F!IsPrefix(Bytes(1, c), Bytes(1, server.sent))
          BY <2>2, <4>1, BytesInit
        <4> QED
          BY <1>1, <2>1, <2>3, <2>6, <3>1, <4>2, <4>3 DEF F!Next, F!Hear, F!Grows, F!toServer
      <3> QED
        BY <3>2, <3>3
    <2> QED
      BY <2>5, <2>6
  <1> QED
    BY <1>2, <1>3, Received

LEMMA FlowStep ==
  ASSUME ~Late, ~LossOut, ~SynRetry, [Next]_vars,
         Typed, IInv, IInv', Downstream, Relayed, Content
  PROVE  F!Next \/ UNCHANGED F!vars
  <1>1. CASE ClientSyn
    BY <1>1, FlowOpens DEF F!Next
  <1>2. CASE ClientData \/ ClientFin \/ ClientAck
    <2>1. client'.got = client.got /\ client'.rfin = client.rfin
      BY <1>2, ClientSegment
    <2>2. PICK seq \in 0..(Modulus - 1), data \in Seq(1..MaxUp), fin \in BOOLEAN :
            HandleSegment(seq, data, fin) \/ Lost
      BY <1>2, ClientSegment
    <2>3. CASE HandleSegment(seq, data, fin) /\ nat.ex
      BY <2>1, <2>3, FlowWrites DEF F!Next
    <2>4. CASE Lost \/ (HandleSegment(seq, data, fin) /\ ~nat.ex)
      <3>1. UNCHANGED <<server, taken, fwd, ended>>
        BY <2>4, LostKeeps, SegmentEnds
      <3> QED
        BY <2>1, <3>1, FlowStutters
    <2> QED
      BY <2>2, <2>3, <2>4
  <1>3. CASE ClientRst
    <2>1. client' = [client EXCEPT !.st = "closed"]
      BY <1>3 DEF ClientRst
    <2>2. client'.got = client.got /\ client'.rfin = client.rfin
      BY <2>1 DEF Typed, ClientState
    <2>3. CASE HandleRst /\ nat.ex
      BY <2>2, <2>3, FlowResets DEF F!Next
    <2>4. CASE Lost \/ (HandleRst /\ ~nat.ex)
      <3>1. UNCHANGED <<server, taken, fwd, ended>>
        BY <2>4, LostKeeps DEF HandleRst, Typed
      <3> QED
        BY <2>2, <3>1, FlowStutters
    <2> QED
      BY <1>3, <2>3, <2>4 DEF ClientRst
  <1>4. CASE ClientCloses
    <2>1. client' = [client EXCEPT !.st = "closed"] /\ UNCHANGED <<server, taken, fwd, ended>>
      BY <1>4 DEF ClientCloses, upstream
    <2>2. client'.got = client.got /\ client'.rfin = client.rfin
      BY <2>1 DEF Typed, ClientState
    <2> QED
      BY <2>1, <2>2, FlowStutters
  <1>5. CASE TimePasses \/ Cleanup \/ UNCHANGED vars
    <2>1. UNCHANGED <<client, server, taken, fwd, ended>>
      BY <1>5 DEF TimePasses, Cleanup, vars, upstream
    <2> QED
      BY <2>1, FlowStutters
  <1>6. CASE ClientReceives
    BY <1>6, FlowHears
  <1>7. CASE Relay
    BY <1>7, FlowReports
  <1>8. ~ClientSynAgain /\ ~SegmentDropped /\ ~LateRelay
    BY DEF ClientSynAgain, SegmentDropped, LateRelay, LateConnected, LateFailed, LateReset,
           LateShutdown, LateData, LateIs, Relayed
  <1> QED
    BY <1>1, <1>2, <1>3, <1>4, <1>5, <1>6, <1>7, <1>8 DEF Next, Client

(* The endpoint implements the flow (Flow.tla): both applications see one  *)
(* connection whose bytes arrive complete and in order, when the adapter   *)
(* drops nothing, the client does not repeat its SYN and the relay reports *)
(* on one connection of a port at a time.  Segments to the proxy may get   *)
(* lost (tun_windows.rs, handle_tcp).                                      *)
THEOREM ContractKept ==
  ASSUME ~Late, ~LossOut, ~SynRetry
  PROVE  Spec => KeepsContract
  <1>1. Init => F!Init
    <2> SUFFICES ASSUME Init
                 PROVE  F!Init
      OBVIOUS
    <2>1. /\ server.st = "none" /\ server.sent = 0 /\ taken = 0 /\ fwd = <<>>
          /\ ended = FALSE /\ client.got = <<>> /\ client.rfin = FALSE
      BY DEF Init, NoClient
    <2>2. Bytes(1, 0) = <<>>
      <3>1. 0 + 1 = 1
        OBVIOUS
      <3> QED
        BY <3>1, NoBytes
    <2>3. Bytes(1, taken) = <<>> /\ Bytes(1, server.sent) = <<>>
      BY <2>1, <2>2, Zenon
    <2> QED
      BY <2>1, <2>3 DEF F!Init, F!toServer, F!toClient
  <1>2. /\ Typed /\ IInv /\ (Typed /\ IInv)' /\ Downstream /\ Relayed /\ Content
        /\ [Next]_vars
        => [F!Next]_(F!vars)
    <2> SUFFICES ASSUME Typed, IInv, IInv', Downstream, Relayed, Content, [Next]_vars
                 PROVE  F!Next \/ UNCHANGED F!vars
      OBVIOUS
    <2> QED
      BY FlowStep
  <1> QED
    BY <1>1, <1>2, Inductive, DownstreamInductive, ContentInductive, PTL
       DEF Spec, KeepsContract, F!Spec
-----------------------------------------------------------------------------
(***************************************************************************)
(* What the contract is good for.                                          *)
(***************************************************************************)
LEMMA PrefixSame ==
  ASSUME NEW s \in Seq(Nat)
  PROVE  F!IsPrefix(s, s)
  <1>1. Len(s) \in Nat
    BY LenProperties
  <1>2. Len(s) <= Len(s)
    BY <1>1
  <1> QED
    BY <1>2 DEF F!IsPrefix

LEMMA PrefixItems ==
  ASSUME NEW s \in Seq(Nat), NEW t \in Seq(Nat)
  PROVE  F!IsPrefix(s, t) <=> /\ Len(s) <= Len(t)
                              /\ \A i \in 1..Len(s) : s[i] = t[i]
  <1> DEFINE n == Len(s)
             u == SubSeq(t, 1, n)
  <1>1. n \in Nat /\ Len(t) \in Nat /\ SubSeq(s, 1, n) = s
    BY LenProperties, SubSeqFull
  <1>2. F!IsPrefix(s, t) <=> n <= Len(t) /\ s = u
    BY <1>1 DEF F!IsPrefix
  <1>l. n = Len(s)
    OBVIOUS
  <1> HIDE DEF n
  <1>3. ASSUME n <= Len(t)
        PROVE  u \in Seq(Nat) /\ Len(u) = n /\ \A i \in 1..n : u[i] = t[i]
    <2>1. \A i \in 1..n : t[i] \in Nat
      <3>1. \A i \in 1..Len(t) : t[i] \in Nat
        BY ElementOfSeq
      <3> QED
        BY <1>1, <1>3, <3>1
    <2>2. /\ u \in Seq(Nat) /\ Len(u) = IF 1 <= n THEN n - 1 + 1 ELSE 0
          /\ \A i \in 1..(n - 1 + 1) : u[i] = t[1 + i - 1]
      BY <1>1, <2>1, SubSeqProperties
    <2> HIDE DEF u
    <2>3. Len(u) = n /\ n - 1 + 1 = n
      BY <1>1, <2>2
    <2>4. ASSUME NEW i \in 1..n
          PROVE  u[i] = t[i]
      <3>1. 1 + i - 1 = i
        OBVIOUS
      <3> QED
        BY <2>2, <2>3, <3>1
    <2> QED
      BY <2>2, <2>3, <2>4
  <1> HIDE DEF u
  <1>4. ASSUME n <= Len(t)
        PROVE  s = u <=> \A i \in 1..n : s[i] = t[i]
    <2>1. u \in Seq(Nat) /\ Len(u) = n /\ \A i \in 1..n : u[i] = t[i]
      BY <1>3, <1>4
    <2>2. (\A i \in 1..n : s[i] = t[i]) => s = u
      BY <1>l, <2>1, SeqEqual
    <2>3. s = u => \A i \in 1..n : s[i] = t[i]
      BY <2>1
    <2> QED
      BY <2>2, <2>3
  <1> QED
    BY <1>2, <1>4, <1>l

LEMMA PrefixChain ==
  ASSUME NEW s \in Seq(Nat), NEW t \in Seq(Nat), NEW u \in Seq(Nat),
         F!IsPrefix(s, t), F!IsPrefix(t, u)
  PROVE  F!IsPrefix(s, u)
  <1>1. /\ Len(s) <= Len(t) /\ Len(t) <= Len(u)
        /\ \A i \in 1..Len(s) : s[i] = t[i]
        /\ \A i \in 1..Len(t) : t[i] = u[i]
    BY PrefixItems
  <1>2. Len(s) \in Nat /\ Len(t) \in Nat /\ Len(u) \in Nat
    BY LenProperties
  <1>3. Len(s) <= Len(u) /\ \A i \in 1..Len(s) : i \in 1..Len(t)
    BY <1>1, <1>2
  <1>4. \A i \in 1..Len(s) : s[i] = u[i]
    BY <1>1, <1>3
  <1> QED
    BY <1>3, <1>4, PrefixItems

(* The server's side has a prefix of what was taken from the client, all   *)
(* of it while both are there; the client has a prefix of what the server  *)
(* said; and unless it has hung up itself, an end it reads is the server's *)
(* and comes after the last byte.                                          *)
Promise ==
  /\ F!IsPrefix(fwd, Bytes(1, taken))
  /\ server.st = "up" /\ ~ended => fwd = Bytes(1, taken)
  /\ F!IsPrefix(client.got, Bytes(1, server.sent))
  /\ client.rfin => ended \/ (server.st = "over" /\ client.got = Bytes(1, server.sent))

Streams ==
  /\ fwd \in Seq(Nat) /\ client.got \in Seq(Nat)
  /\ Bytes(1, taken) \in Seq(Nat) /\ Bytes(1, server.sent) \in Seq(Nat)

LEMMA StreamTypes ==
  ASSUME Typed
  PROVE  Streams
  <1>1. taken \in Nat /\ server.sent \in Nat /\ 0..MaxDown \subseteq Nat
    BY Capacities DEF Typed
  <1>2. client.got \in Seq(0..MaxDown)
    BY ClientFields DEF Typed
  <1>3. client.got \in Seq(Nat)
    BY <1>1, <1>2, SeqMonotonic
  <1> QED
    BY <1>1, <1>3, GivenType, FirstBytes DEF Streams

(* One step of the contract, about any streams.                            *)
LEMMA PromiseKept ==
  ASSUME Streams, Promise, F!Next, Streams'
  PROVE  Promise'
  <1>1. /\ fwd \in Seq(Nat) /\ client.got \in Seq(Nat)
        /\ Bytes(1, taken) \in Seq(Nat) /\ Bytes(1, server.sent) \in Seq(Nat)
        /\ Bytes(1, taken') \in Seq(Nat) /\ Bytes(1, server'.sent) \in Seq(Nat)
    BY DEF Streams
  <1>2. CASE F!Open
    <2>1. /\ Bytes(1, taken') = <<>> /\ fwd' = <<>> /\ ended' = FALSE
          /\ Bytes(1, server'.sent) = <<>> /\ client'.got = <<>> /\ client'.rfin = FALSE
      BY <1>2 DEF F!Open, F!toServer, F!toClient
    <2>2. F!IsPrefix(<<>>, <<>>)
      <3>1. <<>> \in Seq(Nat)
        OBVIOUS
      <3> QED
        BY <3>1, PrefixSame
    <2> QED
      BY <2>1, <2>2 DEF Promise
  <1>3. CASE F!Connect
    <2>1. /\ server.st = "asked" /\ server'.st = "up" /\ ended' = ended
          /\ fwd' = IF ended THEN fwd ELSE Bytes(1, taken)
          /\ Bytes(1, taken') = Bytes(1, taken)
          /\ Bytes(1, server'.sent) = Bytes(1, server.sent)
          /\ client'.got = client.got /\ client'.rfin = client.rfin
      BY <1>3 DEF F!Connect, F!toClient
    <2>2. F!IsPrefix(Bytes(1, taken), Bytes(1, taken))
      BY <1>1, PrefixSame
    <2> QED
      BY <2>1, <2>2 DEF Promise
  <1>4. CASE F!Refuse \/ F!Finish
    <2>1. /\ server.st \in {"asked", "up"} /\ server'.st = "over" /\ ended' = ended
          /\ fwd' = fwd /\ Bytes(1, taken') = Bytes(1, taken)
          /\ Bytes(1, server'.sent) = Bytes(1, server.sent)
          /\ client'.got = client.got /\ client'.rfin = client.rfin
      BY <1>4 DEF F!Refuse, F!Finish, F!toServer, F!toClient
    <2> QED
      BY <2>1 DEF Promise
  <1>5. CASE F!Write
    <2>1. /\ ~ended /\ server'.st = server.st
          /\ F!IsPrefix(Bytes(1, taken), Bytes(1, taken'))
          /\ fwd' = IF server.st = "up" THEN Bytes(1, taken') ELSE fwd
          /\ Bytes(1, server'.sent) = Bytes(1, server.sent)
          /\ client'.got = client.got /\ client'.rfin = client.rfin
      BY <1>5 DEF F!Write, F!toClient
    <2>2. F!IsPrefix(fwd', Bytes(1, taken'))
      <3>1. CASE server.st = "up"
        BY <1>1, <2>1, <3>1, PrefixSame
      <3>2. CASE server.st # "up"
        BY <1>1, <2>1, <3>2, PrefixChain DEF Promise
      <3> QED
        BY <3>1, <3>2
    <2> QED
      BY <2>1, <2>2 DEF Promise
  <1>6. CASE F!Say
    <2>1. /\ server.st = "up" /\ server'.st = server.st /\ ended' = ended
          /\ fwd' = fwd /\ Bytes(1, taken') = Bytes(1, taken)
          /\ F!IsPrefix(Bytes(1, server.sent), Bytes(1, server'.sent))
          /\ client'.got = client.got /\ client'.rfin = client.rfin
      BY <1>6 DEF F!Say, F!Grows, F!IsStrictPrefix, F!toServer
    <2>2. F!IsPrefix(client.got, Bytes(1, server'.sent))
      BY <1>1, <2>1, PrefixChain DEF Promise
    <2> QED
      BY <2>1, <2>2 DEF Promise
  <1>7. CASE F!Hear
    <2>1. /\ server'.st = server.st /\ ended' = ended /\ ~client.rfin
          /\ fwd' = fwd /\ Bytes(1, taken') = Bytes(1, taken)
          /\ Bytes(1, server'.sent) = Bytes(1, server.sent)
          /\ F!IsPrefix(client'.got, Bytes(1, server.sent)) /\ client'.rfin = client.rfin
      BY <1>7 DEF F!Hear, F!toServer
    <2> QED
      BY <2>1 DEF Promise
  <1>8. CASE F!End
    <2>1. /\ server'.st = server.st /\ ended' = ended
          /\ fwd' = fwd /\ Bytes(1, taken') = Bytes(1, taken)
          /\ Bytes(1, server'.sent) = Bytes(1, server.sent)
          /\ client'.got = client.got
          /\ ended \/ (server.st = "over" /\ client.got = Bytes(1, server.sent))
      BY <1>8 DEF F!End, F!toServer
    <2> QED
      BY <2>1 DEF Promise
  <1> QED
    BY <1>2, <1>3, <1>4, <1>5, <1>6, <1>7, <1>8 DEF F!Next

(* Whatever is lost on the way to the proxy and however the client sends   *)
(* it again, what each application reads of the other one is what that one *)
(* wrote, from the first byte and without a gap (tun_windows.rs,           *)
(* handle_tcp and handle_relay_event).                                     *)
THEOREM StreamsAreKept ==
  ASSUME ~Late, ~LossOut, ~SynRetry
  PROVE  Spec => []Promise
  <1>1. Init => Promise
    <2> SUFFICES ASSUME Init
                 PROVE  Promise
      OBVIOUS
    <2>1. /\ server.st = "none" /\ server.sent = 0 /\ taken = 0 /\ fwd = <<>>
          /\ client.got = <<>> /\ ~client.rfin
      BY DEF Init, NoClient
    <2>2. Bytes(1, 0) = <<>>
      <3>1. 0 + 1 = 1
        OBVIOUS
      <3> QED
        BY <3>1, NoBytes
    <2>3. Bytes(1, taken) = <<>> /\ Bytes(1, server.sent) = <<>>
      BY <2>1, <2>2, Zenon
    <2>4. F!IsPrefix(<<>>, <<>>)
      <3>1. <<>> \in Seq(Nat)
        OBVIOUS
      <3> QED
        BY <3>1, PrefixSame
    <2> QED
      BY <2>1, <2>3, <2>4 DEF Promise
  <1>2. Typed => Streams
    BY StreamTypes
  <1>3. Streams /\ Promise /\ [F!Next]_(F!vars) /\ Streams' => Promise'
    <2>1. CASE F!Next
      BY <2>1, PromiseKept
    <2>2. CASE UNCHANGED F!vars
      BY <2>2 DEF F!vars, F!toServer, F!toClient, Promise
    <2> QED
      BY <2>1, <2>2
  <1> QED
    BY <1>1, <1>2, <1>3, Inductive, ContractKept, PTL
       DEF Spec, KeepsContract, F!Spec
=============================================================================
