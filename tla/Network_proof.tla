--------------------------- MODULE Network_proof ----------------------------
(***************************************************************************)
(* Proofs about Network: for every set of networks, packets are neither    *)
(* lost nor duplicated, no event sleeps longer than it has to, automatic   *)
(* routes are the shortest ones, cycles are warned of, and no handler      *)
(* panics if every message fits and has a route.                           *)
(***************************************************************************)
EXTENDS RoutingTable_proof

(***************************************************************************)
(* The inductive invariant.                                                *)
(***************************************************************************)
Events == [frame : Frames, ev : {"retry", "output", "input", "receive", "arrived"}, t : Nat]

NetTypes ==
    /\ nw \in Nets
    /\ phase \in {"start", "hops", "cost", "search", "ready", "error"}
    /\ agenda \in Seq(Events)
    /\ queue \in [Buffers -> Seq(Waiters)]
    /\ content \in [Buffers -> Seq(Packets)]
    /\ at \in [Packets -> Buffers \cup {NoBuffer}]
    /\ busy \in [Resources -> Nat]
    /\ status \in [Msgs -> {"idle", "trying", "sent", "received"}]
    /\ assembled \in [Msgs -> SUBSET Packets]
    /\ \A m \in Msgs : assembled[m] \subseteq PacketsOf(m)

\* The buffer of a route is a buffer of the network, and does not come back to
\* the node.
GoodBuffer(i, b) ==
    /\ b \in Buffers \cup {NoBuffer}
    /\ b \in InBuffers(nw) => BufferNode(nw, b) # i

GoodTable(t) ==
    /\ DOMAIN t = nw.nodes
    /\ \A i \in nw.nodes : DOMAIN t[i] = nw.nodes
    /\ \A i, j \in nw.nodes : "buffer" \in DOMAIN t[i][j] /\ GoodBuffer(i, t[i][j].buffer)

GoodSteps ==
    {r \in [from : nw.nodes, to : nw.nodes, next : nw.nodes, vc : Nat] : r.next # r.from}

TableInv == GoodTable(table) /\ steps \in Seq(GoodSteps)

\* The frames of the events of a queue, and the events without their times.
FramesOf(q) == {q[i].frame : i \in DOMAIN q}
Kinds(q) == {<<q[i].frame, q[i].ev>> : i \in DOMAIN q}
Once(q) == \A i, j \in DOMAIN q : q[i].frame = q[j].frame => i = j

(***************************************************************************)
(* The parts of the invariant, for a heap ag, queues q, contents c of the  *)
(* buffers, pointers a of the packets, states st of the messages and sets  *)
(* as of their assembled packets.                                          *)
(***************************************************************************)
\* No frame has two events in heap ag and the queues q of the buffers B.
Shape(ag, q, B) ==
    /\ Once(ag)
    /\ \A b \in B : Once(q[b]) /\ FramesOf(q[b]) \cap FramesOf(ag) = {}
    /\ \A b, d \in B : b # d => FramesOf(q[b]) \cap FramesOf(q[d]) = {}

Has(ag, q, B) == FramesOf(ag) \cup UNION {FramesOf(q[b]) : b \in B}
AllKinds(ag, q, B) == Kinds(ag) \cup UNION {Kinds(q[b]) : b \in B}

\* The frames that have an event.
Expected(f, st, as) ==
    IF f[2] = 0
    THEN \/ st[f[1]] = "trying"
         \/ st[f[1]] = "sent" /\ as[f[1]] = PacketsOf(f[1])
    ELSE st[f[1]] = "sent" /\ f \notin as[f[1]]

EventsOK(ag, q, st, as) ==
    /\ Shape(ag, q, Buffers)
    /\ \A f \in Frames : Expected(f, st, as) <=> f \in Has(ag, q, Buffers)

\* What an event says about its frame.
KindOK(x, a, st) ==
    /\ x[1][2] = 0 => \/ x[2] = "retry" /\ st[x[1][1]] = "trying"
                      \/ x[2] = "arrived" /\ st[x[1][1]] = "sent"
    /\ x[1][2] # 0 => x[2] \in {"output", "input", "receive"}
    /\ x[2] \in {"output", "input"} => nw.fix = 0
    /\ x[2] = "input" => a[x[1]] \in InBuffers(nw)

KindsOK(ag, q, a, st) == \A x \in AllKinds(ag, q, Buffers) : KindOK(x, a, st)

\* Where the packets are.
Stored(p, st) == st[p[1]] = "sent" /\ nw.fix = 0

PlacesOK(c, a, st) ==
    /\ \A b \in Buffers : IsInjective(c[b])
    /\ \A p \in Packets, b \in Buffers :
            p \in Range(c[b]) <=> Stored(p, st) /\ a[p] = b
    /\ \A p \in Packets : Stored(p, st) => a[p] \in Buffers

BytesOf(c) ==
    Cardinality(UNION {{<<i, k>> : k \in 1 .. PacketSize(c[i][1])} : i \in DOMAIN c})

RoomOK(c) == \A b \in Buffers : BytesOf(c[b]) <= nw.room

AssembledOK(st, as) ==
    \A m \in Msgs : st[m] \in {"idle", "trying"} => as[m] = {}

\* Why frame f sleeps at a buffer b with content c.
Blocked(f, b, c, a) ==
    IF f[2] = 0 THEN ~ (BytesOf(c) + Required(f[1]) <= nw.room)
    ELSE IF a[f] = b THEN ~ (c # <<>> /\ Head(c) = f)
    ELSE ~ (BytesOf(c) + PacketSize(f[1]) <= nw.room)

SleepOK(q, c, a) == \A b \in Buffers : \A f \in FramesOf(q[b]) : Blocked(f, b, c[b], a)

TrafficInv ==
    /\ EventsOK(agenda, queue, status, assembled)
    /\ KindsOK(agenda, queue, at, status)
    /\ PlacesOK(content, at, status) /\ RoomOK(content)
    /\ AssembledOK(status, assembled) /\ SleepOK(queue, content, at)

NetInv == NetTypes /\ TableInv /\ TrafficInv
-----------------------------------------------------------------------------
(***************************************************************************)
(* The entries of sequences that Picked puts together.                     *)
(***************************************************************************)
Earlier(S, x) == {y \in S : y[1] < x[1] \/ (y[1] = x[1] /\ y[2] < x[2])}

LEMMA TurnBounds ==
    ASSUME NEW S \in SUBSET (Nat \X Nat), IsFiniteSet(S), NEW x \in S
    PROVE  /\ Cardinality(S) \in Nat
           /\ Turn(S, x) \in 0 .. Cardinality(S) - 1
           /\ Turn(S, x) = Cardinality(Earlier(S, x)) /\ IsFiniteSet(Earlier(S, x))
<1> DEFINE E == Earlier(S, x)
<1>1. E \in SUBSET (S \ {x})
  <2>1. x[1] \in Nat /\ x[2] \in Nat
    OBVIOUS
  <2>2. x \notin E
    BY <2>1 DEF Earlier
  <2> QED  BY <2>2 DEF Earlier
<1>2. Turn(S, x) = Cardinality(E)
  BY DEF Turn, Earlier
<1> HIDE DEF E
<1>3. IsFiniteSet(S \ {x}) /\ Cardinality(S \ {x}) = Cardinality(S) - 1
  BY FS_RemoveElement
<1>4. IsFiniteSet(E) /\ Cardinality(E) <= Cardinality(S) - 1
  BY <1>1, <1>3, FS_Subset
<1>5. Cardinality(S) \in Nat /\ Cardinality(E) \in Nat
  BY <1>4, FS_CardinalityType
<1> QED  BY <1>2, <1>4, <1>5 DEF E

LEMMA TurnOrder ==
    ASSUME NEW S \in SUBSET (Nat \X Nat), IsFiniteSet(S), NEW x \in S, NEW y \in S,
           x \in Earlier(S, y)
    PROVE  Turn(S, x) < Turn(S, y)
<1> DEFINE X == Earlier(S, x)
           Y == Earlier(S, y)
<1>1. X \in SUBSET Y
  <2> SUFFICES ASSUME NEW z \in X PROVE z \in Y
    OBVIOUS
  <2>1. z \in S /\ z[1] \in Nat /\ z[2] \in Nat
    BY DEF Earlier
  <2>2. x[1] \in Nat /\ x[2] \in Nat /\ y[1] \in Nat /\ y[2] \in Nat
    OBVIOUS
  <2>3. z[1] < x[1] \/ (z[1] = x[1] /\ z[2] < x[2])
    BY DEF Earlier
  <2>4. x[1] < y[1] \/ (x[1] = y[1] /\ x[2] < y[2])
    BY DEF Earlier
  <2>5. z[1] < y[1] \/ (z[1] = y[1] /\ z[2] < y[2])
    BY <2>1, <2>2, <2>3, <2>4
  <2> QED  BY <2>1, <2>5 DEF Earlier
<1>2. x \notin X
  <2>1. x[1] \in Nat /\ x[2] \in Nat
    OBVIOUS
  <2> QED  BY <2>1 DEF Earlier
<1>3. /\ Turn(S, x) = Cardinality(X) /\ IsFiniteSet(X)
      /\ Turn(S, y) = Cardinality(Y) /\ IsFiniteSet(Y)
      /\ Turn(S, x) \in Nat /\ Turn(S, y) \in Nat
  BY TurnBounds
<1> HIDE DEF X, Y
<1>4. X # Y
  BY <1>2 DEF Y
<1>5. Cardinality(X) <= Cardinality(Y) /\ Cardinality(X) # Cardinality(Y)
  BY <1>1, <1>3, <1>4, FS_Subset
<1> QED  BY <1>3, <1>5

\* Every position has its turn.
LEMMA PositionIs ==
    ASSUME NEW S \in SUBSET (Nat \X Nat), IsFiniteSet(S)
    PROVE  /\ Cardinality(S) \in Nat
           /\ \A k \in 1 .. Cardinality(S) : Position(S, k) \in S
           /\ \A k, l \in 1 .. Cardinality(S) : Position(S, k) = Position(S, l) => k = l
           /\ \A x \in S : \E k \in 1 .. Cardinality(S) : Position(S, k) = x
<1> DEFINE n == Cardinality(S)
           f == [x \in S |-> Turn(S, x) + 1]
<1>1. n \in Nat
  BY FS_CardinalityType
<1> HIDE DEF n
<1>2. f \in [S -> 1 .. n] /\ \A x \in S : Turn(S, x) = f[x] - 1 /\ f[x] \in Nat
  <2>1. \A x \in S : Turn(S, x) \in 0 .. n - 1
    BY TurnBounds DEF n
  <2> QED  BY <1>1, <2>1
<1>3. \A x, y \in S : f[x] = f[y] => x = y
  <2> SUFFICES ASSUME NEW x \in S, NEW y \in S, x # y PROVE f[x] # f[y]
    BY Zenon
  <2>1. x[1] \in Nat /\ x[2] \in Nat /\ y[1] \in Nat /\ y[2] \in Nat
    OBVIOUS
  <2>2. x[1] # y[1] \/ x[2] # y[2]
    OBVIOUS
  <2>3. x \in Earlier(S, y) \/ y \in Earlier(S, x)
    BY <2>1, <2>2 DEF Earlier
  <2>4. Turn(S, x) < Turn(S, y) \/ Turn(S, y) < Turn(S, x)
    BY <2>3, TurnOrder
  <2>5. Turn(S, x) = f[x] - 1 /\ Turn(S, y) = f[y] - 1 /\ f[x] \in Nat /\ f[y] \in Nat
    BY <1>2
  <2> HIDE DEF f
  <2> QED  BY <2>4, <2>5
<1> HIDE DEF f
<1>4. f \in Injection(S, 1 .. n)
  BY <1>2, <1>3, Fun_IsInj
<1>5. IsFiniteSet(1 .. n) /\ Cardinality(1 .. n) = n
  BY <1>1, FS_Interval
<1>6. f \in Surjection(S, 1 .. n)
  BY <1>4, <1>5, FS_Injection DEF n
<1>7. \A k \in 1 .. n : \E x \in S : f[x] = k
  BY <1>6, Fun_SurjectionProperties
<1>8. \A k \in 1 .. n : Position(S, k) \in S /\ f[Position(S, k)] = k
  <2> SUFFICES ASSUME NEW k \in 1 .. n PROVE Position(S, k) \in S /\ f[Position(S, k)] = k
    OBVIOUS
  <2>1. PICK x \in S : f[x] = k
    BY <1>7
  <2>2. Turn(S, x) = k - 1
    BY <1>2, <2>1
  <2>3. Position(S, k) \in S /\ Turn(S, Position(S, k)) = k - 1
    BY <2>2, Zenon DEF Position
  <2>4. f[Position(S, k)] - 1 = k - 1 /\ f[Position(S, k)] \in Nat
    BY <1>2, <2>3
  <2> QED  BY <2>3, <2>4
<1>9. \A x \in S : f[x] \in 1 .. n /\ Position(S, f[x]) = x
  BY <1>2, <1>3, <1>8
<1>10. \A k, l \in 1 .. n : Position(S, k) = Position(S, l) => k = l
  BY <1>8
<1> QED  BY <1>1, <1>8, <1>9, <1>10 DEF n

\* P has the entries of qs at the positions S, each of them once.
IsPicked(P, qs, S) ==
    /\ \A k \in DOMAIN P : \E x \in S : P[k] = qs[x[1]][x[2]]
    /\ \A x \in S : \E k \in DOMAIN P : P[k] = qs[x[1]][x[2]]
    /\ \A k, l \in DOMAIN P : k # l =>
            \E x, y \in S : x # y /\ P[k] = qs[x[1]][x[2]] /\ P[l] = qs[y[1]][y[2]]

LEMMA PickedIs ==
    ASSUME NEW qs, NEW S \in SUBSET (Nat \X Nat), IsFiniteSet(S)
    PROVE  IsPicked(Picked(qs, S), qs, S)
<1> DEFINE n == Cardinality(S)
           P == Picked(qs, S)
<1>1. /\ n \in Nat
      /\ \A k \in 1 .. n : Position(S, k) \in S
      /\ \A k, l \in 1 .. n : Position(S, k) = Position(S, l) => k = l
      /\ \A x \in S : \E k \in 1 .. n : Position(S, k) = x
  BY PositionIs
<1>2. P = [k \in 1 .. n |-> qs[Position(S, k)[1]][Position(S, k)[2]]]
  BY DEF Picked
<1> HIDE DEF n, P
<1>3. /\ DOMAIN P = 1 .. n
      /\ \A k \in 1 .. n : P[k] = qs[Position(S, k)[1]][Position(S, k)[2]]
  BY <1>2
<1>4. \A k \in DOMAIN P : \E x \in S : P[k] = qs[x[1]][x[2]]
  BY <1>1, <1>3
<1>5. \A x \in S : \E k \in DOMAIN P : P[k] = qs[x[1]][x[2]]
  BY <1>1, <1>3
<1>6. ASSUME NEW k \in DOMAIN P, NEW l \in DOMAIN P, k # l
      PROVE  \E x, y \in S : x # y /\ P[k] = qs[x[1]][x[2]] /\ P[l] = qs[y[1]][y[2]]
  <2>1. Position(S, k) \in S /\ Position(S, l) \in S /\ Position(S, k) # Position(S, l)
    BY <1>1, <1>3, <1>6
  <2> QED  BY <1>3, <2>1
<1> QED  BY <1>4, <1>5, <1>6 DEF IsPicked, P

LEMMA PickedType ==
    ASSUME NEW T, NEW qs, NEW S \in SUBSET (Nat \X Nat), IsFiniteSet(S),
           \A x \in S : qs[x[1]][x[2]] \in T
    PROVE  Picked(qs, S) \in Seq(T)
<1> DEFINE n == Cardinality(S)
<1>1. n \in Nat /\ \A k \in 1 .. n : Position(S, k) \in S
  BY PositionIs
<1>2. Picked(qs, S) = [k \in 1 .. n |-> qs[Position(S, k)[1]][Position(S, k)[2]]]
  BY DEF Picked
<1> HIDE DEF n
<1>3. \A k \in 1 .. n : qs[Position(S, k)[1]][Position(S, k)[2]] \in T
  BY <1>1
<1>4. Picked(qs, S) \in [1 .. n -> T]
  BY <1>2, <1>3
<1> QED  BY <1>1, <1>4

-----------------------------------------------------------------------------
(***************************************************************************)
(* Events that enter and leave the engine's heap and the buffers' queues.  *)
(***************************************************************************)
LEMMA NoEvents == FramesOf(<<>>) = {} /\ Kinds(<<>>) = {} /\ Once(<<>>)
  BY DEF FramesOf, Kinds, Once

LEMMA AppendEvent ==
    ASSUME NEW S, NEW q \in Seq(S), NEW x \in S
    PROVE  /\ Append(q, x) \in Seq(S)
           /\ FramesOf(Append(q, x)) = FramesOf(q) \cup {x.frame}
           /\ Kinds(Append(q, x)) = Kinds(q) \cup {<<x.frame, x.ev>>}
           /\ Once(q) /\ x.frame \notin FramesOf(q) => Once(Append(q, x))
<1> DEFINE r == Append(q, x)
<1>1. /\ r \in Seq(S) /\ Len(q) \in Nat
      /\ DOMAIN r = 1 .. Len(q) + 1 /\ DOMAIN q = 1 .. Len(q)
      /\ \A i \in 1 .. Len(q) : r[i] = q[i]
      /\ r[Len(q) + 1] = x
  OBVIOUS
<1> HIDE DEF r
<1>2. \A i \in DOMAIN r : \/ i \in DOMAIN q /\ r[i] = q[i]
                          \/ i = Len(q) + 1 /\ r[i] = x
  BY <1>1
<1>3. /\ \A i \in DOMAIN q : i \in DOMAIN r /\ r[i] = q[i]
      /\ Len(q) + 1 \in DOMAIN r /\ Len(q) + 1 \notin DOMAIN q
  BY <1>1
<1>4. FramesOf(r) = FramesOf(q) \cup {x.frame}
  <2>1. \A f \in FramesOf(r) : f \in FramesOf(q) \/ f = x.frame
    BY <1>2, Zenon DEF FramesOf
  <2>2. \A f \in FramesOf(q) : f \in FramesOf(r)
    BY <1>3 DEF FramesOf
  <2>3. x.frame \in FramesOf(r)
    BY <1>1, <1>3 DEF FramesOf
  <2> QED  BY <2>1, <2>2, <2>3
<1>5. Kinds(r) = Kinds(q) \cup {<<x.frame, x.ev>>}
  <2>1. \A f \in Kinds(r) : f \in Kinds(q) \/ f = <<x.frame, x.ev>>
    BY <1>2, Zenon DEF Kinds
  <2>2. \A f \in Kinds(q) : f \in Kinds(r)
    BY <1>3 DEF Kinds
  <2>3. <<x.frame, x.ev>> \in Kinds(r)
    BY <1>1, <1>3 DEF Kinds
  <2> QED  BY <2>1, <2>2, <2>3
<1>6. ASSUME Once(q), x.frame \notin FramesOf(q) PROVE Once(r)
  <2> SUFFICES ASSUME NEW i \in DOMAIN r, NEW j \in DOMAIN r, r[i].frame = r[j].frame
               PROVE  i = j
    BY DEF Once
  <2>1. CASE i \in DOMAIN q /\ j \in DOMAIN q
    BY <1>3, <1>6, <2>1 DEF Once
  <2>2. \A k \in DOMAIN q : r[k].frame \in FramesOf(q)
    BY <1>3 DEF FramesOf
  <2> QED  BY <1>1, <1>2, <1>6, <2>1, <2>2
<1> QED  BY <1>1, <1>4, <1>5, <1>6 DEF r

LEMMA ConcatEvents ==
    ASSUME NEW S, NEW q \in Seq(S), NEW r \in Seq(S)
    PROVE  /\ q \o r \in Seq(S)
           /\ FramesOf(q \o r) = FramesOf(q) \cup FramesOf(r)
           /\ Kinds(q \o r) = Kinds(q) \cup Kinds(r)
           /\ Once(q) /\ Once(r) /\ FramesOf(q) \cap FramesOf(r) = {} => Once(q \o r)
<1> DEFINE c == q \o r
           n == Len(q)
<1>1. /\ c \in Seq(S) /\ n \in Nat /\ Len(r) \in Nat
      /\ DOMAIN c = 1 .. n + Len(r) /\ DOMAIN q = 1 .. n /\ DOMAIN r = 1 .. Len(r)
      /\ \A i \in 1 .. n : c[i] = q[i]
      /\ \A i \in 1 .. Len(r) : c[n + i] = r[i]
  OBVIOUS
<1> HIDE DEF c, n
<1>2. \A i \in DOMAIN c : \/ i \in DOMAIN q /\ c[i] = q[i]
                          \/ i - n \in DOMAIN r /\ c[i] = r[i - n] /\ i \in Int
  <2> SUFFICES ASSUME NEW i \in DOMAIN c, i \notin DOMAIN q
               PROVE  i - n \in DOMAIN r /\ c[i] = r[i - n] /\ i \in Int
    BY <1>1
  <2>1. i - n \in 1 .. Len(r) /\ n + (i - n) = i /\ i \in Int
    BY <1>1
  <2> QED  BY <1>1, <2>1
<1>3. /\ \A i \in DOMAIN q : i \in DOMAIN c /\ c[i] = q[i]
      /\ \A i \in DOMAIN r : n + i \in DOMAIN c /\ c[n + i] = r[i]
  <2>1. ASSUME NEW i \in DOMAIN q PROVE i \in DOMAIN c /\ c[i] = q[i]
    BY <1>1
  <2>2. ASSUME NEW i \in DOMAIN r PROVE n + i \in DOMAIN c /\ c[n + i] = r[i]
    <3>1. i \in 1 .. Len(r) /\ n + i \in 1 .. n + Len(r)
      BY <1>1
    <3> QED  BY <1>1, <3>1, Zenon
  <2> QED  BY <2>1, <2>2
<1>4. FramesOf(c) = FramesOf(q) \cup FramesOf(r)
  <2>1. \A f \in FramesOf(c) : f \in FramesOf(q) \/ f \in FramesOf(r)
    BY <1>2, Zenon DEF FramesOf
  <2>2. \A f \in FramesOf(q) : f \in FramesOf(c)
    BY <1>3 DEF FramesOf
  <2>3. \A f \in FramesOf(r) : f \in FramesOf(c)
    BY <1>3 DEF FramesOf
  <2> QED  BY <2>1, <2>2, <2>3
<1>5. Kinds(c) = Kinds(q) \cup Kinds(r)
  <2>1. \A f \in Kinds(c) : f \in Kinds(q) \/ f \in Kinds(r)
    BY <1>2, Zenon DEF Kinds
  <2>2. \A f \in Kinds(q) : f \in Kinds(c)
    BY <1>3 DEF Kinds
  <2>3. \A f \in Kinds(r) : f \in Kinds(c)
    BY <1>3 DEF Kinds
  <2> QED  BY <2>1, <2>2, <2>3
<1>6. ASSUME Once(q), Once(r), FramesOf(q) \cap FramesOf(r) = {} PROVE Once(c)
  <2> SUFFICES ASSUME NEW i \in DOMAIN c, NEW j \in DOMAIN c, c[i].frame = c[j].frame
               PROVE  i = j
    BY DEF Once
  <2>1. CASE i \in DOMAIN q /\ j \in DOMAIN q
    BY <1>3, <1>6, <2>1 DEF Once
  <2>2. /\ \A k \in DOMAIN q : q[k].frame \in FramesOf(q)
        /\ \A k \in DOMAIN r : r[k].frame \in FramesOf(r)
    BY DEF FramesOf
  <2>3. CASE i \notin DOMAIN q /\ j \notin DOMAIN q
    <3>1. /\ i - n \in DOMAIN r /\ c[i] = r[i - n] /\ i \in Int
          /\ j - n \in DOMAIN r /\ c[j] = r[j - n] /\ j \in Int
      BY <1>2, <2>3
    <3>2. i - n = j - n
      BY <1>6, <3>1 DEF Once
    <3> QED  BY <1>1, <3>1, <3>2
  <2>4. CASE i \in DOMAIN q /\ j \notin DOMAIN q
    BY <1>2, <1>3, <1>6, <2>2, <2>4
  <2>5. CASE i \notin DOMAIN q /\ j \in DOMAIN q
    BY <1>2, <1>3, <1>6, <2>2, <2>5
  <2> QED  BY <2>1, <2>3, <2>4, <2>5
<1> QED  BY <1>1, <1>4, <1>5, <1>6 DEF c

LEMMA RemoveEvent ==
    ASSUME NEW S, NEW q \in Seq(S), NEW i \in DOMAIN q
    PROVE  /\ RemoveAt(q, i) \in Seq(S)
           /\ Kinds(RemoveAt(q, i)) \subseteq Kinds(q)
           /\ Once(q) => /\ FramesOf(RemoveAt(q, i)) = FramesOf(q) \ {q[i].frame}
                         /\ Once(RemoveAt(q, i))
<1> DEFINE r == RemoveAt(q, i)
           a == SubSeq(q, 1, i - 1)
           b == SubSeq(q, i + 1, Len(q))
<1>1. Len(q) \in Nat /\ DOMAIN q = 1 .. Len(q) /\ i \in 1 .. Len(q)
  OBVIOUS
<1>2. /\ a \in Seq(S) /\ Len(a) = i - 1
      /\ \A j \in 1 .. i - 1 : a[j] = q[j]
  BY <1>1
<1>3. /\ b \in Seq(S) /\ Len(b) = Len(q) - i
      /\ \A j \in 1 .. Len(q) - i : b[j] = q[i + j]
  BY <1>1
<1>4. r = a \o b
  BY DEF RemoveAt
<1> HIDE DEF a, b, r
<1>5. /\ r \in Seq(S) /\ FramesOf(r) = FramesOf(a) \cup FramesOf(b)
      /\ Kinds(r) = Kinds(a) \cup Kinds(b)
      /\ Once(a) /\ Once(b) /\ FramesOf(a) \cap FramesOf(b) = {} => Once(r)
  BY <1>2, <1>3, <1>4, ConcatEvents
<1>6. \A j \in DOMAIN a : j \in DOMAIN q /\ a[j] = q[j] /\ j < i /\ j \in Int
  BY <1>1, <1>2
<1>7. \A j \in DOMAIN b : i + j \in DOMAIN q /\ b[j] = q[i + j] /\ i < i + j /\ j \in Int
  <2> SUFFICES ASSUME NEW j \in DOMAIN b
               PROVE  i + j \in DOMAIN q /\ b[j] = q[i + j] /\ i < i + j /\ j \in Int
    OBVIOUS
  <2>1. j \in 1 .. Len(q) - i
    BY <1>3
  <2>2. i + j \in 1 .. Len(q) /\ i < i + j /\ j \in Int
    BY <1>1, <2>1
  <2> QED  BY <1>1, <1>3, <2>1, <2>2, Zenon
<1>8. Kinds(r) \subseteq Kinds(q)
  <2>1. Kinds(a) \subseteq Kinds(q)
    BY <1>6 DEF Kinds
  <2>2. Kinds(b) \subseteq Kinds(q)
    BY <1>7 DEF Kinds
  <2> QED  BY <1>5, <2>1, <2>2
<1>9. ASSUME NEW j \in DOMAIN q, j # i
      PROVE  q[j].frame \in FramesOf(a) \cup FramesOf(b)
  <2>1. CASE j < i
    <3>1. j \in DOMAIN a /\ a[j] = q[j]
      BY <1>1, <1>2, <2>1
    <3> QED  BY <3>1 DEF FramesOf
  <2>2. CASE ~ (j < i)
    <3>1. j - i \in DOMAIN b /\ b[j - i] = q[j]
      <4>1. j - i \in 1 .. Len(q) - i /\ i + (j - i) = j
        BY <1>1, <1>9, <2>2
      <4> QED  BY <1>3, <4>1
    <3> QED  BY <3>1 DEF FramesOf
  <2> QED  BY <2>1, <2>2
<1>10. ASSUME Once(q)
       PROVE  /\ FramesOf(r) = FramesOf(q) \ {q[i].frame}
              /\ Once(r)
  <2>1. ASSUME NEW f \in FramesOf(a) PROVE \E j \in DOMAIN q : j < i /\ f = q[j].frame
    BY <1>6 DEF FramesOf
  <2>2. ASSUME NEW f \in FramesOf(b) PROVE \E j \in DOMAIN q : i < j /\ f = q[j].frame
    BY <1>7 DEF FramesOf
  <2>3. \A j \in DOMAIN q : j \in Int
    BY <1>1
  <2>4. FramesOf(a) \cap FramesOf(b) = {}
    <3> SUFFICES ASSUME NEW f \in FramesOf(a), f \in FramesOf(b) PROVE FALSE
      OBVIOUS
    <3>1. PICK j \in DOMAIN q : j < i /\ f = q[j].frame
      BY <2>1
    <3>2. PICK k \in DOMAIN q : i < k /\ f = q[k].frame
      BY <2>2
    <3>3. j = k
      BY <1>10, <3>1, <3>2 DEF Once
    <3> QED  BY <1>1, <2>3, <3>1, <3>2, <3>3
  <2>5. Once(a)
    BY <1>6, <1>10 DEF Once
  <2>6. Once(b)
    <3> SUFFICES ASSUME NEW j \in DOMAIN b, NEW k \in DOMAIN b, b[j].frame = b[k].frame
                 PROVE  j = k
      BY DEF Once
    <3>1. i + j = i + k
      BY <1>7, <1>10 DEF Once
    <3> QED  BY <1>1, <1>7, <3>1
  <2>7. \A f \in FramesOf(a) \cup FramesOf(b) : f \in FramesOf(q) /\ f # q[i].frame
    <3> SUFFICES ASSUME NEW f \in FramesOf(a) \cup FramesOf(b)
                 PROVE  f \in FramesOf(q) /\ f # q[i].frame
      OBVIOUS
    <3>1. PICK j \in DOMAIN q : (j < i \/ i < j) /\ f = q[j].frame
      BY <2>1, <2>2
    <3>2. j # i
      BY <1>1, <2>3, <3>1
    <3> QED  BY <1>10, <3>1, <3>2 DEF Once, FramesOf
  <2>8. \A f \in FramesOf(q) : f # q[i].frame => f \in FramesOf(a) \cup FramesOf(b)
    BY <1>9 DEF FramesOf
  <2> QED  BY <1>5, <2>4, <2>5, <2>6, <2>7, <2>8
<1> QED  BY <1>5, <1>8, <1>10 DEF r

\* The event that runs leaves the heap.
LEMMA RunsEvent ==
    ASSUME agenda \in Seq(Events), Due # {}
    PROVE  /\ Index \in DOMAIN agenda /\ agenda[Index].t = 0
           /\ Current \in Events /\ Current.t = 0
           /\ Current.frame \in Frames /\ Current.frame \in FramesOf(agenda)
           /\ <<Current.frame, Current.ev>> \in Kinds(agenda)
           /\ Others \in Seq(Events)
           /\ Kinds(Others) \subseteq Kinds(agenda)
           /\ Once(agenda) => /\ FramesOf(Others) = FramesOf(agenda) \ {Current.frame}
                              /\ Once(Others)
<1>1. Due \subseteq Nat /\ Due \subseteq DOMAIN agenda
  BY DEF Due
<1> DEFINE f == [i \in Due |-> i]
<1>2. f \in [Due -> Nat]
  BY <1>1
<1>3. \E i \in Due : \A j \in Due : f[i] <= f[j]
  <2> HIDE DEF f
  <2> QED  BY <1>2, LeastExists
<1>4. Index \in Due
  <2>1. \E i \in Due : \A j \in Due : i <= j
    BY <1>3
  <2> QED  BY <2>1, Zenon DEF Index
<1>5. Index \in DOMAIN agenda /\ agenda[Index].t = 0
  BY <1>4 DEF Due
<1>6. agenda[Index] \in Events
  BY <1>5
<1>7. agenda[Index].frame \in Frames
  BY <1>6 DEF Events
<1>8. /\ agenda[Index].frame \in FramesOf(agenda)
      /\ <<agenda[Index].frame, agenda[Index].ev>> \in Kinds(agenda)
  BY <1>5 DEF FramesOf, Kinds
<1>9. /\ RemoveAt(agenda, Index) \in Seq(Events)
      /\ Kinds(RemoveAt(agenda, Index)) \subseteq Kinds(agenda)
      /\ Once(agenda) => /\ FramesOf(RemoveAt(agenda, Index))
                                = FramesOf(agenda) \ {agenda[Index].frame}
                         /\ Once(RemoveAt(agenda, Index))
  BY <1>5, RemoveEvent
<1> QED  BY <1>5, <1>6, <1>7, <1>8, <1>9 DEF Current, Others

\* The positions of the waiters of some buffers.
LEMMA WaitingIs ==
    ASSUME queue \in [Buffers -> Seq(Waiters)], NEW bs \in Seq(Buffers)
    PROVE  /\ Waiting(bs) \in SUBSET (Nat \X Nat) /\ IsFiniteSet(Waiting(bs))
           /\ \A x \in Waiting(bs) :
                /\ x[1] \in DOMAIN bs /\ x[2] \in DOMAIN queue[bs[x[1]]]
                /\ \A h \in 1 .. x[1] - 1 : bs[h] # bs[x[1]]
           /\ \A i \in DOMAIN bs : \A j \in DOMAIN queue[bs[i]] :
                \E k \in DOMAIN bs : bs[k] = bs[i] /\ <<k, j>> \in Waiting(bs)
<1> DEFINE S == Waiting(bs)
           n == Len(bs)
           g == [i \in 1 .. n |-> {i} \X (1 .. Len(queue[bs[i]]))]
<1>1. n \in Nat /\ DOMAIN bs = 1 .. n /\ \A i \in 1 .. n : bs[i] \in Buffers
  OBVIOUS
<1>2. \A i \in 1 .. n : /\ queue[bs[i]] \in Seq(Waiters) /\ Len(queue[bs[i]]) \in Nat
                        /\ DOMAIN queue[bs[i]] = 1 .. Len(queue[bs[i]])
  <2> SUFFICES ASSUME NEW i \in 1 .. n
               PROVE  /\ queue[bs[i]] \in Seq(Waiters) /\ Len(queue[bs[i]]) \in Nat
                      /\ DOMAIN queue[bs[i]] = 1 .. Len(queue[bs[i]])
    OBVIOUS
  <2>1. queue[bs[i]] \in Seq(Waiters)
    BY <1>1
  <2> QED  BY <2>1
<1>3. \A x \in S :
        \E i \in {k \in DOMAIN bs : \A h \in 1 .. k - 1 : bs[h] # bs[k]} :
            \E j \in DOMAIN queue[bs[i]] : x = <<i, j>>
  BY Zenon DEF Waiting
<1> HIDE DEF n
<1>4. ASSUME NEW x \in S
      PROVE  /\ x \in Nat \X Nat
             /\ x[1] \in DOMAIN bs /\ x[2] \in DOMAIN queue[bs[x[1]]]
             /\ \A h \in 1 .. x[1] - 1 : bs[h] # bs[x[1]]
             /\ x \in {x[1]} \X (1 .. Len(queue[bs[x[1]]]))
  <2>0. PICK i \in {k \in DOMAIN bs : \A h \in 1 .. k - 1 : bs[h] # bs[k]} :
            \E j \in DOMAIN queue[bs[i]] : x = <<i, j>>
    BY <1>3
  <2> PICK j \in DOMAIN queue[bs[i]] : x = <<i, j>>
    BY <2>0
  <2>1. i \in DOMAIN bs /\ x = <<i, j>> /\ \A h \in 1 .. i - 1 : bs[h] # bs[i]
    OBVIOUS
  <2>2. i \in 1 .. n /\ j \in 1 .. Len(queue[bs[i]])
    BY <1>1, <1>2
  <2>3. x[1] = i /\ x[2] = j /\ i \in Nat /\ j \in Nat
    BY <1>1, <1>2, <2>1, <2>2
  <2> QED  BY <2>1, <2>2, <2>3
<1>5. IsFiniteSet(S)
  <2>1. \A i \in 1 .. n : IsFiniteSet(g[i])
    <3> SUFFICES ASSUME NEW i \in 1 .. n PROVE IsFiniteSet({i} \X (1 .. Len(queue[bs[i]])))
      OBVIOUS
    <3>1. IsFiniteSet({i})
      BY FS_Singleton
    <3>2. 1 \in Int /\ Len(queue[bs[i]]) \in Int
      BY <1>2
    <3>3. IsFiniteSet(1 .. Len(queue[bs[i]]))
      BY <3>2, FS_Interval
    <3> QED  BY <3>1, <3>3, FS_Product
  <2>2. g \in [1 .. n -> Range(g)] /\ \A y \in Range(g) : \E i \in 1 .. n : g[i] = y
    BY DEF Range
  <2>3. \A x \in S : \E i \in 1 .. n : x \in g[i]
    BY <1>1, <1>4
  <2> HIDE DEF g
  <2>4. g \in Surjection(1 .. n, Range(g))
    BY <2>2, Fun_IsSurj
  <2>5. IsFiniteSet(Range(g))
    BY <1>1, <2>4, FS_Surjection, FS_Interval
  <2>6. \A y \in Range(g) : IsFiniteSet(y)
    BY <2>1, <2>2
  <2>7. IsFiniteSet(UNION Range(g))
    BY <2>5, <2>6, FS_UNION
  <2>8. S \in SUBSET (UNION Range(g))
    <3>1. \A i \in 1 .. n : g[i] \in Range(g)
      BY <2>2
    <3> QED  BY <2>3, <3>1
  <2> QED  BY <2>7, <2>8, FS_Subset
<1>6. ASSUME NEW i \in DOMAIN bs, NEW j \in DOMAIN queue[bs[i]]
      PROVE  \E k \in DOMAIN bs : bs[k] = bs[i] /\ <<k, j>> \in S
  <2> DEFINE K == {k \in DOMAIN bs : bs[k] = bs[i]}
             f == [k \in K |-> k]
  <2>1. K # {} /\ f \in [K -> Nat]
    BY <1>1
  <2>2. \E k \in K : \A l \in K : f[k] <= f[l]
    <3> HIDE DEF K, f
    <3> QED  BY <2>1, LeastExists
  <2>3. PICK k \in K : \A l \in K : k <= l
    BY <2>2
  <2>4. k \in DOMAIN bs /\ bs[k] = bs[i]
    OBVIOUS
  <2>5. \A h \in 1 .. k - 1 : bs[h] # bs[k]
    <3> SUFFICES ASSUME NEW h \in 1 .. k - 1, bs[h] = bs[k] PROVE FALSE
      OBVIOUS
    <3>1. h \in DOMAIN bs /\ ~ (k <= h)
      BY <1>1, <2>4
    <3> QED  BY <2>3, <2>4, <3>1
  <2>6. j \in DOMAIN queue[bs[k]]
    BY <2>4
  <2> HIDE DEF K
  <2>7. <<k, j>> \in S
    <3>1. <<k, j>> \in {<<k, l>> : l \in DOMAIN queue[bs[k]]}
      BY <2>6, Zenon
    <3>2. k \in {l \in DOMAIN bs : \A h \in 1 .. l - 1 : bs[h] # bs[l]}
      BY <2>4, <2>5, Zenon
    <3> QED  BY <3>1, <3>2, Zenon DEF Waiting
  <2> QED  BY <2>4, <2>7
<1>7. S \in SUBSET (Nat \X Nat)
  BY <1>4
<1> QED  BY <1>4, <1>5, <1>6, <1>7

\* Waking up moves the waiters of some buffers to the heap.
LEMMA WokenEvents ==
    ASSUME NetTypes, NEW bs \in Seq(Buffers),
           NEW ag \in Seq(Events)
    PROVE  /\ Woken(ag, bs) \in Seq(Events)
           /\ FramesOf(ag) \subseteq FramesOf(Woken(ag, bs))
           /\ \A i \in DOMAIN bs : FramesOf(queue[bs[i]]) \subseteq FramesOf(Woken(ag, bs))
           /\ \A f \in FramesOf(Woken(ag, bs)) :
                f \in FramesOf(ag) \/ \E i \in DOMAIN bs : f \in FramesOf(queue[bs[i]])
           /\ \A x \in Kinds(Woken(ag, bs)) :
                x \in Kinds(ag) \/ \E i \in DOMAIN bs : x \in Kinds(queue[bs[i]])
           /\ (/\ Once(ag)
               /\ \A b \in Buffers : Once(queue[b])
               /\ \A b \in Buffers : FramesOf(queue[b]) \cap FramesOf(ag) = {}
               /\ \A b, d \in Buffers : b # d => FramesOf(queue[b]) \cap FramesOf(queue[d]) = {})
              => Once(Woken(ag, bs))
<1> DEFINE S == Waiting(bs)
           qs == [i \in DOMAIN bs |-> queue[bs[i]]]
           w == Picked(qs, S)
           v == [k \in DOMAIN w |-> [frame |-> w[k].frame, ev |-> w[k].ev, t |-> 0]]
<1>1. /\ S \in SUBSET (Nat \X Nat) /\ IsFiniteSet(S)
      /\ \A x \in S : /\ x[1] \in DOMAIN bs /\ x[2] \in DOMAIN queue[bs[x[1]]]
                      /\ \A h \in 1 .. x[1] - 1 : bs[h] # bs[x[1]]
      /\ \A i \in DOMAIN bs : \A j \in DOMAIN queue[bs[i]] :
                \E k \in DOMAIN bs : bs[k] = bs[i] /\ <<k, j>> \in S
  BY WaitingIs DEF NetTypes
<1>2. \A i \in DOMAIN bs : bs[i] \in Buffers /\ i \in Nat
  OBVIOUS
<1>3. Woken(ag, bs) = ag \o v
  BY DEF Woken
<1> HIDE DEF S
<1>4. \A x \in S : qs[x[1]][x[2]] = queue[bs[x[1]]][x[2]]
  BY <1>1
<1>5. \A x \in S : qs[x[1]][x[2]] \in Waiters
  <2> SUFFICES ASSUME NEW x \in S PROVE queue[bs[x[1]]][x[2]] \in Waiters
    BY <1>4
  <2>1. queue[bs[x[1]]] \in Seq(Waiters) /\ x[2] \in DOMAIN queue[bs[x[1]]]
    BY <1>1, <1>2 DEF NetTypes
  <2> QED  BY <2>1
<1> HIDE DEF qs
<1>6. /\ w \in Seq(Waiters)
      /\ \A k \in DOMAIN w : \E x \in S : w[k] = qs[x[1]][x[2]]
      /\ \A x \in S : \E k \in DOMAIN w : w[k] = qs[x[1]][x[2]]
      /\ \A k, l \in DOMAIN w : k # l =>
            \E x, y \in S : x # y /\ w[k] = qs[x[1]][x[2]] /\ w[l] = qs[y[1]][y[2]]
  <2>1. S \in SUBSET (Nat \X Nat) /\ IsFiniteSet(S)
    BY <1>1
  <2>2. w \in Seq(Waiters)
    BY <1>5, <2>1, PickedType
  <2>3. IsPicked(w, qs, S)
    BY <2>1, PickedIs
  <2> HIDE DEF w
  <2> QED  BY <2>2, <2>3, Zenon DEF IsPicked
<1> HIDE DEF w
<1>7. /\ v \in Seq(Events) /\ DOMAIN v = DOMAIN w
      /\ \A k \in DOMAIN v : v[k].frame = w[k].frame /\ v[k].ev = w[k].ev
  <2>1. \A k \in DOMAIN w : w[k] \in Waiters
    BY <1>6
  <2>2. \A k \in DOMAIN w : [frame |-> w[k].frame, ev |-> w[k].ev, t |-> 0] \in Events
    BY <2>1 DEF Waiters, Events
  <2>3. DOMAIN w = 1 .. Len(w) /\ Len(w) \in Nat
    BY <1>6
  <2>4. v \in [1 .. Len(w) -> Events]
    BY <2>2, <2>3
  <2>5. v \in Seq(Events)
    BY <2>3, <2>4
  <2> QED  BY <2>5
<1> HIDE DEF v
<1>8. /\ ag \o v \in Seq(Events)
      /\ FramesOf(ag \o v) = FramesOf(ag) \cup FramesOf(v)
      /\ Kinds(ag \o v) = Kinds(ag) \cup Kinds(v)
      /\ Once(ag) /\ Once(v) /\ FramesOf(ag) \cap FramesOf(v) = {} => Once(ag \o v)
  BY <1>7, ConcatEvents
<1>9. ASSUME NEW k \in DOMAIN v
      PROVE  \E x \in S : /\ v[k].frame = queue[bs[x[1]]][x[2]].frame
                          /\ v[k].ev = queue[bs[x[1]]][x[2]].ev
  <2>1. PICK x \in S : w[k] = qs[x[1]][x[2]]
    BY <1>6, <1>7
  <2>2. w[k] = queue[bs[x[1]]][x[2]]
    BY <1>4, <2>1
  <2> QED  BY <1>7, <2>2
<1>10. ASSUME NEW k \in DOMAIN v
       PROVE  \E i \in DOMAIN bs : /\ v[k].frame \in FramesOf(queue[bs[i]])
                                   /\ <<v[k].frame, v[k].ev>> \in Kinds(queue[bs[i]])
  <2>1. PICK x \in S : /\ v[k].frame = queue[bs[x[1]]][x[2]].frame
                       /\ v[k].ev = queue[bs[x[1]]][x[2]].ev
    BY <1>9
  <2>2. x[1] \in DOMAIN bs /\ x[2] \in DOMAIN queue[bs[x[1]]]
    BY <1>1
  <2>3. /\ v[k].frame \in FramesOf(queue[bs[x[1]]])
        /\ <<v[k].frame, v[k].ev>> \in Kinds(queue[bs[x[1]]])
    BY <2>1, <2>2, Zenon DEF FramesOf, Kinds
  <2> QED  BY <2>2, <2>3
<1>11. \A f \in FramesOf(v) : \E i \in DOMAIN bs : f \in FramesOf(queue[bs[i]])
  <2> SUFFICES ASSUME NEW k \in DOMAIN v
               PROVE  \E i \in DOMAIN bs : v[k].frame \in FramesOf(queue[bs[i]])
    BY DEF FramesOf
  <2> QED  BY <1>10
<1>12. \A x \in Kinds(v) : \E i \in DOMAIN bs : x \in Kinds(queue[bs[i]])
  <2> SUFFICES ASSUME NEW k \in DOMAIN v
               PROVE  \E i \in DOMAIN bs : <<v[k].frame, v[k].ev>> \in Kinds(queue[bs[i]])
    BY DEF Kinds
  <2> QED  BY <1>10
<1>13. \A i \in DOMAIN bs : FramesOf(queue[bs[i]]) \subseteq FramesOf(v)
  <2> SUFFICES ASSUME NEW i \in DOMAIN bs, NEW j \in DOMAIN queue[bs[i]]
               PROVE  queue[bs[i]][j].frame \in FramesOf(v)
    BY DEF FramesOf
  <2>1. PICK h \in DOMAIN bs : bs[h] = bs[i] /\ <<h, j>> \in S
    BY <1>1
  <2>2. PICK x \in S : x = <<h, j>>
    BY <2>1
  <2>3. x[1] = h /\ x[2] = j
    BY <2>2
  <2>4. PICK k \in DOMAIN w : w[k] = qs[x[1]][x[2]]
    BY <1>6
  <2>5. v[k].frame = queue[bs[i]][j].frame /\ k \in DOMAIN v
    BY <1>4, <1>7, <2>1, <2>3, <2>4
  <2> QED  BY <2>5 DEF FramesOf
<1>14. ASSUME \A b \in Buffers : Once(queue[b]),
              \A b, d \in Buffers : b # d => FramesOf(queue[b]) \cap FramesOf(queue[d]) = {}
       PROVE  Once(v)
  <2> SUFFICES ASSUME NEW k \in DOMAIN v, NEW l \in DOMAIN v, k # l
               PROVE  v[k].frame # v[l].frame
    BY Zenon DEF Once
  <2>1. PICK x \in S, y \in S : /\ x # y
                                /\ w[k] = qs[x[1]][x[2]] /\ w[l] = qs[y[1]][y[2]]
    BY <1>6, <1>7
  <2>2. /\ x[1] \in DOMAIN bs /\ x[2] \in DOMAIN queue[bs[x[1]]]
        /\ y[1] \in DOMAIN bs /\ y[2] \in DOMAIN queue[bs[y[1]]]
        /\ \A h \in 1 .. x[1] - 1 : bs[h] # bs[x[1]]
        /\ \A h \in 1 .. y[1] - 1 : bs[h] # bs[y[1]]
    BY <1>1
  <2>3. /\ v[k].frame = queue[bs[x[1]]][x[2]].frame
        /\ v[l].frame = queue[bs[y[1]]][y[2]].frame
    BY <1>4, <1>7, <2>1
  <2>4. bs[x[1]] \in Buffers /\ bs[y[1]] \in Buffers /\ x[1] \in Nat /\ y[1] \in Nat
    BY <1>2, <2>2
  <2>5. CASE x[1] = y[1]
    <3>1. x[2] # y[2]
      <4>1. x \in Nat \X Nat /\ y \in Nat \X Nat
        BY <1>1
      <4> QED  BY <2>1, <2>5, <4>1
    <3>2. Once(queue[bs[x[1]]])
      BY <1>14, <2>4
    <3> QED  BY <2>2, <2>3, <2>5, <3>1, <3>2 DEF Once
  <2>6. CASE x[1] # y[1]
    <3>1. bs[x[1]] # bs[y[1]]
      <4>1. x[1] < y[1] \/ y[1] < x[1]
        BY <2>4, <2>6
      <4>2. x[1] \in 1 .. y[1] - 1 \/ y[1] \in 1 .. x[1] - 1
        BY <2>2, <2>4, <4>1
      <4> QED  BY <2>2, <4>2
    <3>2. /\ v[k].frame \in FramesOf(queue[bs[x[1]]])
          /\ v[l].frame \in FramesOf(queue[bs[y[1]]])
      BY <2>2, <2>3, Zenon DEF FramesOf
    <3> QED  BY <1>14, <2>4, <3>1, <3>2
  <2> QED  BY <2>5, <2>6
<1>15. ASSUME Once(ag),
              \A b \in Buffers : Once(queue[b]),
              \A b \in Buffers : FramesOf(queue[b]) \cap FramesOf(ag) = {},
              \A b, d \in Buffers : b # d => FramesOf(queue[b]) \cap FramesOf(queue[d]) = {}
       PROVE  Once(ag \o v)
  <2>1. FramesOf(ag) \cap FramesOf(v) = {}
    BY <1>2, <1>11, <1>15
  <2>2. Once(v)
    BY <1>14, <1>15
  <2> QED  BY <1>8, <1>15, <2>1, <2>2
<1> QED  BY <1>3, <1>8, <1>11, <1>12, <1>13, <1>15

-----------------------------------------------------------------------------
(***************************************************************************)
(* The shape of a network.                                                 *)
(***************************************************************************)
LEMMA MessageShape ==
    ASSUME nw \in Nets
    PROVE  /\ nw.packet \in Nat /\ nw.room \in Nat /\ nw.fix \in Nat
           /\ nw.bandwidth \in Nat \ {0} /\ nw.crossbar \in Nat \ {0}
           /\ \A m \in Msgs : /\ NumPackets(m) \in Nat \ {0} /\ PacketSize(m) \in Nat \ {0}
                              /\ nw.msgs[m].src \in nw.nodes /\ nw.msgs[m].dst \in nw.nodes
<1> DEFINE R == [src : nw.nodes, dst : nw.nodes, size : Nat \ {0}, auto : BOOLEAN]
<1>1. /\ nw.packet \in Nat /\ nw.room \in Nat /\ nw.fix \in Nat
      /\ nw.bandwidth \in Nat \ {0} /\ nw.crossbar \in Nat \ {0}
      /\ nw.msgs \in Seq(R)
  BY NetAssumption
<1>2. ASSUME NEW m \in Msgs
      PROVE  /\ NumPackets(m) \in Nat \ {0} /\ PacketSize(m) \in Nat \ {0}
             /\ nw.msgs[m].src \in nw.nodes /\ nw.msgs[m].dst \in nw.nodes
  <2>1. nw.msgs[m] \in R
    <3> HIDE DEF R
    <3> QED  BY <1>1 DEF Msgs
  <2>2. /\ nw.msgs[m].size \in Nat \ {0}
        /\ nw.msgs[m].src \in nw.nodes /\ nw.msgs[m].dst \in nw.nodes
    BY <2>1
  <2>3. CASE nw.packet = 0
    BY <1>1, <2>2, <2>3 DEF NumPackets, PacketSize
  <2>4. CASE nw.packet # 0
    <3> DEFINE s == nw.msgs[m].size - 1
               k == nw.packet
    <3>1. s \in Nat /\ k \in Nat \ {0}
      <4>1. nw.packet \in Nat
        BY <1>1
      <4>2. \A z \in Nat \ {0} : z - 1 \in Nat
        OBVIOUS
      <4> QED  BY <2>2, <2>4, <4>1, <4>2
    <3>2. NumPackets(m) = (s \div k) + 1 /\ PacketSize(m) = k
      BY <2>4 DEF NumPackets, PacketSize
    <3> HIDE DEF s, k
    <3>3. s \div k \in Nat
      BY <3>1
    <3> QED  BY <2>2, <3>1, <3>2, <3>3
  <2> QED  BY <2>3, <2>4
<1> QED  BY <1>1, <1>2

LEMMA PacketShape ==
    ASSUME nw \in Nets
    PROVE  /\ \A p \in Packets : /\ p[1] \in Msgs /\ p[2] \in 1 .. NumPackets(p[1])
                                 /\ p[2] # 0 /\ p \in PacketsOf(p[1]) /\ p = <<p[1], p[2]>>
           /\ \A m \in Msgs : \A p \in PacketsOf(m) : p[1] = m /\ p \in Packets
           /\ \A f \in Frames : /\ f[1] \in Msgs
                                /\ f[2] = 0 => f = <<f[1], 0>>
                                /\ f[2] # 0 => f \in Packets
           /\ \A m \in Msgs : <<m, 0>> \in Frames
           /\ Packets \subseteq Frames
<1>1. \A m \in Msgs : NumPackets(m) \in Nat
  BY MessageShape
<1>2. ASSUME NEW m \in Msgs, NEW p \in PacketsOf(m)
      PROVE  /\ p[1] = m /\ p \in Packets /\ p[2] \in 1 .. NumPackets(m)
             /\ p[2] # 0 /\ p = <<p[1], p[2]>>
  <2>1. PICK i \in 1 .. NumPackets(m) : p = <<m, i>>
    BY DEF PacketsOf
  <2>2. i # 0 /\ p[1] = m /\ p[2] = i
    BY <1>1, <2>1
  <2>3. p \in Packets
    BY DEF Packets
  <2> QED  BY <2>1, <2>2, <2>3
<1>3. ASSUME NEW p \in Packets PROVE p[1] \in Msgs /\ p \in PacketsOf(p[1])
  <2>1. PICK m \in Msgs : p \in PacketsOf(m)
    BY DEF Packets
  <2> QED  BY <1>2, <2>1
<1>4. ASSUME NEW f \in Frames
      PROVE  /\ f[1] \in Msgs
             /\ f[2] = 0 => f = <<f[1], 0>>
             /\ f[2] # 0 => f \in Packets
  <2>1. CASE f \in Packets
    BY <1>2, <1>3, <2>1
  <2>2. CASE \E m \in Msgs : f = <<m, 0>>
    BY <2>2
  <2> QED  BY <2>1, <2>2 DEF Frames
<1>5. /\ \A m \in Msgs : <<m, 0>> \in Frames
      /\ Packets \subseteq Frames
  BY DEF Frames
<1> QED  BY <1>2, <1>3, <1>4, <1>5

LEMMA PacketsFinite ==
    ASSUME nw \in Nets, NEW m \in Msgs
    PROVE  /\ IsFiniteSet(PacketsOf(m)) /\ Cardinality(PacketsOf(m)) = NumPackets(m)
           /\ PacketsOf(m) # {}
<1> DEFINE n == NumPackets(m)
           f == [i \in 1 .. n |-> <<m, i>>]
<1>1. n \in Nat \ {0}
  BY MessageShape
<1> HIDE DEF n
<1>2. f \in [1 .. n -> PacketsOf(m)] /\ \A p \in PacketsOf(m) : \E i \in 1 .. n : f[i] = p
  BY DEF PacketsOf, n
<1>3. \A i, j \in 1 .. n : f[i] = f[j] => i = j
  OBVIOUS
<1> HIDE DEF f
<1>4. f \in Bijection(1 .. n, PacketsOf(m))
  BY <1>2, <1>3, Fun_IsBij
<1>5. ExistsBijection(1 .. n, PacketsOf(m))
  BY <1>4 DEF ExistsBijection
<1>6. IsFiniteSet(1 .. n) /\ Cardinality(1 .. n) = n
  BY <1>1, FS_Interval
<1>7. f[1] \in PacketsOf(m)
  BY <1>1, <1>2
<1> QED  BY <1>5, <1>6, <1>7, FS_Bijection DEF n

-----------------------------------------------------------------------------
(***************************************************************************)
(* What an action does to the events, whatever else it does.               *)
(***************************************************************************)
LEMMA HasIs ==
    ASSUME NEW ag, NEW q, NEW B
    PROVE  /\ \A f : f \in Has(ag, q, B) <=>
                        f \in FramesOf(ag) \/ \E b \in B : f \in FramesOf(q[b])
           /\ \A x : x \in AllKinds(ag, q, B) <=>
                        x \in Kinds(ag) \/ \E b \in B : x \in Kinds(q[b])
           /\ \A x \in AllKinds(ag, q, B) : x[1] \in Has(ag, q, B)
<1>1. \A f : f \in Has(ag, q, B) <=>
                        f \in FramesOf(ag) \/ \E b \in B : f \in FramesOf(q[b])
  BY Zenon DEF Has
<1>2. \A x : x \in AllKinds(ag, q, B) <=>
                        x \in Kinds(ag) \/ \E b \in B : x \in Kinds(q[b])
  BY Zenon DEF AllKinds
<1>3. ASSUME NEW r, NEW x \in Kinds(r) PROVE x[1] \in FramesOf(r)
  <2>1. PICK i \in DOMAIN r : x = <<r[i].frame, r[i].ev>>
    BY DEF Kinds
  <2>2. x[1] = r[i].frame
    BY <2>1
  <2> QED  BY <2>2 DEF FramesOf
<1> QED  BY <1>1, <1>2, <1>3

\* The event that runs is taken out of the heap.
LEMMA RunEffect ==
    ASSUME NetTypes, Shape(agenda, queue, Buffers), NEW f, NEW ev, Runs(f, ev)
    PROVE  /\ Others \in Seq(Events) /\ f \in Frames
           /\ Shape(Others, queue, Buffers)
           /\ f \notin Has(Others, queue, Buffers)
           /\ Has(agenda, queue, Buffers) = Has(Others, queue, Buffers) \cup {f}
           /\ AllKinds(Others, queue, Buffers) \subseteq AllKinds(agenda, queue, Buffers)
           /\ <<f, ev>> \in AllKinds(agenda, queue, Buffers)
           /\ ev \in {"retry", "output", "input", "receive", "arrived"}
<1>1. Due # {} /\ Current.frame = f /\ Current.ev = ev /\ agenda \in Seq(Events)
  BY DEF Runs, NetTypes
<1>2. /\ Current \in Events /\ f \in Frames /\ f \in FramesOf(agenda)
      /\ <<f, ev>> \in Kinds(agenda)
      /\ Others \in Seq(Events) /\ Kinds(Others) \subseteq Kinds(agenda)
      /\ FramesOf(Others) = FramesOf(agenda) \ {f} /\ Once(Others)
  BY <1>1, RunsEvent DEF Shape
<1>3. ev \in {"retry", "output", "input", "receive", "arrived"}
  BY <1>1, <1>2 DEF Events
<1>4. Shape(Others, queue, Buffers)
  BY <1>2 DEF Shape
<1>5. \A b \in Buffers : f \notin FramesOf(queue[b])
  BY <1>2 DEF Shape
<1>6. f \notin Has(Others, queue, Buffers)
  BY <1>2, <1>5, HasIs
<1>7. Has(agenda, queue, Buffers) = Has(Others, queue, Buffers) \cup {f}
  <2>1. \A g : g \in Has(agenda, queue, Buffers) <=> g \in Has(Others, queue, Buffers) \/ g = f
    BY <1>2, HasIs
  <2> QED  BY <2>1
<1>8. AllKinds(Others, queue, Buffers) \subseteq AllKinds(agenda, queue, Buffers)
  BY <1>2, HasIs
<1>9. <<f, ev>> \in AllKinds(agenda, queue, Buffers)
  BY <1>2, HasIs
<1> QED  BY <1>2, <1>3, <1>4, <1>6, <1>7, <1>8, <1>9

\* What posting event x does to the frames and events of heap ag and queues q.
Posted(ag, x, q, B, E) ==
    /\ Append(ag, x) \in Seq(E)
    /\ Shape(Append(ag, x), q, B)
    /\ Has(Append(ag, x), q, B) = Has(ag, q, B) \cup {x.frame}
    /\ AllKinds(Append(ag, x), q, B) = AllKinds(ag, q, B) \cup {<<x.frame, x.ev>>}

\* An event is scheduled.
LEMMA PostEffect ==
    ASSUME NEW E, NEW ag \in Seq(E), NEW q, NEW B, Shape(ag, q, B),
           NEW x \in E, x.frame \notin Has(ag, q, B)
    PROVE  Posted(ag, x, q, B, E)
<1> DEFINE r == Append(ag, x)
<1>1. /\ x.frame \notin FramesOf(ag)
      /\ \A b \in B : x.frame \notin FramesOf(q[b])
  BY HasIs
<1>2. /\ r \in Seq(E)
      /\ FramesOf(r) = FramesOf(ag) \cup {x.frame}
      /\ Kinds(r) = Kinds(ag) \cup {<<x.frame, x.ev>>}
      /\ Once(r)
  BY <1>1, AppendEvent DEF Shape
<1> HIDE DEF r
<1>3. Shape(r, q, B)
  BY <1>1, <1>2 DEF Shape
<1>4. \A f : f \in Has(r, q, B) <=> f \in Has(ag, q, B) \/ f = x.frame
  BY <1>2, HasIs
<1>5. \A f : f \in AllKinds(r, q, B) <=> f \in AllKinds(ag, q, B) \/ f = <<x.frame, x.ev>>
  BY <1>2, HasIs
<1>6. Has(r, q, B) = Has(ag, q, B) \cup {x.frame}
  BY <1>4
<1>7. AllKinds(r, q, B) = AllKinds(ag, q, B) \cup {<<x.frame, x.ev>>}
  BY <1>5
<1> QED  BY <1>2, <1>3, <1>6, <1>7 DEF r, Posted

\* Several events are scheduled.
LEMMA PostAllEffect ==
    ASSUME NEW E, NEW ag \in Seq(E), NEW es \in Seq(E), NEW q, NEW B, Shape(ag, q, B),
           Once(es), FramesOf(es) \cap Has(ag, q, B) = {}
    PROVE  /\ ag \o es \in Seq(E)
           /\ Shape(ag \o es, q, B)
           /\ Has(ag \o es, q, B) = Has(ag, q, B) \cup FramesOf(es)
           /\ AllKinds(ag \o es, q, B) = AllKinds(ag, q, B) \cup Kinds(es)
<1> DEFINE r == ag \o es
<1>1. /\ FramesOf(es) \cap FramesOf(ag) = {}
      /\ \A b \in B : FramesOf(es) \cap FramesOf(q[b]) = {}
  BY HasIs
<1>2. /\ r \in Seq(E)
      /\ FramesOf(r) = FramesOf(ag) \cup FramesOf(es)
      /\ Kinds(r) = Kinds(ag) \cup Kinds(es)
      /\ Once(r)
  <2>1. Once(ag) /\ FramesOf(ag) \cap FramesOf(es) = {}
    BY <1>1 DEF Shape
  <2> QED  BY <2>1, ConcatEvents
<1> HIDE DEF r
<1>3. Shape(r, q, B)
  BY <1>1, <1>2 DEF Shape
<1>4. \A f : f \in Has(r, q, B) <=> f \in Has(ag, q, B) \/ f \in FramesOf(es)
  BY <1>2, HasIs
<1>5. \A f : f \in AllKinds(r, q, B) <=> f \in AllKinds(ag, q, B) \/ f \in Kinds(es)
  BY <1>2, HasIs
<1>6. Has(r, q, B) = Has(ag, q, B) \cup FramesOf(es)
  BY <1>4
<1>7. AllKinds(r, q, B) = AllKinds(ag, q, B) \cup Kinds(es)
  BY <1>5
<1> QED  BY <1>2, <1>3, <1>6, <1>7 DEF r

\* An event is suspended in the queue of buffer b.
Suspends(b, x) == queue' = [queue EXCEPT ![b] = Append(@, x)]

\* What that does to the frames and events of heap ag and the queues.
PutToSleep(ag, b, x) ==
    /\ queue' \in [Buffers -> Seq(Waiters)]
    /\ Shape(ag, queue', Buffers)
    /\ Has(ag, queue', Buffers) = Has(ag, queue, Buffers) \cup {x.frame}
    /\ AllKinds(ag, queue', Buffers) = AllKinds(ag, queue, Buffers) \cup {<<x.frame, x.ev>>}
    /\ \A d \in Buffers :
          FramesOf(queue'[d]) = IF d = b THEN FramesOf(queue[d]) \cup {x.frame}
                                         ELSE FramesOf(queue[d])

\* A frame that has no event yet is suspended at buffer b.
LEMMA SleepEffect ==
    ASSUME NetTypes, NEW ag, Shape(ag, queue, Buffers),
           NEW x \in Waiters, x.frame \notin Has(ag, queue, Buffers), NEW b \in Buffers,
           Suspends(b, x)
    PROVE  PutToSleep(ag, b, x)
<1>1. /\ x.frame \notin FramesOf(ag)
      /\ \A d \in Buffers : x.frame \notin FramesOf(queue[d])
  BY HasIs
<1>2. /\ queue' \in [Buffers -> Seq(Waiters)]
      /\ queue'[b] = Append(queue[b], x) /\ \A d \in Buffers : d # b => queue'[d] = queue[d]
  BY DEF NetTypes, Suspends
<1>3. /\ FramesOf(queue'[b]) = FramesOf(queue[b]) \cup {x.frame}
      /\ Kinds(queue'[b]) = Kinds(queue[b]) \cup {<<x.frame, x.ev>>}
      /\ Once(queue'[b])
  <2>1. queue[b] \in Seq(Waiters) /\ Once(queue[b])
    BY DEF Shape, NetTypes
  <2> QED  BY <1>1, <1>2, <2>1, AppendEvent
<1>4. \A d \in Buffers : FramesOf(queue'[d]) = IF d = b THEN FramesOf(queue[d]) \cup {x.frame}
                                             ELSE FramesOf(queue[d])
  BY <1>2, <1>3
<1>5. Shape(ag, queue', Buffers)
  <2>1. Once(ag) /\ \A d \in Buffers : Once(queue'[d])
    BY <1>2, <1>3 DEF Shape
  <2>2. \A d \in Buffers : FramesOf(queue'[d]) \cap FramesOf(ag) = {}
    BY <1>1, <1>4 DEF Shape
  <2>3. ASSUME NEW d \in Buffers, NEW e \in Buffers, d # e PROVE FramesOf(queue'[d]) \cap FramesOf(queue'[e]) = {}
    <3>1. /\ FramesOf(queue[d]) \cap FramesOf(queue[e]) = {}
          /\ x.frame \notin FramesOf(queue[d]) /\ x.frame \notin FramesOf(queue[e])
      BY <1>1, <2>3 DEF Shape
    <3> QED  BY <1>4, <2>3, <3>1
  <2> QED  BY <2>1, <2>2, <2>3 DEF Shape
<1>6. ASSUME NEW f PROVE f \in Has(ag, queue', Buffers) <=> f \in Has(ag, queue, Buffers) \/ f = x.frame
  <2>1. (f \in FramesOf(ag) \/ \E d \in Buffers : f \in FramesOf(queue'[d])) <=>
            (f \in FramesOf(ag) \/ (\E d \in Buffers : f \in FramesOf(queue[d])) \/ f = x.frame)
    BY <1>4
  <2>2. f \in Has(ag, queue', Buffers) <=> f \in FramesOf(ag) \/ \E d \in Buffers : f \in FramesOf(queue'[d])
    BY HasIs, Zenon
  <2>3. f \in Has(ag, queue, Buffers) <=> f \in FramesOf(ag) \/ \E d \in Buffers : f \in FramesOf(queue[d])
    BY HasIs, Zenon
  <2> QED  BY <2>1, <2>2, <2>3
<1>7. ASSUME NEW y
      PROVE  y \in AllKinds(ag, queue', Buffers) <=> y \in AllKinds(ag, queue, Buffers) \/ y = <<x.frame, x.ev>>
  <2>1. \A d \in Buffers : d # b => Kinds(queue'[d]) = Kinds(queue[d])
    BY <1>2
  <2>2. (y \in Kinds(ag) \/ \E d \in Buffers : y \in Kinds(queue'[d])) <=>
            (y \in Kinds(ag) \/ (\E d \in Buffers : y \in Kinds(queue[d])) \/ y = <<x.frame, x.ev>>)
    BY <1>3, <2>1
  <2>3. y \in AllKinds(ag, queue', Buffers) <=> y \in Kinds(ag) \/ \E d \in Buffers : y \in Kinds(queue'[d])
    BY Zenon DEF AllKinds
  <2>4. y \in AllKinds(ag, queue, Buffers) <=> y \in Kinds(ag) \/ \E d \in Buffers : y \in Kinds(queue[d])
    BY HasIs, Zenon
  <2> QED  BY <2>2, <2>3, <2>4
<1>8. Has(ag, queue', Buffers) = Has(ag, queue, Buffers) \cup {x.frame}
  BY <1>6
<1>9. AllKinds(ag, queue', Buffers) = AllKinds(ag, queue, Buffers) \cup {<<x.frame, x.ev>>}
  BY <1>7
<1> QED  BY <1>2, <1>4, <1>5, <1>8, <1>9 DEF PutToSleep

\* The waiters of the buffers bs are woken up and their queues are emptied.
LEMMA WakeEffect ==
    ASSUME NetTypes, NEW ag \in Seq(Events), Shape(ag, queue, Buffers),
           NEW bs \in Seq(Buffers),
           NEW r, r = [b \in Buffers |-> IF b \in Range(bs) THEN <<>> ELSE queue[b]]
    PROVE  /\ Woken(ag, bs) \in Seq(Events)
           /\ r \in [Buffers -> Seq(Waiters)]
           /\ Shape(Woken(ag, bs), r, Buffers)
           /\ Has(Woken(ag, bs), r, Buffers) = Has(ag, queue, Buffers)
           /\ AllKinds(Woken(ag, bs), r, Buffers) \subseteq AllKinds(ag, queue, Buffers)
           /\ \A b \in Buffers : b \in Range(bs) => FramesOf(r[b]) = {}
           /\ \A b \in Buffers : b \notin Range(bs) => FramesOf(r[b]) = FramesOf(queue[b])
<1> DEFINE w == Woken(ag, bs)
<1>1. /\ w \in Seq(Events)
      /\ FramesOf(ag) \subseteq FramesOf(w)
      /\ \A i \in DOMAIN bs : FramesOf(queue[bs[i]]) \subseteq FramesOf(w)
      /\ \A f \in FramesOf(w) :
                f \in FramesOf(ag) \/ \E i \in DOMAIN bs : f \in FramesOf(queue[bs[i]])
      /\ \A x \in Kinds(w) :
                x \in Kinds(ag) \/ \E i \in DOMAIN bs : x \in Kinds(queue[bs[i]])
      /\ Once(w)
  BY WokenEvents DEF Shape
<1> HIDE DEF w
<1>2. /\ \A i \in DOMAIN bs : bs[i] \in Buffers /\ bs[i] \in Range(bs)
      /\ \A b \in Range(bs) : \E i \in DOMAIN bs : b = bs[i]
  BY DEF Range
<1>3. /\ \A b \in Buffers : b \in Range(bs) => r[b] = <<>>
      /\ \A b \in Buffers : b \notin Range(bs) => r[b] = queue[b]
  OBVIOUS
<1>4. r \in [Buffers -> Seq(Waiters)]
  BY DEF NetTypes
<1>5. /\ \A b \in Buffers : b \in Range(bs) => FramesOf(r[b]) = {} /\ Kinds(r[b]) = {} /\ Once(r[b])
      /\ \A b \in Buffers : b \notin Range(bs) =>
                /\ FramesOf(r[b]) = FramesOf(queue[b])
                /\ Kinds(r[b]) = Kinds(queue[b]) /\ r[b] = queue[b]
  BY <1>3, NoEvents
<1>6. \A f : f \in FramesOf(w) <=>
                f \in FramesOf(ag) \/ \E b \in Buffers : b \in Range(bs) /\ f \in FramesOf(queue[b])
  BY <1>1, <1>2
<1>7. \A x \in Kinds(w) :
                x \in Kinds(ag) \/ \E b \in Buffers : x \in Kinds(queue[b])
  BY <1>1, <1>2
<1>8. Shape(w, r, Buffers)
  <2>1. Once(w) /\ \A b \in Buffers : Once(r[b])
    BY <1>1, <1>5 DEF Shape
  <2>2. \A b, d \in Buffers : b # d => FramesOf(r[b]) \cap FramesOf(r[d]) = {}
    BY <1>5 DEF Shape
  <2>3. \A b \in Buffers : FramesOf(r[b]) \cap FramesOf(w) = {}
    <3> SUFFICES ASSUME NEW b \in Buffers, NEW f \in FramesOf(r[b]), f \in FramesOf(w)
                 PROVE  FALSE
      OBVIOUS
    <3>1. b \notin Range(bs) /\ f \in FramesOf(queue[b])
      BY <1>5
    <3>2. f \notin FramesOf(ag)
      BY <3>1 DEF Shape
    <3>3. PICK d \in Buffers : d \in Range(bs) /\ f \in FramesOf(queue[d])
      BY <1>6, <3>2
    <3> QED  BY <3>1, <3>3 DEF Shape
  <2> QED  BY <2>1, <2>2, <2>3 DEF Shape
<1>9. \A f : f \in Has(w, r, Buffers) <=> f \in Has(ag, queue, Buffers)
  <2> SUFFICES ASSUME NEW f
               PROVE (f \in FramesOf(w) \/ \E b \in Buffers : f \in FramesOf(r[b]))
                     <=> (f \in FramesOf(ag) \/ \E b \in Buffers : f \in FramesOf(queue[b]))
    BY HasIs
  <2> QED  BY <1>5, <1>6
<1>10. \A x \in AllKinds(w, r, Buffers) : x \in AllKinds(ag, queue, Buffers)
  <2> SUFFICES ASSUME NEW x, x \in Kinds(w) \/ \E b \in Buffers : x \in Kinds(r[b])
               PROVE x \in Kinds(ag) \/ \E b \in Buffers : x \in Kinds(queue[b])
    BY HasIs
  <2> QED  BY <1>5, <1>7
<1>11. Has(w, r, Buffers) = Has(ag, queue, Buffers)
  BY <1>9
<1> QED  BY <1>1, <1>4, <1>5, <1>8, <1>10, <1>11 DEF w

\* The queues of the buffers bs are emptied.
Emptied(bs) == queue' = [b \in Buffers |-> IF b \in Range(bs) THEN <<>> ELSE queue[b]]

\* What that does, when heap ag takes their waiters.
WokenUp(ag, bs) ==
    /\ Woken(ag, bs) \in Seq(Events)
    /\ queue' \in [Buffers -> Seq(Waiters)]
    /\ Shape(Woken(ag, bs), queue', Buffers)
    /\ Has(Woken(ag, bs), queue', Buffers) = Has(ag, queue, Buffers)
    /\ AllKinds(Woken(ag, bs), queue', Buffers) \subseteq AllKinds(ag, queue, Buffers)
    /\ \A b \in Buffers : b \in Range(bs) => FramesOf(queue'[b]) = {}
    /\ \A b \in Buffers : b \notin Range(bs) => FramesOf(queue'[b]) = FramesOf(queue[b])

\* The same for the next state.
LEMMA WakeStep ==
    ASSUME NetTypes, NEW ag \in Seq(Events), Shape(ag, queue, Buffers),
           NEW bs \in Seq(Buffers), Emptied(bs)
    PROVE  WokenUp(ag, bs)
<1>1. PICK r : r = queue' /\ r = [b \in Buffers |-> IF b \in Range(bs) THEN <<>> ELSE queue[b]]
  BY Zenon DEF Emptied
<1> HIDE DEF Emptied
<1>2. /\ Woken(ag, bs) \in Seq(Events)
      /\ r \in [Buffers -> Seq(Waiters)]
      /\ Shape(Woken(ag, bs), r, Buffers)
      /\ Has(Woken(ag, bs), r, Buffers) = Has(ag, queue, Buffers)
      /\ AllKinds(Woken(ag, bs), r, Buffers) \subseteq AllKinds(ag, queue, Buffers)
      /\ \A b \in Buffers : b \in Range(bs) => FramesOf(r[b]) = {}
      /\ \A b \in Buffers : b \notin Range(bs) => FramesOf(r[b]) = FramesOf(queue[b])
  BY <1>1, WakeEffect
<1> QED  BY <1>1, <1>2 DEF WokenUp

-----------------------------------------------------------------------------
(***************************************************************************)
(* The bytes of a buffer depend on the set of its packets.                 *)
(***************************************************************************)
Part(p) == {p} \X (1 .. PacketSize(p[1]))
Load(P) == UNION {Part(p) : p \in P}

LEMMA PartIs ==
    ASSUME nw \in Nets, NEW p \in Packets
    PROVE  IsFiniteSet(Part(p)) /\ Cardinality(Part(p)) = PacketSize(p[1])
<1> DEFINE n == PacketSize(p[1])
<1>1. n \in Nat
  BY MessageShape, PacketShape
<1> HIDE DEF n
<1>2. IsFiniteSet({p}) /\ Cardinality({p}) = 1
  BY FS_Singleton
<1>3. IsFiniteSet(1 .. n) /\ Cardinality(1 .. n) = n
  BY <1>1, FS_Interval
<1>4. /\ IsFiniteSet({p} \X (1 .. n))
      /\ Cardinality({p} \X (1 .. n)) = Cardinality({p}) * Cardinality(1 .. n)
  BY <1>2, <1>3, FS_Product
<1>5. 1 * n = n
  BY <1>1
<1>6. Cardinality({p} \X (1 .. n)) = n
  BY <1>2, <1>3, <1>4, <1>5
<1> QED  BY <1>4, <1>6 DEF Part, n

LEMMA LoadFinite ==
    ASSUME nw \in Nets, NEW P \in SUBSET Packets, IsFiniteSet(P)
    PROVE  IsFiniteSet(Load(P)) /\ Cardinality(Load(P)) \in Nat
<1> DEFINE f == [p \in P |-> Part(p)]
<1>1. f \in [P -> Range(f)] /\ \A y \in Range(f) : \E p \in P : f[p] = y
  BY DEF Range
<1>2. \A p \in P : f[p] = Part(p)
  OBVIOUS
<1>3. \A p \in P : IsFiniteSet(Part(p))
  BY PartIs
<1> HIDE DEF f
<1>4. f \in Surjection(P, Range(f))
  BY <1>1, Fun_IsSurj
<1>5. IsFiniteSet(Range(f))
  BY <1>4, FS_Surjection
<1>6. \A y \in Range(f) : IsFiniteSet(y)
  BY <1>1, <1>2, <1>3
<1>7. IsFiniteSet(UNION Range(f))
  BY <1>5, <1>6, FS_UNION
<1>8. Load(P) \in SUBSET (UNION Range(f))
  <2> SUFFICES ASSUME NEW x \in Load(P) PROVE \E y \in Range(f) : x \in y
    OBVIOUS
  <2>1. PICK p \in P : x \in Part(p)
    BY Zenon DEF Load
  <2> QED  BY <1>1, <1>2, <2>1
<1>9. IsFiniteSet(Load(P))
  BY <1>7, <1>8, FS_Subset
<1> QED  BY <1>9, FS_CardinalityType

LEMMA LoadAdd ==
    ASSUME nw \in Nets, NEW P \in SUBSET Packets, IsFiniteSet(P),
           NEW p \in Packets, p \notin P
    PROVE  Cardinality(Load(P \cup {p})) = Cardinality(Load(P)) + PacketSize(p[1])
<1>1. IsFiniteSet(Load(P)) /\ Cardinality(Load(P)) \in Nat
  BY LoadFinite
<1>2. IsFiniteSet(Part(p)) /\ Cardinality(Part(p)) = PacketSize(p[1])
  BY PartIs
<1>3. Load(P \cup {p}) = Load(P) \cup Part(p)
  BY Zenon DEF Load
<1>4. Load(P) \cap Part(p) = {}
  <2> SUFFICES ASSUME NEW x \in Load(P), x \in Part(p) PROVE FALSE
    OBVIOUS
  <2>1. PICK q \in P : x \in Part(q)
    BY Zenon DEF Load
  <2>2. x[1] = q
    BY <2>1 DEF Part
  <2>3. x[1] = p
    BY DEF Part
  <2> QED  BY <2>2, <2>3
<1>5. PacketSize(p[1]) \in Nat
  BY MessageShape, PacketShape
<1>6. Cardinality(Load(P) \cup Part(p)) = Cardinality(Load(P)) + Cardinality(Part(p))
        - Cardinality(Load(P) \cap Part(p))
  BY <1>1, <1>2, FS_Union
<1>7. Cardinality(Load(P) \cap Part(p)) = 0
  BY <1>4, FS_EmptySet
<1> DEFINE a == Cardinality(Load(P))
           b == Cardinality(Part(p))
           z == Cardinality(Load(P) \cap Part(p))
           u == Cardinality(Load(P) \cup Part(p))
<1>8. u = a + b - z /\ a \in Nat /\ b \in Nat /\ z = 0
  BY <1>1, <1>2, <1>5, <1>6, <1>7
<1>9. Cardinality(Load(P \cup {p})) = u
  BY <1>3
<1> HIDE DEF a, b, z, u
<1>10. u = a + b
  BY <1>8
<1> QED  BY <1>2, <1>9, <1>10 DEF a, b

LEMMA LoadAll ==
    ASSUME nw \in Nets, NEW P \in SUBSET Packets, IsFiniteSet(P),
           NEW m \in Msgs, P \cap PacketsOf(m) = {}
    PROVE  /\ Cardinality(Load(P \cup PacketsOf(m))) = Cardinality(Load(P)) + Required(m)
           /\ Required(m) \in Nat
<1> DEFINE n == NumPackets(m)
           k == PacketSize(m)
           A == PacketsOf(m) \X (1 .. k)
<1>1. n \in Nat /\ k \in Nat /\ n * k \in Nat
  BY MessageShape
<1>2. IsFiniteSet(PacketsOf(m)) /\ Cardinality(PacketsOf(m)) = n
  BY PacketsFinite
<1>3. Required(m) = n * k
  BY DEF Required
<1>4. Load(PacketsOf(m)) = A
  <2>1. ASSUME NEW p \in PacketsOf(m) PROVE Part(p) = {p} \X (1 .. k)
    BY PacketShape DEF Part
  <2> HIDE DEF k
  <2>2. ASSUME NEW x \in Load(PacketsOf(m)) PROVE x \in PacketsOf(m) \X (1 .. k)
    <3>1. PICK p \in PacketsOf(m) : x \in Part(p)
      BY Zenon DEF Load
    <3> QED  BY <2>1, <3>1
  <2>3. ASSUME NEW x \in PacketsOf(m) \X (1 .. k) PROVE x \in Load(PacketsOf(m))
    <3>1. x[1] \in PacketsOf(m) /\ x \in {x[1]} \X (1 .. k)
      OBVIOUS
    <3>2. x \in Part(x[1])
      BY <2>1, <3>1
    <3> QED  BY <3>1, <3>2, Zenon DEF Load
  <2>4. Load(PacketsOf(m)) = PacketsOf(m) \X (1 .. k)
    BY <2>2, <2>3
  <2> QED  BY <2>4
<1> HIDE DEF n, k
<1>5. IsFiniteSet(1 .. k) /\ Cardinality(1 .. k) = k
  BY <1>1, FS_Interval
<1>6. IsFiniteSet(A) /\ Cardinality(A) = n * k
  BY <1>2, <1>5, FS_Product
<1> HIDE DEF A
<1>7. IsFiniteSet(Load(P)) /\ Cardinality(Load(P)) \in Nat
  BY LoadFinite
<1>8. Load(P \cup PacketsOf(m)) = Load(P) \cup A
  <2>1. Load(P \cup PacketsOf(m)) = Load(P) \cup Load(PacketsOf(m))
    BY Zenon DEF Load
  <2> QED  BY <1>4, <2>1
<1>9. Load(P) \cap A = {}
  <2> SUFFICES ASSUME NEW x \in Load(P), x \in A PROVE FALSE
    OBVIOUS
  <2>1. PICK q \in P : x \in Part(q)
    BY Zenon DEF Load
  <2>2. x[1] = q
    BY <2>1 DEF Part
  <2>3. x[1] \in PacketsOf(m)
    BY DEF A
  <2> QED  BY <2>2, <2>3
<1>10. Cardinality(Load(P) \cup A) = Cardinality(Load(P)) + Cardinality(A)
        - Cardinality(Load(P) \cap A)
  BY <1>6, <1>7, FS_Union
<1>11. Cardinality(Load(P) \cap A) = 0
  BY <1>9, FS_EmptySet
<1> DEFINE a == Cardinality(Load(P))
           b == Cardinality(A)
           z == Cardinality(Load(P) \cap A)
           u == Cardinality(Load(P) \cup A)
<1>12. u = a + b - z /\ a \in Nat /\ b = n * k /\ b \in Nat /\ z = 0
  BY <1>1, <1>6, <1>7, <1>10, <1>11
<1>13. Cardinality(Load(P \cup PacketsOf(m))) = u
  BY <1>8
<1> HIDE DEF a, b, z, u
<1>14. u = a + b
  BY <1>12
<1> QED  BY <1>1, <1>3, <1>12, <1>13, <1>14 DEF a

LEMMA BytesIs ==
    ASSUME nw \in Nets, NEW c \in Seq(Packets), IsInjective(c)
    PROVE  /\ BytesOf(c) = Cardinality(Load(Range(c))) /\ BytesOf(c) \in Nat
           /\ Range(c) \in SUBSET Packets /\ IsFiniteSet(Range(c))
<1> DEFINE I == UNION {{<<i, k>> : k \in 1 .. PacketSize(c[i][1])} : i \in DOMAIN c}
           f == [x \in I |-> <<c[x[1]], x[2]>>]
<1>1. Range(c) \in SUBSET Packets /\ IsFiniteSet(Range(c))
  BY LenIsCardinality DEF Range
<1>2. IsFiniteSet(Load(Range(c))) /\ Cardinality(Load(Range(c))) \in Nat
  BY <1>1, LoadFinite
<1>3. ASSUME NEW x \in I
      PROVE  /\ x[1] \in DOMAIN c /\ x[2] \in 1 .. PacketSize(c[x[1]][1])
             /\ x = <<x[1], x[2]>>
  <2>1. PICK i \in DOMAIN c : x \in {<<i, k>> : k \in 1 .. PacketSize(c[i][1])}
    BY Zenon
  <2>2. PICK k \in 1 .. PacketSize(c[i][1]) : x = <<i, k>>
    BY <2>1, Zenon
  <2>3. x[1] = i /\ x[2] = k
    BY <2>2
  <2> QED  BY <2>2, <2>3
<1>4. ASSUME NEW i \in DOMAIN c, NEW k \in 1 .. PacketSize(c[i][1]) PROVE <<i, k>> \in I
  <2>1. <<i, k>> \in {<<i, j>> : j \in 1 .. PacketSize(c[i][1])}
    BY Zenon
  <2> QED  BY <2>1, Zenon
<1>5. BytesOf(c) = Cardinality(I)
  BY DEF BytesOf
<1> HIDE DEF I
<1>6. f \in [I -> Load(Range(c))]
  <2> SUFFICES ASSUME NEW x \in I PROVE <<c[x[1]], x[2]>> \in Load(Range(c))
    BY Zenon
  <2>1. c[x[1]] \in Range(c)
    BY <1>3 DEF Range
  <2>2. <<c[x[1]], x[2]>> \in Part(c[x[1]])
    BY <1>3 DEF Part
  <2> QED  BY <2>1, <2>2, Zenon DEF Load
<1>7. \A x, y \in I : f[x] = f[y] => x = y
  <2> SUFFICES ASSUME NEW x \in I, NEW y \in I, f[x] = f[y] PROVE x = y
    BY Zenon
  <2>1. c[x[1]] = c[y[1]] /\ x[2] = y[2]
    OBVIOUS
  <2>2. x[1] = y[1]
    BY <1>3, <2>1 DEF IsInjective
  <2>3. x = <<x[1], x[2]>> /\ y = <<y[1], y[2]>>
    BY <1>3
  <2> QED  BY <2>1, <2>2, <2>3
<1>8. \A y \in Load(Range(c)) : \E x \in I : f[x] = y
  <2> SUFFICES ASSUME NEW y \in Load(Range(c)) PROVE \E x \in I : f[x] = y
    OBVIOUS
  <2>1. PICK p \in Range(c) : y \in Part(p)
    BY Zenon DEF Load
  <2>2. PICK i \in DOMAIN c : c[i] = p
    BY DEF Range
  <2>3. PICK k \in 1 .. PacketSize(c[i][1]) : y = <<c[i], k>>
    BY <2>1, <2>2 DEF Part
  <2>4. <<i, k>> \in I
    BY <1>4
  <2>5. f[<<i, k>>] = y
    BY <2>3, <2>4
  <2> QED  BY <2>4, <2>5
<1> HIDE DEF f
<1>9. f \in Bijection(I, Load(Range(c)))
  BY <1>6, <1>7, <1>8, Fun_IsBij
<1>10. f \in Injection(I, Load(Range(c)))
  BY <1>6, <1>7, Fun_IsInj
<1>11. IsFiniteSet(I)
  BY <1>2, <1>10, FS_Injection
<1>12. ExistsBijection(I, Load(Range(c)))
  BY <1>9 DEF ExistsBijection
<1>13. Cardinality(I) = Cardinality(Load(Range(c)))
  BY <1>11, <1>12, FS_Bijection
<1> QED  BY <1>1, <1>2, <1>5, <1>13

\* Buffers with fewer packets have fewer bytes.
LEMMA BytesMonotone ==
    ASSUME nw \in Nets, NEW c \in Seq(Packets), IsInjective(c),
           NEW d \in Seq(Packets), IsInjective(d), Range(c) \subseteq Range(d)
    PROVE  BytesOf(c) <= BytesOf(d) /\ BytesOf(c) \in Nat /\ BytesOf(d) \in Nat
<1>1. /\ BytesOf(c) = Cardinality(Load(Range(c))) /\ BytesOf(c) \in Nat
      /\ BytesOf(d) = Cardinality(Load(Range(d))) /\ BytesOf(d) \in Nat
      /\ Range(d) \in SUBSET Packets /\ IsFiniteSet(Range(d))
  BY BytesIs
<1>2. IsFiniteSet(Load(Range(d)))
  BY <1>1, LoadFinite
<1>3. Load(Range(c)) \in SUBSET Load(Range(d))
  BY Zenon DEF Load
<1> QED  BY <1>1, <1>2, <1>3, FS_Subset

\* A packet or a whole message goes into a buffer.
LEMMA BytesAppend ==
    ASSUME nw \in Nets, NEW c \in Seq(Packets), IsInjective(c),
           NEW d \in Seq(Packets), IsInjective(d), NEW p \in Packets,
           p \notin Range(c), Range(d) = Range(c) \cup {p}
    PROVE  BytesOf(d) = BytesOf(c) + PacketSize(p[1])
<1>1. /\ BytesOf(c) = Cardinality(Load(Range(c)))
      /\ BytesOf(d) = Cardinality(Load(Range(d)))
      /\ Range(c) \in SUBSET Packets /\ IsFiniteSet(Range(c))
  BY BytesIs
<1>2. Cardinality(Load(Range(c) \cup {p})) = Cardinality(Load(Range(c))) + PacketSize(p[1])
  BY <1>1, LoadAdd
<1> QED  BY <1>1, <1>2

LEMMA BytesAppendAll ==
    ASSUME nw \in Nets, NEW c \in Seq(Packets), IsInjective(c),
           NEW d \in Seq(Packets), IsInjective(d), NEW m \in Msgs,
           Range(c) \cap PacketsOf(m) = {}, Range(d) = Range(c) \cup PacketsOf(m)
    PROVE  BytesOf(d) = BytesOf(c) + Required(m)
<1>1. /\ BytesOf(c) = Cardinality(Load(Range(c)))
      /\ BytesOf(d) = Cardinality(Load(Range(d)))
      /\ Range(c) \in SUBSET Packets /\ IsFiniteSet(Range(c))
  BY BytesIs
<1>2. Cardinality(Load(Range(c) \cup PacketsOf(m))) = Cardinality(Load(Range(c))) + Required(m)
  BY <1>1, LoadAll
<1> QED  BY <1>1, <1>2

-----------------------------------------------------------------------------
(***************************************************************************)
(* The routing table.                                                      *)
(***************************************************************************)
\* An entry of the table is changed.
LEMMA EntryChange ==
    ASSUME NEW t, GoodTable(t), NEW i, NEW j, NEW e,
           i \in nw.nodes /\ j \in nw.nodes => "buffer" \in DOMAIN e /\ GoodBuffer(i, e.buffer)
    PROVE  GoodTable([t EXCEPT ![i][j] = e])
<1> DEFINE u == [t EXCEPT ![i][j] = e]
<1>1. DOMAIN u = nw.nodes
  BY DEF GoodTable
<1>2. \A a \in nw.nodes : u[a] = IF a = i THEN [t[i] EXCEPT ![j] = e] ELSE t[a]
  BY DEF GoodTable
<1>3. \A a \in nw.nodes : DOMAIN t[a] = nw.nodes
  BY DEF GoodTable
<1> HIDE DEF u
<1>4. \A a \in nw.nodes : DOMAIN u[a] = nw.nodes
  BY <1>2, <1>3
<1>5. \A a, c \in nw.nodes : u[a][c] = IF a = i /\ c = j THEN e ELSE t[a][c]
  BY <1>2, <1>3
<1>6. \A a, c \in nw.nodes : "buffer" \in DOMAIN u[a][c] /\ GoodBuffer(a, u[a][c].buffer)
  BY <1>5 DEF GoodTable
<1> QED  BY <1>1, <1>4, <1>6 DEF GoodTable, u

LEMMA InitialTableIsGood ==
    ASSUME nw \in Nets
    PROVE  GoodTable(InitialTable(nw))
<1> DEFINE t == InitialTable(nw)
<1>1. DOMAIN t = nw.nodes /\ \A i \in nw.nodes : DOMAIN t[i] = nw.nodes
  BY DEF InitialTable
<1>2. \A i, j \in nw.nodes : t[i][j] = OneHop(nw, i, j)
  BY DEF InitialTable
<1>3. ASSUME NEW i \in nw.nodes, NEW j \in nw.nodes
      PROVE  /\ "buffer" \in DOMAIN OneHop(nw, i, j)
             /\ OneHop(nw, i, j).buffer \in OutBuffers(nw) \cup {NoBuffer}
  <2> DEFINE via == {b \in OutBuffersOf(nw, i) : Leads(nw, b, j)}
  <2>1. via \in SUBSET OutBuffers(nw)
    BY DEF OutBuffersOf
  <2> HIDE DEF via
  <2>2. via # {} => LastBuffer(via) \in OutBuffers(nw)
    BY <2>1, LastOutBuffer
  <2>3. OneHop(nw, i, j) = IF i # j /\ via # {}
            THEN [cost |-> 1, next |-> j, buffer |-> LastBuffer(via)]
            ELSE [cost |-> IF i = j THEN 0 ELSE Dimension(nw),
                  next |-> Null, buffer |-> NoBuffer]
    BY DEF OneHop, via
  <2> QED  BY <2>2, <2>3
<1>4. \A b \in OutBuffers(nw) \cup {NoBuffer} : b \in Buffers \cup {NoBuffer} /\ b \notin InBuffers(nw)
  BY BufferShape DEF Buffers
<1> HIDE DEF t
<1>5. \A i, j \in nw.nodes : "buffer" \in DOMAIN t[i][j] /\ GoodBuffer(i, t[i][j].buffer)
  BY <1>2, <1>3, <1>4 DEF GoodBuffer
<1> QED  BY <1>1, <1>5 DEF GoodTable, t

LEMMA RelaxIsGood ==
    ASSUME NEW t, GoodTable(t), NEW k
    PROVE  GoodTable(RelaxAll(nw, t, k))
<1> DEFINE u == RelaxAll(nw, t, k)
<1>1. DOMAIN u = nw.nodes /\ \A i \in nw.nodes : DOMAIN u[i] = nw.nodes
  BY DEF RelaxAll
<1>2. \A i, j \in nw.nodes : u[i][j] = Relaxed(t, i, j, k)
  BY DEF RelaxAll
<1> HIDE DEF u
<1>3. ASSUME NEW i \in nw.nodes, NEW j \in nw.nodes
      PROVE  /\ "buffer" \in DOMAIN Relaxed(t, i, j, k)
             /\ Relaxed(t, i, j, k).buffer = t[i][j].buffer
  <2>1. "buffer" \in DOMAIN t[i][j]
    BY DEF GoodTable
  <2>2. Relaxed(t, i, j, k) = t[i][j] \/
        Relaxed(t, i, j, k) = [cost |-> t[i][k].cost + t[k][j].cost, next |-> k,
                               buffer |-> t[i][j].buffer]
    BY DEF Relaxed
  <2> QED  BY <2>1, <2>2
<1>4. \A i, j \in nw.nodes : "buffer" \in DOMAIN u[i][j] /\ GoodBuffer(i, u[i][j].buffer)
  BY <1>2, <1>3 DEF GoodTable
<1> QED  BY <1>1, <1>4 DEF GoodTable, u

LEMMA HopIsGood ==
    ASSUME nw \in Nets, NEW t, GoodTable(t), NEW i, NEW j
    PROVE  GoodTable(SetHop(nw, t, i, j))
<1> DEFINE h == NextHop(nw, t, i, j)
           via == {b \in OutBuffersOf(nw, i) : Leads(nw, b, h)}
           e == [t[i][j] EXCEPT !.buffer = NoBuffer]
           g == [t[i][j] EXCEPT !.next = h, !.buffer = FirstBuffer(via)]
<1>1. via \in SUBSET OutBuffers(nw)
  BY DEF OutBuffersOf
<1>2. via # {} => FirstBuffer(via) \in OutBuffers(nw)
  <2> HIDE DEF via
  <2> QED  BY <1>1, BufferChoice
<1>3. \A b \in OutBuffers(nw) \cup {NoBuffer} : GoodBuffer(i, b)
  BY BufferShape DEF Buffers, GoodBuffer
<1>4. SetHop(nw, t, i, j) = IF t[i][j].next = Null THEN [t EXCEPT ![i][j].buffer = NoBuffer]
        ELSE IF via = {} THEN t
        ELSE [t EXCEPT ![i][j].next = h, ![i][j].buffer = FirstBuffer(via)]
  BY DEF SetHop
<1> HIDE DEF via, h
<1>5. [t EXCEPT ![i][j].buffer = NoBuffer] = [t EXCEPT ![i][j] = e]
  OBVIOUS
<1>6. [t EXCEPT ![i][j].next = h, ![i][j].buffer = FirstBuffer(via)]
        = [t EXCEPT ![i][j] = g]
  OBVIOUS
<1>7. i \in nw.nodes /\ j \in nw.nodes => "buffer" \in DOMAIN t[i][j]
  BY DEF GoodTable
<1>8. i \in nw.nodes /\ j \in nw.nodes => "buffer" \in DOMAIN e /\ e.buffer = NoBuffer
  BY <1>7
<1>9. i \in nw.nodes /\ j \in nw.nodes => "buffer" \in DOMAIN g /\ g.buffer = FirstBuffer(via)
  BY <1>7
<1> HIDE DEF e, g
<1>10. GoodTable([t EXCEPT ![i][j] = e])
  BY <1>3, <1>8, EntryChange
<1>11. via # {} => GoodTable([t EXCEPT ![i][j] = g])
  BY <1>2, <1>3, <1>9, EntryChange
<1> QED  BY <1>4, <1>5, <1>6, <1>10, <1>11

LEMMA RouteIsGood ==
    ASSUME nw \in Nets, NEW t, GoodTable(t), NEW r \in GoodSteps, ~ RouteRefused(nw, r)
    PROVE  GoodTable(Routed(nw, t, r))
<1> DEFINE c == CHOOSE x \in Tried(nw, r) : \A d \in Tried(nw, r) : x <= d
           b == RouteBuffer(nw, r, c)
           e == [t[r.from][r.to] EXCEPT !.next = r.next, !.buffer = b]
<1>1. /\ Tried(nw, r) # {}
      /\ nw.conns[c].link => ~ (r.vc >= Len(nw.conns[c].src))
      /\ ~ nw.conns[c].link => r.vc = 0
  BY DEF RouteRefused
<1>2. r.next # r.from /\ r.vc \in Nat
  BY DEF GoodSteps
<1>3. c \in Tried(nw, r)
  <2> DEFINE T == Tried(nw, r)
             f == [x \in T |-> x]
             R == [link : BOOLEAN, src : Seq(nw.nodes), dst : Seq(nw.nodes)]
  <2>1. nw.conns \in Seq(R)
    BY NetAssumption
  <2>2. DOMAIN nw.conns \subseteq Nat
    <3> HIDE DEF R
    <3> QED  BY <2>1
  <2>3. T \subseteq Nat
    BY <2>2 DEF Tried
  <2>4. T # {}
    BY <1>1
  <2> HIDE DEF T
  <2>5. f \in [T -> Nat] /\ \A x \in T : f[x] = x
    BY <2>3
  <2> HIDE DEF f
  <2>6. \E x \in T : \A y \in T : f[x] <= f[y]
    BY <2>4, <2>5, LeastExists
  <2>7. \E x \in T : \A y \in T : x <= y
    BY <2>5, <2>6
  <2> USE DEF T
  <2> QED  BY <2>7, Zenon
<1>4. Routed(nw, t, r) = [t EXCEPT ![r.from][r.to].next = r.next, ![r.from][r.to].buffer = b]
  BY DEF Routed
<1> HIDE DEF c
<1>5. /\ c \in DOMAIN nw.conns
      /\ r.next \in Range(nw.conns[c].dst) \/ (~ nw.conns[c].link /\ r.vc # 0)
  BY <1>3 DEF Tried
<1>6. /\ c \in Nat /\ nw.conns[c].src \in Seq(nw.nodes) /\ nw.conns[c].dst \in Seq(nw.nodes)
  <2> DEFINE R == [link : BOOLEAN, src : Seq(nw.nodes), dst : Seq(nw.nodes)]
  <2>1. nw.conns \in Seq(R)
    BY NetAssumption
  <2>2. nw.conns[c] \in R /\ c \in Nat
    <3> HIDE DEF R
    <3> QED  BY <1>5, <2>1
  <2> QED  BY <2>2
<1>7. GoodBuffer(r.from, b)
  <2>1. CASE nw.conns[c].link
    <3>1. b = <<"out", c, r.vc + 1>>
      BY <2>1 DEF RouteBuffer
    <3>2. r.vc + 1 \in DOMAIN nw.conns[c].src
      BY <1>1, <1>2, <1>6, <2>1
    <3>3. <<"out", c, r.vc + 1>> \in {<<"out", c, k>> : k \in DOMAIN nw.conns[c].src}
      BY <3>2, Zenon
    <3>4. b \in OutBuffers(nw)
      BY <1>5, <3>1, <3>3, Zenon DEF OutBuffers
    <3> QED  BY <3>4, BufferShape DEF GoodBuffer, Buffers
  <2>2. CASE ~ nw.conns[c].link
    <3> DEFINE ds == {x \in InBuffers(nw) : x[2] = c /\ BufferNode(nw, x) = r.next}
    <3>1. b = FirstBuffer(ds)
      BY <2>2 DEF RouteBuffer
    <3>2. PICK k \in DOMAIN nw.conns[c].dst : r.next = nw.conns[c].dst[k]
      BY <1>1, <1>5, <2>2 DEF Range
    <3>3. <<"in", c, k>> \in {<<"in", c, l>> : l \in DOMAIN nw.conns[c].dst}
      BY <3>2, Zenon
    <3>4. <<"in", c, k>> \in InBuffers(nw)
      BY <1>5, <3>3, Zenon DEF InBuffers
    <3>5. BufferNode(nw, <<"in", c, k>>) = nw.conns[c].dst[k]
      BY DEF BufferNode, Conn
    <3>6. <<"in", c, k>> \in ds
      BY <3>2, <3>4, <3>5
    <3>7. ds \in SUBSET InBuffers(nw) /\ ds # {}
      BY <3>6
    <3>8. FirstBuffer(ds) \in ds
      <4> HIDE DEF ds
      <4> QED  BY <3>7, BufferChoice
    <3>9. b \in InBuffers(nw) /\ BufferNode(nw, b) = r.next
      BY <3>1, <3>8
    <3> QED  BY <1>2, <3>9 DEF GoodBuffer, Buffers
  <2> QED  BY <2>1, <2>2
<1> HIDE DEF b
<1>8. [t EXCEPT ![r.from][r.to].next = r.next, ![r.from][r.to].buffer = b]
        = [t EXCEPT ![r.from][r.to] = e]
  OBVIOUS
<1>9. r.from \in nw.nodes /\ r.to \in nw.nodes => "buffer" \in DOMAIN t[r.from][r.to]
  BY DEF GoodTable
<1>10. r.from \in nw.nodes /\ r.to \in nw.nodes => "buffer" \in DOMAIN e /\ e.buffer = b
  BY <1>9
<1> HIDE DEF e
<1>11. GoodTable([t EXCEPT ![r.from][r.to] = e])
  BY <1>7, <1>10, EntryChange
<1> QED  BY <1>4, <1>8, <1>11

LEMMA CostIsGood ==
    ASSUME NEW t, GoodTable(t), NEW i, NEW j, NEW x
    PROVE  GoodTable([t EXCEPT ![i][j].cost = x])
<1> DEFINE e == [t[i][j] EXCEPT !.cost = x]
<1>1. [t EXCEPT ![i][j].cost = x] = [t EXCEPT ![i][j] = e]
  OBVIOUS
<1>2. i \in nw.nodes /\ j \in nw.nodes => "buffer" \in DOMAIN t[i][j] /\ GoodBuffer(i, t[i][j].buffer)
  BY DEF GoodTable
<1>3. i \in nw.nodes /\ j \in nw.nodes => "buffer" \in DOMAIN e /\ e.buffer = t[i][j].buffer
  BY <1>2
<1> HIDE DEF e
<1> QED  BY <1>1, <1>2, <1>3, EntryChange

\* The table and the route steps at every point of the configuration.
LEMMA RoutingStep ==
    ASSUME nw \in Nets, TableInv, RoutingNext
    PROVE  /\ nw' = nw
           /\ phase' \in {phase, "start", "hops", "cost", "search", "ready", "error"}
           /\ GoodTable(table') /\ steps' \in Seq(GoodSteps)
<1>0. GoodTable(table) /\ steps \in Seq(GoodSteps)
  BY DEF TableInv
<1>1. CASE FloydWarshallCosts
  <2>1. /\ nw' = nw /\ steps' = steps /\ table' = RelaxAll(nw, table, walk.at)
        /\ phase' \in {phase, "hops"}
    BY <1>1 DEF FloydWarshallCosts
  <2> QED  BY <1>0, <2>1, RelaxIsGood
<1>2. CASE FloydWarshallHops
  <2>1. /\ nw' = nw /\ steps' = steps /\ table' = SetHop(nw, table, Source, Destination)
        /\ phase' \in {phase, "search"}
    BY <1>2 DEF FloydWarshallHops, NextEntry
  <2> QED  BY <1>0, <2>1, HopIsGood
<1>3. CASE UpdateRoute
  <2>1. /\ nw' = nw /\ steps # <<>> /\ steps' = Tail(steps) /\ phase' \in {phase, "error"}
        /\ \/ table' = table
           \/ ~ RouteRefused(nw, Head(steps)) /\ table' = Routed(nw, table, Head(steps))
    BY <1>3 DEF UpdateRoute, Fail
  <2>2. Head(steps) \in GoodSteps /\ Tail(steps) \in Seq(GoodSteps)
    BY <1>0, <2>1
  <2>3. ~ RouteRefused(nw, Head(steps)) => GoodTable(Routed(nw, table, Head(steps)))
    BY <1>0, <2>2, RouteIsGood
  <2> QED  BY <1>0, <2>1, <2>2, <2>3
<1>4. CASE CostStart
  BY <1>0, <1>4 DEF CostStart
<1>5. CASE UpdateCost
  <2>1. /\ nw' = nw /\ steps' = steps /\ phase' \in {phase, "search"}
        /\ \/ table' = table
           \/ \E x : table' = [table EXCEPT ![Source][Destination].cost = x]
    BY <1>5 DEF UpdateCost, NextEntry
  <2>2. ASSUME NEW x PROVE GoodTable([table EXCEPT ![Source][Destination].cost = x])
    BY <1>0, CostIsGood
  <2>3. GoodTable(table')
    <3>1. CASE table' = table
      BY <1>0, <3>1
    <3>2. CASE \E x : table' = [table EXCEPT ![Source][Destination].cost = x]
      BY <2>2, <3>2, Zenon
    <3> QED  BY <2>1, <3>1, <3>2
  <2> QED  BY <1>0, <2>1, <2>3
<1>6. CASE Search
  <2>1. nw' = nw /\ steps' = steps /\ table' = table
    BY <1>6 DEF Search
  <2>2. phase' \in {phase, "ready", "error"}
    BY <1>6 DEF Search, Fail, Found, Visit
  <2> QED  BY <1>0, <2>1, <2>2
<1> QED  BY <1>1, <1>2, <1>3, <1>4, <1>5, <1>6 DEF RoutingNext

-----------------------------------------------------------------------------

LEMMA SameNet ==
    ASSUME nw' = nw
    PROVE  /\ Buffers' = Buffers /\ Msgs' = Msgs /\ Packets' = Packets
           /\ Frames' = Frames /\ Waiters' = Waiters /\ Events' = Events
           /\ Resources' = Resources /\ GoodSteps' = GoodSteps
           /\ \A m : /\ NumPackets(m)' = NumPackets(m) /\ PacketSize(m)' = PacketSize(m)
                    /\ PacketsOf(m)' = PacketsOf(m) /\ Required(m)' = Required(m)
           /\ \A c : BytesOf(c)' = BytesOf(c)
<1>1. Buffers' = Buffers /\ Msgs' = Msgs /\ Arbiters' = Arbiters /\ GoodSteps' = GoodSteps
  BY DEF Buffers, Msgs, Arbiters, GoodSteps
<1>2. ASSUME NEW m PROVE NumPackets(m)' = NumPackets(m) /\ PacketSize(m)' = PacketSize(m)
  BY DEF NumPackets, PacketSize
<1>3. ASSUME NEW m PROVE PacketsOf(m)' = PacketsOf(m) /\ Required(m)' = Required(m)
  BY <1>2 DEF PacketsOf, Required
<1>4. Packets' = Packets
  BY <1>1, <1>3 DEF Packets
<1>5. Frames' = Frames
  BY <1>1, <1>4 DEF Frames
<1>6. Waiters' = Waiters /\ Events' = Events
  BY <1>5 DEF Waiters, Events
<1>7. Resources' = Resources
  BY <1>1, <1>4 DEF Resources
<1>8. ASSUME NEW c PROVE BytesOf(c)' = BytesOf(c)
  BY <1>2 DEF BytesOf
<1> QED  BY <1>1, <1>2, <1>3, <1>4, <1>5, <1>6, <1>7, <1>8

\* The invariant holds in the next state if its parts hold of the new values.
LEMMA NextTypes ==
    ASSUME nw \in Nets, nw' = nw,
           phase' \in {"start", "hops", "cost", "search", "ready", "error"},
           agenda' \in Seq(Events), queue' \in [Buffers -> Seq(Waiters)],
           content' \in [Buffers -> Seq(Packets)],
           at' \in [Packets -> Buffers \cup {NoBuffer}], busy' \in [Resources -> Nat],
           status' \in [Msgs -> {"idle", "trying", "sent", "received"}],
           assembled' \in [Msgs -> SUBSET Packets],
           \A m \in Msgs : assembled'[m] \subseteq PacketsOf(m)
    PROVE  NetTypes'
  BY SameNet, Zenon DEF NetTypes

LEMMA NextTraffic ==
    ASSUME nw' = nw, EventsOK(agenda', queue', status', assembled'),
           KindsOK(agenda', queue', at', status'),
           PlacesOK(content', at', status'), RoomOK(content'),
           AssembledOK(status', assembled'), SleepOK(queue', content', at')
    PROVE  TrafficInv'
<1>1. EventsOK(agenda, queue, status, assembled)'
  BY SameNet DEF EventsOK, Expected
<1>2. KindsOK(agenda, queue, at, status)'
  BY SameNet DEF KindsOK, KindOK
<1>3. PlacesOK(content, at, status)'
  BY SameNet DEF PlacesOK, Stored
<1>4. RoomOK(content)'
  BY SameNet DEF RoomOK
<1>5. AssembledOK(status, assembled)'
  BY SameNet DEF AssembledOK
<1>6. SleepOK(queue, content, at)'
  BY SameNet DEF SleepOK, Blocked
<1> QED  BY <1>1, <1>2, <1>3, <1>4, <1>5, <1>6 DEF TrafficInv

LEMMA NextTable ==
    ASSUME nw' = nw, GoodTable(table'), steps' \in Seq(GoodSteps)
    PROVE  TableInv'
<1>1. GoodTable(table)'
  BY SameNet DEF GoodTable, GoodBuffer
<1> QED  BY <1>1, SameNet DEF TableInv
-----------------------------------------------------------------------------
(***************************************************************************)
(* Steps that leave the packets where they are.                            *)
(***************************************************************************)
Configured == nw' = nw /\ phase' = phase /\ table' = table /\ steps' = steps
Unmoved == content' = content /\ at' = at /\ busy' = busy
Unsent == status' = status /\ assembled' = assembled

\* The event that runs is scheduled again, as event ev2.
LEMMA Reposted ==
    ASSUME NetInv, NEW f, NEW ev, Runs(f, ev),
           NEW ev2 \in {"retry", "output", "input", "receive", "arrived"}, NEW d \in Nat,
           KindOK(<<f, ev2>>, at, status),
           agenda' = Post(Others, f, ev2, d), queue' = queue,
           Configured, Unmoved, Unsent
    PROVE  NetInv'
<1> DEFINE x == [frame |-> f, ev |-> ev2, t |-> d]
<1>0. NetTypes /\ TableInv /\ TrafficInv /\ nw' = nw
  BY DEF NetInv, Configured
<1>1. Shape(agenda, queue, Buffers)
  BY <1>0 DEF TrafficInv, EventsOK
<1>2. /\ Others \in Seq(Events) /\ f \in Frames
      /\ Shape(Others, queue, Buffers)
      /\ f \notin Has(Others, queue, Buffers)
      /\ Has(agenda, queue, Buffers) = Has(Others, queue, Buffers) \cup {f}
      /\ AllKinds(Others, queue, Buffers) \subseteq AllKinds(agenda, queue, Buffers)
  BY <1>0, <1>1, RunEffect
<1>3. x \in Events /\ x.frame = f /\ x.ev = ev2 /\ agenda' = Append(Others, x)
  BY <1>2 DEF Events, Post
<1> HIDE DEF x
<1>4. /\ agenda' \in Seq(Events)
      /\ Shape(agenda', queue, Buffers)
      /\ Has(agenda', queue, Buffers) = Has(Others, queue, Buffers) \cup {f}
      /\ AllKinds(agenda', queue, Buffers) = AllKinds(Others, queue, Buffers) \cup {<<f, ev2>>}
  BY <1>2, <1>3, PostEffect DEF Posted
<1>5. EventsOK(agenda', queue', status', assembled')
  BY <1>0, <1>2, <1>4 DEF TrafficInv, EventsOK, Unsent
<1>6. KindsOK(agenda', queue', at', status')
  BY <1>0, <1>2, <1>4 DEF TrafficInv, KindsOK, Unsent, Unmoved
<1>7. /\ PlacesOK(content', at', status') /\ RoomOK(content')
      /\ AssembledOK(status', assembled') /\ SleepOK(queue', content', at')
  BY <1>0 DEF TrafficInv, Unsent, Unmoved
<1>8. TrafficInv'
  BY <1>0, <1>5, <1>6, <1>7, NextTraffic
<1>9. NetTypes'
  BY <1>0, <1>4, NextTypes DEF NetTypes, Configured, Unsent, Unmoved
<1>10. TableInv'
  BY <1>0, NextTable DEF TableInv, Configured
<1> QED  BY <1>8, <1>9, <1>10 DEF NetInv

\* The event that runs is suspended at buffer b, for a reason that holds.
LEMMA Suspended ==
    ASSUME NetInv, NEW f, NEW ev \in {"retry", "output", "input"}, Runs(f, ev),
           NEW b \in Buffers, WaitOn(b), Blocked(f, b, content[b], at),
           Configured, Unmoved, Unsent
    PROVE  NetInv'
<1> DEFINE x == [frame |-> f, ev |-> ev]
<1>0. NetTypes /\ TableInv /\ TrafficInv /\ nw' = nw
  BY DEF NetInv, Configured
<1>1. Shape(agenda, queue, Buffers)
  BY <1>0 DEF TrafficInv, EventsOK
<1>2. /\ Others \in Seq(Events) /\ f \in Frames
      /\ Shape(Others, queue, Buffers)
      /\ f \notin Has(Others, queue, Buffers)
      /\ Has(agenda, queue, Buffers) = Has(Others, queue, Buffers) \cup {f}
      /\ AllKinds(Others, queue, Buffers) \subseteq AllKinds(agenda, queue, Buffers)
      /\ <<f, ev>> \in AllKinds(agenda, queue, Buffers)
  BY <1>0, <1>1, RunEffect
<1>3. /\ x \in Waiters /\ x.frame = f /\ x.ev = ev /\ agenda' = Others
      /\ Suspends(b, x)
  BY <1>2 DEF Waiters, WaitOn, Runs, Suspends
<1> HIDE DEF x
<1>4. /\ queue' \in [Buffers -> Seq(Waiters)]
      /\ Shape(Others, queue', Buffers)
      /\ Has(Others, queue', Buffers) = Has(Others, queue, Buffers) \cup {f}
      /\ AllKinds(Others, queue', Buffers) = AllKinds(Others, queue, Buffers) \cup {<<f, ev>>}
      /\ \A d \in Buffers : FramesOf(queue'[d]) = IF d = b THEN FramesOf(queue[d]) \cup {f}
                                                           ELSE FramesOf(queue[d])
  <2>1. x \in Waiters /\ Suspends(b, x) /\ x.frame \notin Has(Others, queue, Buffers)
    BY <1>2, <1>3
  <2>2. PutToSleep(Others, b, x)
    BY <1>0, <1>2, <2>1, SleepEffect
  <2> QED  BY <1>3, <2>2 DEF PutToSleep
<1>5. EventsOK(agenda', queue', status', assembled')
  BY <1>0, <1>2, <1>3, <1>4 DEF TrafficInv, EventsOK, Unsent
<1>6. KindsOK(agenda', queue', at', status')
  BY <1>0, <1>2, <1>3, <1>4 DEF TrafficInv, KindsOK, Unsent, Unmoved
<1>7. /\ PlacesOK(content', at', status') /\ RoomOK(content')
      /\ AssembledOK(status', assembled')
  BY <1>0 DEF TrafficInv, Unsent, Unmoved
<1>8. SleepOK(queue', content', at')
  BY <1>0, <1>4 DEF TrafficInv, SleepOK, Unmoved
<1>9. TrafficInv'
  BY <1>0, <1>5, <1>6, <1>7, <1>8, NextTraffic
<1>10. NetTypes'
  BY <1>0, <1>2, <1>3, <1>4, NextTypes DEF NetTypes, Configured, Unsent, Unmoved
<1>11. TableInv'
  BY <1>0, NextTable DEF TableInv, Configured
<1> QED  BY <1>9, <1>10, <1>11 DEF NetInv

\* Time goes on.
LEMMA Ticked ==
    ASSUME NetInv, Tick
    PROVE  NetInv'
<1>0. /\ NetTypes /\ TableInv /\ TrafficInv
      /\ Configured /\ content' = content /\ at' = at /\ Unsent /\ queue' = queue
      /\ busy' = [r \in Resources |-> IF busy[r] = 0 THEN 0 ELSE busy[r] - 1]
      /\ agenda' = [i \in DOMAIN agenda |-> [agenda[i] EXCEPT !.t = @ - 1]]
      /\ Due = {}
  BY DEF NetInv, Tick, Configured, Unsent, unchangedNet, routingVars
<1>1. busy' \in [Resources -> Nat]
  <2>1. busy \in [Resources -> Nat]
    BY <1>0 DEF NetTypes
  <2>2. \A r \in Resources : (IF busy[r] = 0 THEN 0 ELSE busy[r] - 1) \in Nat
    BY <2>1
  <2> QED  BY <1>0, <2>2
<1>2. agenda \in Seq(Events)
  BY <1>0 DEF NetTypes
<1>3. \A i \in DOMAIN agenda : /\ [agenda[i] EXCEPT !.t = @ - 1] \in Events
                               /\ [agenda[i] EXCEPT !.t = @ - 1].frame = agenda[i].frame
                               /\ [agenda[i] EXCEPT !.t = @ - 1].ev = agenda[i].ev
  <2> SUFFICES ASSUME NEW i \in DOMAIN agenda
               PROVE  /\ [agenda[i] EXCEPT !.t = @ - 1] \in Events
                      /\ [agenda[i] EXCEPT !.t = @ - 1].frame = agenda[i].frame
                      /\ [agenda[i] EXCEPT !.t = @ - 1].ev = agenda[i].ev
    BY Zenon
  <2> DEFINE e == agenda[i]
  <2>1. e \in Events /\ e.t # 0
    BY <1>0, <1>2 DEF Due
  <2> HIDE DEF e
  <2>2. /\ [e EXCEPT !.t = @ - 1] \in Events
        /\ [e EXCEPT !.t = @ - 1].frame = e.frame
        /\ [e EXCEPT !.t = @ - 1].ev = e.ev
    BY <2>1 DEF Events
  <2> QED  BY <2>2 DEF e
<1>4. DOMAIN agenda' = DOMAIN agenda
  BY <1>0
<1>5. \A i \in DOMAIN agenda : /\ agenda'[i] \in Events
                               /\ agenda'[i].frame = agenda[i].frame
                               /\ agenda'[i].ev = agenda[i].ev
  BY <1>0, <1>3
<1>6. agenda' \in Seq(Events)
  <2>1. DOMAIN agenda = 1 .. Len(agenda) /\ Len(agenda) \in Nat
    BY <1>2
  <2>2. agenda' \in [1 .. Len(agenda) -> Events]
    BY <1>0, <1>3, <2>1
  <2> QED  BY <2>1, <2>2
<1>7. FramesOf(agenda') = FramesOf(agenda) /\ Kinds(agenda') = Kinds(agenda)
  <2>1. FramesOf(agenda') = FramesOf(agenda)
    BY <1>4, <1>5, Zenon DEF FramesOf
  <2>2. \A i \in DOMAIN agenda : <<agenda'[i].frame, agenda'[i].ev>> = <<agenda[i].frame, agenda[i].ev>>
    BY <1>5
  <2>3. Kinds(agenda') = Kinds(agenda)
    BY <1>4, <2>2, Zenon DEF Kinds
  <2> QED  BY <2>1, <2>3
<1>8. Once(agenda) => Once(agenda')
  BY <1>4, <1>5 DEF Once
<1>9. EventsOK(agenda', queue', status', assembled')
  <2>1. Shape(agenda', queue, Buffers)
    BY <1>0, <1>7, <1>8 DEF TrafficInv, EventsOK, Shape
  <2>2. Has(agenda', queue, Buffers) = Has(agenda, queue, Buffers)
    BY <1>7 DEF Has
  <2> QED  BY <1>0, <2>1, <2>2 DEF TrafficInv, EventsOK, Unsent
<1>10. KindsOK(agenda', queue', at', status')
  BY <1>0, <1>7 DEF TrafficInv, KindsOK, AllKinds, Unsent
<1>11. /\ PlacesOK(content', at', status') /\ RoomOK(content')
      /\ AssembledOK(status', assembled') /\ SleepOK(queue', content', at')
  BY <1>0 DEF TrafficInv, Unsent
<1>12. TrafficInv'
  BY <1>0, <1>9, <1>10, <1>11, NextTraffic DEF Configured
<1>13. NetTypes'
  BY <1>0, <1>1, <1>6, NextTypes DEF NetTypes, Configured, Unsent
<1>14. TableInv'
  BY <1>0, NextTable DEF TableInv, Configured
<1> QED  BY <1>12, <1>13, <1>14 DEF NetInv

\* An error ends the run.
LEMMA Panicked ==
    ASSUME NetInv, NEW why, Panics(why)
    PROVE  NetInv'
<1>0. /\ NetTypes /\ TableInv /\ TrafficInv
      /\ nw' = nw /\ table' = table /\ steps' = steps /\ phase' = "error"
      /\ agenda' = agenda /\ queue' = queue /\ Unmoved /\ Unsent
  BY DEF NetInv, Panics, Fail, traffic, Unmoved, Unsent
<1>1. TrafficInv'
  BY <1>0, NextTraffic DEF TrafficInv, Unmoved, Unsent
<1>2. NetTypes'
  BY <1>0, NextTypes DEF NetTypes, Unmoved, Unsent
<1>3. TableInv'
  BY <1>0, NextTable DEF TableInv
<1> QED  BY <1>1, <1>2, <1>3 DEF NetInv

-----------------------------------------------------------------------------
(***************************************************************************)
(* A client that sends or tries to send.                                   *)
(***************************************************************************)
LEMMA HasFrames ==
    ASSUME NetTypes
    PROVE  \A f \in Has(agenda, queue, Buffers) : f \in Frames
<1>1. ASSUME NEW f \in FramesOf(agenda) PROVE f \in Frames
  <2>1. PICK i \in DOMAIN agenda : f = agenda[i].frame
    BY DEF FramesOf
  <2>2. agenda[i] \in Events
    BY DEF NetTypes
  <2> QED  BY <2>1, <2>2 DEF Events
<1>2. ASSUME NEW b \in Buffers, NEW f \in FramesOf(queue[b]) PROVE f \in Frames
  <2>1. PICK i \in DOMAIN queue[b] : f = queue[b][i].frame
    BY DEF FramesOf
  <2>2. queue[b] \in Seq(Waiters)
    BY DEF NetTypes
  <2>3. queue[b][i] \in Waiters
    BY <2>2
  <2> QED  BY <2>1, <2>3 DEF Waiters
<1> QED  BY <1>1, <1>2, HasIs

\* The client of message m calls TrySend, in its own time or in its retry event.
Sends(m, ag) ==
    \/ status[m] = "idle" /\ ag = agenda
    \/ Runs(<<m, 0>>, "retry") /\ ag = Others

LEMMA Sender ==
    ASSUME NetInv, NEW m \in Msgs, NEW ag, Sends(m, ag)
    PROVE  /\ ag \in Seq(Events) /\ Shape(ag, queue, Buffers)
           /\ status[m] \in {"idle", "trying"} /\ assembled[m] = {}
           /\ <<m, 0>> \in Frames /\ <<m, 0>> \notin Has(ag, queue, Buffers)
           /\ \A g \in Frames : g[1] # m =>
                    (g \in Has(ag, queue, Buffers) <=> g \in Has(agenda, queue, Buffers))
           /\ \A g \in Has(ag, queue, Buffers) : g \in Frames /\ g[1] # m
           /\ \A x \in AllKinds(ag, queue, Buffers) :
                    KindOK(x, at, status) /\ x[1] \in Frames /\ x[1][1] # m
<1>0. NetTypes /\ TrafficInv
  BY DEF NetInv
<1>1. nw \in Nets
  BY <1>0 DEF NetTypes
<1>2. <<m, 0>> \in Frames /\ <<m, 0>>[1] = m /\ <<m, 0>>[2] = 0
  BY <1>1, PacketShape
<1>3. /\ ag \in Seq(Events) /\ Shape(ag, queue, Buffers)
      /\ status[m] \in {"idle", "trying"}
      /\ <<m, 0>> \notin Has(ag, queue, Buffers)
      /\ \A g : g # <<m, 0>> =>
            (g \in Has(ag, queue, Buffers) <=> g \in Has(agenda, queue, Buffers))
      /\ AllKinds(ag, queue, Buffers) \subseteq AllKinds(agenda, queue, Buffers)
  <2>1. CASE status[m] = "idle" /\ ag = agenda
    <3>1. ~ Expected(<<m, 0>>, status, assembled)
      BY <1>2, <2>1 DEF Expected
    <3>2. <<m, 0>> \notin Has(agenda, queue, Buffers)
      BY <1>0, <1>2, <3>1 DEF TrafficInv, EventsOK
    <3> QED  BY <1>0, <2>1, <3>2 DEF NetTypes, TrafficInv, EventsOK
  <2>2. CASE Runs(<<m, 0>>, "retry") /\ ag = Others
    <3>1. Shape(agenda, queue, Buffers)
      BY <1>0 DEF TrafficInv, EventsOK
    <3>2. /\ Others \in Seq(Events)
          /\ Shape(Others, queue, Buffers)
          /\ <<m, 0>> \notin Has(Others, queue, Buffers)
          /\ Has(agenda, queue, Buffers) = Has(Others, queue, Buffers) \cup {<<m, 0>>}
          /\ AllKinds(Others, queue, Buffers) \subseteq AllKinds(agenda, queue, Buffers)
          /\ <<<<m, 0>>, "retry">> \in AllKinds(agenda, queue, Buffers)
      BY <1>0, <2>2, <3>1, RunEffect
    <3>3. KindOK(<<<<m, 0>>, "retry">>, at, status)
      BY <1>0, <3>2 DEF TrafficInv, KindsOK
    <3>4. status[m] = "trying"
      BY <3>3 DEF KindOK
    <3> QED  BY <2>2, <3>2, <3>4
  <2> QED  BY <2>1, <2>2 DEF Sends
<1>4. assembled[m] = {}
  BY <1>0, <1>3 DEF TrafficInv, AssembledOK
<1>5. ASSUME NEW g \in Has(ag, queue, Buffers) PROVE g \in Frames /\ g[1] # m
  <2>1. g # <<m, 0>> /\ g \in Has(agenda, queue, Buffers)
    BY <1>3
  <2>2. g \in Frames
    BY <1>0, <2>1, HasFrames
  <2>3. g[2] = 0 => g = <<g[1], 0>>
    BY <1>1, <2>2, PacketShape
  <2>4. Expected(g, status, assembled)
    BY <1>0, <2>1, <2>2 DEF TrafficInv, EventsOK
  <2>5. g[1] = m => g[2] = 0
    BY <1>3, <2>4 DEF Expected
  <2> QED  BY <2>1, <2>2, <2>3, <2>5
<1>6. \A g \in Frames : g[1] # m => g # <<m, 0>>
  OBVIOUS
<1>7. ASSUME NEW x \in AllKinds(ag, queue, Buffers)
      PROVE  KindOK(x, at, status) /\ x[1] \in Frames /\ x[1][1] # m
  <2>1. x[1] \in Has(ag, queue, Buffers)
    BY HasIs
  <2>2. KindOK(x, at, status)
    BY <1>0, <1>3 DEF TrafficInv, KindsOK
  <2> QED  BY <1>5, <2>1, <2>2
<1> QED  BY <1>2, <1>3, <1>4, <1>5, <1>6, <1>7

\* A kind that is right stays so when the messages and the packets of other
\* frames change.
LEMMA KindKept ==
    ASSUME nw \in Nets, NEW x, x[1] \in Frames, NEW a, NEW st, KindOK(x, a, st),
           NEW a2, NEW st2, st2[x[1][1]] = st[x[1][1]],
           x[1] \in Packets => a2[x[1]] = a[x[1]]
    PROVE  KindOK(x, a2, st2)
<1>1. x[1][2] # 0 => x[1] \in Packets
  BY PacketShape
<1>2. x[2] = "input" => x[1][2] # 0
  BY DEF KindOK
<1> QED  BY <1>1, <1>2 DEF KindOK

\* What is left to show when message m has been tried.
LEMMA Trying ==
    ASSUME NetInv, NEW m \in Msgs, NEW ag, Sends(m, ag),
           NEW ag2, NEW q2, Shape(ag2, q2, Buffers),
           Has(ag2, q2, Buffers) = Has(ag, queue, Buffers) \cup {<<m, 0>>},
           AllKinds(ag2, q2, Buffers) = AllKinds(ag, queue, Buffers) \cup {<<<<m, 0>>, "retry">>},
           NEW st, st = [status EXCEPT ![m] = "trying"]
    PROVE  /\ st \in [Msgs -> {"idle", "trying", "sent", "received"}]
           /\ EventsOK(ag2, q2, st, assembled) /\ KindsOK(ag2, q2, at, st)
           /\ PlacesOK(content, at, st) /\ AssembledOK(st, assembled)
<1>0. NetTypes /\ TrafficInv /\ nw \in Nets
  BY DEF NetInv, NetTypes
<1>1. /\ st \in [Msgs -> {"idle", "trying", "sent", "received"}]
      /\ st[m] = "trying" /\ \A k \in Msgs : k # m => st[k] = status[k]
  BY <1>0 DEF NetTypes
<1>2. /\ status[m] \in {"idle", "trying"} /\ assembled[m] = {}
      /\ <<m, 0>> \in Frames
      /\ \A g \in Frames : g[1] # m =>
                    (g \in Has(ag, queue, Buffers) <=> g \in Has(agenda, queue, Buffers))
      /\ \A g \in Has(ag, queue, Buffers) : g \in Frames /\ g[1] # m
      /\ \A x \in AllKinds(ag, queue, Buffers) :
                    KindOK(x, at, status) /\ x[1] \in Frames /\ x[1][1] # m
  BY Sender
<1>3. ASSUME NEW g \in Frames
      PROVE  Expected(g, st, assembled) <=> g \in Has(ag2, q2, Buffers)
  <2>1. g[1] \in Msgs /\ (g[2] = 0 => g = <<g[1], 0>>)
    BY <1>0, PacketShape
  <2>2. CASE g[1] # m
    <3>1. Expected(g, st, assembled) <=> Expected(g, status, assembled)
      BY <1>1, <2>1, <2>2 DEF Expected
    <3>2. Expected(g, status, assembled) <=> g \in Has(agenda, queue, Buffers)
      BY <1>0 DEF TrafficInv, EventsOK
    <3>3. g # <<m, 0>>
      BY <2>2
    <3> QED  BY <1>2, <2>2, <3>1, <3>2, <3>3
  <2>3. CASE g[1] = m /\ g[2] = 0
    <3>1. g = <<m, 0>>
      BY <2>1, <2>3
    <3> QED  BY <1>1, <2>3, <3>1 DEF Expected
  <2>4. CASE g[1] = m /\ g[2] # 0
    <3>1. ~ Expected(g, st, assembled)
      BY <1>1, <2>4 DEF Expected
    <3>2. g # <<m, 0>> /\ g \notin Has(ag, queue, Buffers)
      BY <1>2, <2>4
    <3> QED  BY <3>1, <3>2
  <2> QED  BY <2>2, <2>3, <2>4
<1>4. ASSUME NEW x \in AllKinds(ag2, q2, Buffers) PROVE KindOK(x, at, st)
  <2>1. CASE x \in AllKinds(ag, queue, Buffers)
    <3>1. KindOK(x, at, status) /\ x[1] \in Frames /\ x[1][1] # m
      BY <1>2, <2>1
    <3>2. st[x[1][1]] = status[x[1][1]]
      BY <1>0, <1>1, <3>1, PacketShape
    <3> QED  BY <1>0, <3>1, <3>2, KindKept
  <2>2. CASE x = <<<<m, 0>>, "retry">>
    <3>1. x[1] = <<m, 0>> /\ x[2] = "retry" /\ x[1][2] = 0 /\ x[1][1] = m
      BY <2>2
    <3> QED  BY <1>1, <3>1 DEF KindOK
  <2> QED  BY <2>1, <2>2
<1>5. PlacesOK(content, at, st)
  <2>1. \A p \in Packets : p[1] \in Msgs
    BY <1>0, PacketShape
  <2>2. \A p \in Packets : Stored(p, st) <=> Stored(p, status)
    BY <1>1, <1>2, <2>1 DEF Stored
  <2> QED  BY <1>0, <2>2 DEF TrafficInv, PlacesOK
<1>6. AssembledOK(st, assembled)
  BY <1>0, <1>1, <1>2 DEF TrafficInv, AssembledOK
<1> QED  BY <1>1, <1>3, <1>4, <1>5, <1>6 DEF EventsOK, KindsOK

\* The client has to come back after d cycles.
LEMMA ComesBack ==
    ASSUME NetInv, NEW m \in Msgs, NEW ag, Sends(m, ag), NEW d \in Nat,
           agenda' = Post(ag, <<m, 0>>, "retry", d), queue' = queue,
           status' = [status EXCEPT ![m] = "trying"], assembled' = assembled,
           Configured, Unmoved
    PROVE  NetInv'
<1> DEFINE x == [frame |-> <<m, 0>>, ev |-> "retry", t |-> d]
<1>0. NetTypes /\ TableInv /\ TrafficInv /\ nw' = nw
  BY DEF NetInv, Configured
<1>1. /\ ag \in Seq(Events) /\ Shape(ag, queue, Buffers)
      /\ <<m, 0>> \in Frames /\ <<m, 0>> \notin Has(ag, queue, Buffers)
  BY Sender
<1>2. x \in Events /\ x.frame = <<m, 0>> /\ x.ev = "retry" /\ agenda' = Append(ag, x)
  BY <1>1 DEF Events, Post
<1> HIDE DEF x
<1>3. /\ agenda' \in Seq(Events)
      /\ Shape(agenda', queue, Buffers)
      /\ Has(agenda', queue, Buffers) = Has(ag, queue, Buffers) \cup {<<m, 0>>}
      /\ AllKinds(agenda', queue, Buffers)
            = AllKinds(ag, queue, Buffers) \cup {<<<<m, 0>>, "retry">>}
  <2>1. x.frame \notin Has(ag, queue, Buffers)
    BY <1>1, <1>2
  <2>2. Posted(ag, x, queue, Buffers, Events)
    BY <1>1, <1>2, <2>1, PostEffect
  <2> QED  BY <1>2, <2>2 DEF Posted
<1>4. /\ status' \in [Msgs -> {"idle", "trying", "sent", "received"}]
      /\ EventsOK(agenda', queue', status', assembled) /\ KindsOK(agenda', queue', at, status')
      /\ PlacesOK(content, at, status') /\ AssembledOK(status', assembled)
  BY <1>3, Trying
<1>5. RoomOK(content') /\ SleepOK(queue', content', at')
  BY <1>0 DEF TrafficInv, Unmoved
<1>6. TrafficInv'
  BY <1>0, <1>4, <1>5, NextTraffic DEF Unmoved
<1>7. NetTypes'
  BY <1>0, <1>3, <1>4, NextTypes DEF NetTypes, Configured, Unmoved
<1>8. TableInv'
  BY <1>0, NextTable DEF TableInv, Configured
<1> QED  BY <1>6, <1>7, <1>8 DEF NetInv

\* The client is suspended at buffer b.
LEMMA WaitsToSend ==
    ASSUME NetInv, NEW m \in Msgs, NEW ag, Sends(m, ag), NEW b \in Buffers,
           ~ Fits(b, Required(m)), agenda' = ag,
           NEW x, x = [frame |-> <<m, 0>>, ev |-> "retry"], Suspends(b, x),
           status' = [status EXCEPT ![m] = "trying"], assembled' = assembled,
           Configured, Unmoved
    PROVE  NetInv'
<1>0. NetTypes /\ TableInv /\ TrafficInv /\ nw' = nw
  BY DEF NetInv, Configured
<1>1. /\ ag \in Seq(Events) /\ Shape(ag, queue, Buffers)
      /\ <<m, 0>> \in Frames /\ <<m, 0>> \notin Has(ag, queue, Buffers)
  BY Sender
<1>2. x \in Waiters /\ x.frame = <<m, 0>> /\ x.ev = "retry" /\ Suspends(b, x)
  BY <1>1 DEF Waiters
<1>3. /\ queue' \in [Buffers -> Seq(Waiters)]
      /\ Shape(agenda', queue', Buffers)
      /\ Has(agenda', queue', Buffers) = Has(ag, queue, Buffers) \cup {<<m, 0>>}
      /\ AllKinds(agenda', queue', Buffers)
            = AllKinds(ag, queue, Buffers) \cup {<<<<m, 0>>, "retry">>}
      /\ \A d \in Buffers : FramesOf(queue'[d]) = IF d = b THEN FramesOf(queue[d]) \cup {<<m, 0>>}
                                                           ELSE FramesOf(queue[d])
  <2>1. x.frame \notin Has(ag, queue, Buffers)
    BY <1>1, <1>2
  <2>2. PutToSleep(ag, b, x)
    BY <1>0, <1>1, <1>2, <2>1, SleepEffect
  <2> QED  BY <1>2, <2>2 DEF PutToSleep
<1>4. /\ status' \in [Msgs -> {"idle", "trying", "sent", "received"}]
      /\ EventsOK(agenda', queue', status', assembled) /\ KindsOK(agenda', queue', at, status')
      /\ PlacesOK(content, at, status') /\ AssembledOK(status', assembled)
  BY <1>3, Trying
<1>5. RoomOK(content')
  BY <1>0 DEF TrafficInv, Unmoved
<1>6. SleepOK(queue', content', at')
  <2>1. Blocked(<<m, 0>>, b, content[b], at)
    BY DEF Blocked, Fits, Bytes, BytesOf
  <2> QED  BY <1>0, <1>3, <2>1 DEF TrafficInv, SleepOK, Unmoved
<1>7. TrafficInv'
  BY <1>0, <1>4, <1>5, <1>6, NextTraffic DEF Unmoved
<1>8. NetTypes'
  BY <1>0, <1>1, <1>3, <1>4, NextTypes DEF NetTypes, Configured, Unmoved
<1>9. TableInv'
  BY <1>0, NextTable DEF TableInv, Configured
<1> QED  BY <1>7, <1>8, <1>9 DEF NetInv

\* A reason to sleep at a buffer holds as long as nothing leaves the buffer.
LEMMA BlockedKept ==
    ASSUME nw \in Nets, NEW f \in Frames, NEW b, NEW c, NEW c2, NEW a, NEW a2,
           Blocked(f, b, c, a), BytesOf(c) \in Nat, BytesOf(c2) \in Nat,
           BytesOf(c) <= BytesOf(c2),
           f \in Packets => a2[f] = a[f],
           f \in Packets /\ a[f] = b => c # <<>> /\ Head(c2) = Head(c)
    PROVE  Blocked(f, b, c2, a2)
<1>1. f[1] \in Msgs /\ (f[2] # 0 => f \in Packets)
  BY PacketShape
<1>2. nw.room \in Nat /\ NumPackets(f[1]) \in Nat /\ PacketSize(f[1]) \in Nat
  BY <1>1, MessageShape
<1>3. Required(f[1]) \in Nat
  BY <1>2 DEF Required
<1>4. CASE f[2] = 0
  <2>1. ~ (BytesOf(c) + Required(f[1]) <= nw.room)
    BY <1>4 DEF Blocked
  <2>2. ~ (BytesOf(c2) + Required(f[1]) <= nw.room)
    BY <1>2, <1>3, <2>1
  <2> QED  BY <1>4, <2>2 DEF Blocked
<1>5. CASE f[2] # 0 /\ a[f] = b
  <2>1. ~ (c # <<>> /\ Head(c) = f) /\ a2[f] = b /\ c # <<>> /\ Head(c2) = Head(c)
    BY <1>1, <1>5 DEF Blocked
  <2> QED  BY <1>5, <2>1 DEF Blocked
<1>6. CASE f[2] # 0 /\ a[f] # b
  <2>1. ~ (BytesOf(c) + PacketSize(f[1]) <= nw.room) /\ a2[f] # b
    BY <1>1, <1>6 DEF Blocked
  <2>2. ~ (BytesOf(c2) + PacketSize(f[1]) <= nw.room)
    BY <1>2, <2>1
  <2> QED  BY <1>6, <2>1, <2>2 DEF Blocked
<1> QED  BY <1>4, <1>5, <1>6

\* A packet with an event that is not direct is in the buffer it points to.
LEMMA SleeperStored ==
    ASSUME NetInv, NEW f \in Packets, f \in Has(agenda, queue, Buffers), nw.fix = 0
    PROVE  /\ Stored(f, status) /\ at[f] \in Buffers /\ f \in Range(content[at[f]])
           /\ content[at[f]] # <<>> /\ f \notin assembled[f[1]]
<1>0. NetTypes /\ TrafficInv /\ nw \in Nets
  BY DEF NetInv, NetTypes
<1>1. f \in Frames /\ f[2] # 0
  BY <1>0, PacketShape
<1>2. Expected(f, status, assembled)
  BY <1>0, <1>1 DEF TrafficInv, EventsOK
<1>3. Stored(f, status) /\ f \notin assembled[f[1]]
  BY <1>1, <1>2 DEF Expected, Stored
<1>4. at[f] \in Buffers /\ f \in Range(content[at[f]])
  BY <1>0, <1>3 DEF TrafficInv, PlacesOK
<1>5. content[at[f]] # <<>>
  BY <1>4 DEF Range
<1> QED  BY <1>3, <1>4, <1>5

\* What is known of a buffer.
LEMMA BufferFacts ==
    ASSUME NetInv, NEW b \in Buffers
    PROVE  /\ content[b] \in Seq(Packets) /\ IsInjective(content[b])
           /\ Bytes(b) = BytesOf(content[b]) /\ BytesOf(content[b]) \in Nat
           /\ BytesOf(content[b]) <= nw.room
           /\ \A f \in FramesOf(queue[b]) :
                /\ f \in Frames /\ f \in Has(agenda, queue, Buffers)
                /\ Blocked(f, b, content[b], at)
<1>0. NetTypes /\ TrafficInv /\ nw \in Nets
  BY DEF NetInv, NetTypes
<1>1. content[b] \in Seq(Packets)
  BY <1>0 DEF NetTypes
<1>2. IsInjective(content[b]) /\ BytesOf(content[b]) <= nw.room
  BY <1>0 DEF TrafficInv, PlacesOK, RoomOK
<1>3. BytesOf(content[b]) \in Nat
  BY <1>0, <1>1, <1>2, BytesIs
<1>4. Bytes(b) = BytesOf(content[b])
  BY DEF Bytes, BytesOf
<1>5. ASSUME NEW f \in FramesOf(queue[b])
      PROVE  /\ f \in Frames /\ f \in Has(agenda, queue, Buffers)
             /\ Blocked(f, b, content[b], at)
  <2>1. f \in Has(agenda, queue, Buffers)
    BY HasIs
  <2>2. Blocked(f, b, content[b], at)
    BY <1>0 DEF TrafficInv, SleepOK
  <2> QED  BY <1>0, <2>1, <2>2, HasFrames
<1> QED  BY <1>1, <1>2, <1>3, <1>4, <1>5

\* The events of the packets of a message that is sent.
MessageEvents(m, ev, d) ==
    [i \in 1 .. NumPackets(m) |-> [frame |-> <<m, i>>, ev |-> ev, t |-> d]]

LEMMA SentEvents ==
    ASSUME nw \in Nets, NEW m \in Msgs, NEW es, NEW ev \in {"output", "receive"}, NEW d \in Nat,
           es = MessageEvents(m, ev, d)
    PROVE  /\ es \in Seq(Events) /\ Once(es)
           /\ FramesOf(es) = PacketsOf(m)
           /\ \A x \in Kinds(es) : x[1] \in PacketsOf(m) /\ x[2] = ev
<1> DEFINE n == NumPackets(m)
<1>1. n \in Nat
  BY MessageShape
<1>2. \A i \in 1 .. n : <<m, i>> \in PacketsOf(m)
  BY DEF PacketsOf
<1>3. \A p \in PacketsOf(m) : p \in Frames /\ \E i \in 1 .. n : p = <<m, i>>
  <2>1. \A p \in PacketsOf(m) : p \in Frames
    BY PacketShape
  <2> QED  BY <2>1 DEF PacketsOf
<1> HIDE DEF n
<1>4. DOMAIN es = 1 .. n
  BY DEF n, MessageEvents
<1>5. \A i \in 1 .. n : es[i] = [frame |-> <<m, i>>, ev |-> ev, t |-> d]
  BY DEF n, MessageEvents
<1>6. \A i \in 1 .. n : es[i] \in Events /\ es[i].frame = <<m, i>> /\ es[i].ev = ev
  <2> SUFFICES ASSUME NEW i \in 1 .. n
               PROVE es[i] \in Events /\ es[i].frame = <<m, i>> /\ es[i].ev = ev
    OBVIOUS
  <2>1. <<m, i>> \in Frames
    BY <1>2, <1>3
  <2> DEFINE e == [frame |-> <<m, i>>, ev |-> ev, t |-> d]
  <2>2. e \in Events /\ e.frame = <<m, i>> /\ e.ev = ev
    BY <2>1 DEF Events
  <2>3. es[i] = e
    BY <1>5
  <2> HIDE DEF e
  <2> QED  BY <2>2, <2>3
<1>7. es \in Seq(Events)
  <2>1. es \in [1 .. n -> Events]
    BY <1>4, <1>6 DEF n, MessageEvents
  <2> QED  BY <1>1, <2>1
<1>8. Once(es)
  <2> SUFFICES ASSUME NEW i \in 1 .. n, NEW j \in 1 .. n, es[i].frame = es[j].frame PROVE i = j
    BY <1>4 DEF Once
  <2>1. <<m, i>> = <<m, j>>
    BY <1>6
  <2> QED  BY <2>1
<1>9. FramesOf(es) = PacketsOf(m)
  <2>1. \A f \in FramesOf(es) : f \in PacketsOf(m)
    BY <1>2, <1>4, <1>6 DEF FramesOf
  <2>2. ASSUME NEW p \in PacketsOf(m) PROVE p \in FramesOf(es)
    <3>1. PICK i \in 1 .. n : p = <<m, i>>
      BY <1>3
    <3>2. p = es[i].frame
      BY <1>6, <3>1
    <3> QED  BY <1>4, <3>2 DEF FramesOf
  <2> QED  BY <2>1, <2>2
<1>10. ASSUME NEW x \in Kinds(es) PROVE x[1] \in PacketsOf(m) /\ x[2] = ev
  <2>1. PICK i \in DOMAIN es : x = <<es[i].frame, es[i].ev>>
    BY DEF Kinds
  <2>2. x[1] = es[i].frame /\ x[2] = es[i].ev
    BY <2>1
  <2> QED  BY <1>2, <1>4, <1>6, <2>2
<1> QED  BY <1>7, <1>8, <1>9, <1>10

LEMMA SentEffect ==
    ASSUME NetInv, NEW m \in Msgs, NEW ag, Sends(m, ag),
           NEW ev \in {"output", "receive"}, ev = "output" => nw.fix = 0, NEW d \in Nat,
           agenda' = ag \o MessageEvents(m, ev, d), status' = [status EXCEPT ![m] = "sent"],
           \A p \in Packets : p[1] # m => at'[p] = at[p]
    PROVE  /\ status' \in [Msgs -> {"idle", "trying", "sent", "received"}]
           /\ status'[m] = "sent" /\ \A k \in Msgs : k # m => status'[k] = status[k]
           /\ agenda' \in Seq(Events)
           /\ EventsOK(agenda', queue, status', assembled) /\ KindsOK(agenda', queue, at', status')
           /\ AssembledOK(status', assembled)
<1> DEFINE es == MessageEvents(m, ev, d)
<1>0. NetTypes /\ TrafficInv /\ nw \in Nets
  BY DEF NetInv, NetTypes
<1>1. /\ status' \in [Msgs -> {"idle", "trying", "sent", "received"}]
      /\ status'[m] = "sent" /\ \A k \in Msgs : k # m => status'[k] = status[k]
  BY <1>0 DEF NetTypes
<1>2. /\ ag \in Seq(Events) /\ Shape(ag, queue, Buffers)
      /\ status[m] \in {"idle", "trying"} /\ assembled[m] = {}
      /\ <<m, 0>> \in Frames
      /\ \A g \in Frames : g[1] # m =>
                    (g \in Has(ag, queue, Buffers) <=> g \in Has(agenda, queue, Buffers))
      /\ \A g \in Has(ag, queue, Buffers) : g \in Frames /\ g[1] # m
      /\ \A x \in AllKinds(ag, queue, Buffers) :
                    KindOK(x, at, status) /\ x[1] \in Frames /\ x[1][1] # m
  BY Sender
<1>3. /\ es \in Seq(Events) /\ Once(es)
      /\ FramesOf(es) = PacketsOf(m)
      /\ \A x \in Kinds(es) : x[1] \in PacketsOf(m) /\ x[2] = ev
  BY <1>0, SentEvents
<1>4. \A p \in PacketsOf(m) : p \in Packets /\ p[1] = m /\ p[2] # 0
  BY <1>0, PacketShape
<1> HIDE DEF es
<1>5. FramesOf(es) \cap Has(ag, queue, Buffers) = {}
  BY <1>2, <1>3, <1>4
<1>6. /\ ag \o es \in Seq(Events)
      /\ Shape(ag \o es, queue, Buffers)
      /\ Has(ag \o es, queue, Buffers) = Has(ag, queue, Buffers) \cup FramesOf(es)
      /\ AllKinds(ag \o es, queue, Buffers) = AllKinds(ag, queue, Buffers) \cup Kinds(es)
  BY <1>2, <1>3, <1>5, PostAllEffect
<1>7. /\ agenda' \in Seq(Events)
      /\ Shape(agenda', queue, Buffers)
      /\ Has(agenda', queue, Buffers) = Has(ag, queue, Buffers) \cup PacketsOf(m)
      /\ AllKinds(agenda', queue, Buffers) = AllKinds(ag, queue, Buffers) \cup Kinds(es)
  BY <1>3, <1>6 DEF es
<1>8. ASSUME NEW g \in Frames
      PROVE  Expected(g, status', assembled) <=> g \in Has(agenda', queue, Buffers)
  <2>1. g[1] \in Msgs /\ (g[2] = 0 => g = <<g[1], 0>>) /\ (g[2] # 0 => g \in Packets)
    BY <1>0, PacketShape
  <2>2. CASE g[1] # m
    <3>1. Expected(g, status', assembled) <=> Expected(g, status, assembled)
      BY <1>1, <2>1, <2>2 DEF Expected
    <3>2. Expected(g, status, assembled) <=> g \in Has(agenda, queue, Buffers)
      BY <1>0 DEF TrafficInv, EventsOK
    <3>3. g \notin PacketsOf(m)
      BY <1>4, <2>2
    <3> QED  BY <1>2, <1>7, <2>2, <3>1, <3>2, <3>3
  <2>3. CASE g[1] = m /\ g[2] = 0
    <3>1. PacketsOf(m) # {}
      BY <1>0, PacketsFinite
    <3>2. ~ Expected(g, status', assembled)
      BY <1>1, <1>2, <2>3, <3>1 DEF Expected
    <3>3. g \notin Has(ag, queue, Buffers) /\ g \notin PacketsOf(m)
      BY <1>2, <1>4, <2>3
    <3> QED  BY <1>7, <3>2, <3>3
  <2>4. CASE g[1] = m /\ g[2] # 0
    <3>1. Expected(g, status', assembled)
      BY <1>1, <1>2, <2>4 DEF Expected
    <3>2. g \in PacketsOf(m)
      BY <1>0, <2>1, <2>4, PacketShape
    <3> QED  BY <1>7, <3>1, <3>2
  <2> QED  BY <2>2, <2>3, <2>4
<1>9. ASSUME NEW x \in AllKinds(agenda', queue, Buffers) PROVE KindOK(x, at', status')
  <2>1. CASE x \in AllKinds(ag, queue, Buffers)
    <3>1. KindOK(x, at, status) /\ x[1] \in Frames /\ x[1][1] # m
      BY <1>2, <2>1
    <3>2. status'[x[1][1]] = status[x[1][1]]
      BY <1>0, <1>1, <3>1, PacketShape
    <3>3. x[1] \in Packets => at'[x[1]] = at[x[1]]
      BY <3>1
    <3> QED  BY <1>0, <3>1, <3>2, <3>3, KindKept
  <2>2. CASE x \in Kinds(es)
    <3>1. x[1] \in PacketsOf(m) /\ x[2] = ev /\ x[1][2] # 0
      BY <1>3, <1>4, <2>2
    <3> QED  BY <3>1 DEF KindOK
  <2> QED  BY <1>7, <2>1, <2>2
<1>10. AssembledOK(status', assembled)
  BY <1>0, <1>1, <1>2 DEF TrafficInv, AssembledOK
<1> QED  BY <1>1, <1>7, <1>8, <1>9, <1>10 DEF EventsOK, KindsOK

\* A message that goes around the network.
LEMMA SentDirectly ==
    ASSUME NetInv, NEW m \in Msgs, NEW ag, Sends(m, ag), nw.fix > 0,
           agenda' = ag \o MessageEvents(m, "receive", nw.fix), queue' = queue,
           status' = [status EXCEPT ![m] = "sent"], assembled' = assembled,
           Configured, Unmoved
    PROVE  NetInv'
<1>0. NetTypes /\ TableInv /\ TrafficInv /\ nw' = nw /\ nw \in Nets
  BY DEF NetInv, Configured, NetTypes
<1>1. nw.fix \in Nat /\ nw.fix # 0
  BY <1>0, MessageShape
<1>2. /\ status' \in [Msgs -> {"idle", "trying", "sent", "received"}]
      /\ agenda' \in Seq(Events)
      /\ EventsOK(agenda', queue, status', assembled) /\ KindsOK(agenda', queue, at, status')
      /\ AssembledOK(status', assembled)
  <2>1. at' = at /\ \A p \in Packets : p[1] # m => at'[p] = at[p]
    BY DEF Unmoved
  <2>2. PICK ev \in {"output", "receive"} : ev = "receive"
    OBVIOUS
  <2>3. agenda' = ag \o MessageEvents(m, ev, nw.fix) /\ (ev = "output" => nw.fix = 0)
    BY <2>2
  <2>4. /\ status' \in [Msgs -> {"idle", "trying", "sent", "received"}]
        /\ agenda' \in Seq(Events)
        /\ EventsOK(agenda', queue, status', assembled) /\ KindsOK(agenda', queue, at', status')
        /\ AssembledOK(status', assembled)
    BY <1>1, <2>1, <2>3, SentEffect, Zenon
  <2> QED  BY <2>1, <2>4
<1>3. PlacesOK(content, at, status')
  BY <1>0, <1>1 DEF TrafficInv, PlacesOK, Stored
<1>4. RoomOK(content') /\ SleepOK(queue', content', at')
  BY <1>0 DEF TrafficInv, Unmoved
<1>5. TrafficInv'
  BY <1>0, <1>2, <1>3, <1>4, NextTraffic DEF Unmoved
<1>6. NetTypes'
  BY <1>0, <1>2, NextTypes DEF NetTypes, Configured, Unmoved
<1>7. TableInv'
  BY <1>0, NextTable DEF TableInv, Configured
<1> QED  BY <1>5, <1>6, <1>7 DEF NetInv

\* The packets of a message, as a sequence.
PacketSeq(m) == [i \in 1 .. NumPackets(m) |-> <<m, i>>]

LEMMA MessagePackets ==
    ASSUME nw \in Nets, NEW m \in Msgs, NEW ps, ps = PacketSeq(m)
    PROVE  ps \in Seq(Packets) /\ Range(ps) = PacketsOf(m) /\ IsInjective(ps)
<1> DEFINE n == NumPackets(m)
<1>1. n \in Nat
  BY MessageShape
<1>2. \A i \in 1 .. n : <<m, i>> \in PacketsOf(m)
  BY DEF PacketsOf
<1>3. \A p \in PacketsOf(m) : p \in Packets
  BY PacketShape
<1>4. \A p \in PacketsOf(m) : \E i \in 1 .. n : p = <<m, i>>
  BY DEF PacketsOf
<1> HIDE DEF n
<1>5. DOMAIN ps = 1 .. n /\ \A i \in 1 .. n : ps[i] = <<m, i>>
  BY DEF n, PacketSeq
<1>6. ps \in [1 .. n -> Packets]
  BY <1>2, <1>3 DEF n, PacketSeq
<1>7. ps \in Seq(Packets)
  BY <1>1, <1>6
<1>8. Range(ps) = PacketsOf(m)
  <2>1. \A p \in Range(ps) : p \in PacketsOf(m)
    BY <1>2, <1>5 DEF Range
  <2>2. \A p \in PacketsOf(m) : p \in Range(ps)
    BY <1>4, <1>5 DEF Range
  <2> QED  BY <2>1, <2>2
<1>9. \A i, j \in 1 .. n : ps[i] = ps[j] => i = j
  BY <1>5
<1> QED  BY <1>5, <1>7, <1>8, <1>9 DEF IsInjective

\* A message that goes into buffer b.
IntoBuffer(m, b) ==
    /\ content' = [content EXCEPT ![b] = @ \o PacketSeq(m)]
    /\ at' = [p \in Packets |-> IF p[1] = m THEN b ELSE at[p]]
    /\ busy' \in [Resources -> Nat]

LEMMA SentToBuffer ==
    ASSUME NetInv, NEW m \in Msgs, NEW ag, Sends(m, ag), nw.fix = 0,
           NEW b \in Buffers, Fits(b, Required(m)),
           agenda' = ag \o MessageEvents(m, "output", 1), queue' = queue,
           IntoBuffer(m, b),
           status' = [status EXCEPT ![m] = "sent"], assembled' = assembled,
           Configured
    PROVE  NetInv'
<1> DEFINE ps == PacketSeq(m)
           c == content[b]
<1>0. NetTypes /\ TableInv /\ TrafficInv /\ nw' = nw /\ nw \in Nets
  BY DEF NetInv, Configured, NetTypes
<1>1. /\ \A p \in Packets : p[1] # m => at'[p] = at[p]
      /\ \A p \in Packets : p[1] = m => at'[p] = b
      /\ at' \in [Packets -> Buffers \cup {NoBuffer}]
  BY <1>0 DEF NetTypes, IntoBuffer
<1>2. /\ status' \in [Msgs -> {"idle", "trying", "sent", "received"}]
      /\ status'[m] = "sent" /\ \A k \in Msgs : k # m => status'[k] = status[k]
      /\ agenda' \in Seq(Events)
      /\ EventsOK(agenda', queue, status', assembled) /\ KindsOK(agenda', queue, at', status')
      /\ AssembledOK(status', assembled)
  <2>1. \A p \in Packets : p[1] # m => at'[p] = at[p]
    BY <1>1
  <2>2. PICK ev \in {"output", "receive"} : ev = "output"
    OBVIOUS
  <2>3. PICK d \in Nat : d = 1
    OBVIOUS
  <2>4. agenda' = ag \o MessageEvents(m, ev, d)
    BY <2>2, <2>3
  <2>5. ev = "output" => nw.fix = 0
    OBVIOUS
  <2> QED  BY <2>1, <2>4, <2>5, SentEffect, Zenon
<1>3. /\ c \in Seq(Packets) /\ IsInjective(c) /\ Bytes(b) = BytesOf(c)
      /\ BytesOf(c) \in Nat
  BY BufferFacts
<1>4. ps \in Seq(Packets) /\ Range(ps) = PacketsOf(m) /\ IsInjective(ps)
  BY <1>0, MessagePackets
<1>5. \A p \in PacketsOf(m) : p \in Packets /\ p[1] = m
  BY <1>0, PacketShape
<1>6. \A p \in Packets : p[1] \in Msgs /\ p \in PacketsOf(p[1])
  BY <1>0, PacketShape
<1>7. status[m] \in {"idle", "trying"} /\ \A g \in Has(ag, queue, Buffers) : g[1] # m
  BY Sender
<1>8. \A d \in Buffers : \A p \in PacketsOf(m) : p \notin Range(content[d])
  BY <1>0, <1>5, <1>7 DEF TrafficInv, PlacesOK, Stored
<1>9. /\ content' \in [Buffers -> Seq(Packets)]
      /\ content'[b] = c \o ps /\ \A d \in Buffers : d # b => content'[d] = content[d]
  <2>1. content \in [Buffers -> Seq(Packets)]
    BY <1>0 DEF NetTypes
  <2> HIDE DEF ps
  <2>2. content[b] \o ps \in Seq(Packets)
    BY <1>3, <1>4
  <2>3. content' = [content EXCEPT ![b] = content[b] \o ps]
    BY DEF ps, IntoBuffer
  <2> QED  BY <2>1, <2>2, <2>3
<1> HIDE DEF ps, c
<1>10. /\ c \o ps \in Seq(Packets) /\ Range(c \o ps) = Range(c) \cup PacketsOf(m)
       /\ IsInjective(c \o ps)
  <2>1. Range(c) \cap Range(ps) = {}
    BY <1>4, <1>8 DEF c
  <2> QED  BY <1>3, <1>4, <2>1, ConcatRange
<1>11. BytesOf(c \o ps) = BytesOf(c) + Required(m) /\ BytesOf(c \o ps) \in Nat
       /\ BytesOf(c) <= BytesOf(c \o ps)
  <2>1. Range(c) \cap PacketsOf(m) = {}
    BY <1>8 DEF c
  <2>2. BytesOf(c \o ps) = BytesOf(c) + Required(m)
    BY <1>0, <1>3, <1>10, <2>1, BytesAppendAll
  <2>3. BytesOf(c) <= BytesOf(c \o ps) /\ BytesOf(c \o ps) \in Nat
    BY <1>0, <1>3, <1>10, BytesMonotone
  <2> QED  BY <2>2, <2>3
<1>12. PlacesOK(content', at', status')
  <2>1. \A d \in Buffers : IsInjective(content'[d])
    BY <1>0, <1>9, <1>10 DEF TrafficInv, PlacesOK
  <2>2. \A p \in Packets : p[1] # m => (Stored(p, status') <=> Stored(p, status))
    BY <1>2, <1>6 DEF Stored
  <2>3. \A p \in Packets : p[1] = m => Stored(p, status')
    BY <1>2 DEF Stored
  <2>4. ASSUME NEW p \in Packets, NEW d \in Buffers
        PROVE  p \in Range(content'[d]) <=> Stored(p, status') /\ at'[p] = d
    <3>1. p \in Range(content[d]) <=> Stored(p, status) /\ at[p] = d
      BY <1>0 DEF TrafficInv, PlacesOK
    <3>2. p[1] = m <=> p \in PacketsOf(m)
      BY <1>5, <1>6
    <3>3. CASE d = b
      <4>1. p \in Range(content'[d]) <=> p \in Range(content[d]) \/ p[1] = m
        BY <1>9, <1>10, <3>2, <3>3 DEF c
      <4> QED  BY <1>1, <2>2, <2>3, <3>1, <3>3, <4>1
    <3>4. CASE d # b
      <4>1. content'[d] = content[d]
        BY <1>9, <3>4
      <4>2. p[1] = m => p \notin Range(content[d])
        BY <1>8, <3>2
      <4>3. CASE p[1] = m
        BY <1>1, <3>4, <4>1, <4>2, <4>3
      <4>4. CASE p[1] # m
        BY <1>1, <2>2, <3>1, <4>1, <4>4
      <4> QED  BY <4>3, <4>4
    <3> QED  BY <3>3, <3>4
  <2>5. \A p \in Packets : Stored(p, status') => at'[p] \in Buffers
    BY <1>0, <1>1, <2>2 DEF TrafficInv, PlacesOK
  <2> QED  BY <2>1, <2>4, <2>5 DEF PlacesOK
<1>13. RoomOK(content')
  <2>1. BytesOf(c) + Required(m) <= nw.room
    BY <1>3 DEF Fits
  <2>2. BytesOf(content'[b]) <= nw.room
    BY <1>9, <1>11, <2>1
  <2> QED  BY <1>0, <1>9, <2>2 DEF TrafficInv, RoomOK
<1>14. SleepOK(queue', content', at')
  <2> SUFFICES ASSUME NEW d \in Buffers, NEW f \in FramesOf(queue[d])
               PROVE  Blocked(f, d, content'[d], at')
    BY DEF SleepOK
  <2>1. /\ f \in Frames /\ f \in Has(agenda, queue, Buffers)
        /\ Blocked(f, d, content[d], at) /\ BytesOf(content[d]) \in Nat
    BY BufferFacts
  <2>2. f[1] # m
    BY <1>7, HasIs
  <2>3. f \in Packets => at'[f] = at[f]
    BY <1>1, <2>2
  <2>4. BytesOf(content'[d]) \in Nat /\ BytesOf(content[d]) <= BytesOf(content'[d])
    <3>1. CASE d = b
      BY <1>9, <1>11, <3>1 DEF c
    <3>2. CASE d # b
      BY <1>9, <2>1, <3>2
    <3> QED  BY <3>1, <3>2
  <2>5. ASSUME f \in Packets, at[f] = d
        PROVE  content[d] # <<>> /\ Head(content'[d]) = Head(content[d])
    <3>1. content[d] # <<>>
      BY <2>1, <2>5, SleeperStored
    <3>2. CASE d = b
      <4>1. c # <<>>
        BY <3>1, <3>2 DEF c
      <4>2. Head(c \o ps) = Head(c)
        BY <1>3, <1>4, <4>1
      <4> QED  BY <1>9, <3>1, <3>2, <4>2 DEF c
    <3>3. CASE d # b
      BY <1>9, <3>1, <3>3
    <3> QED  BY <3>2, <3>3
  <2> QED  BY <1>0, <2>1, <2>3, <2>4, <2>5, BlockedKept
<1>15. TrafficInv'
  BY <1>0, <1>2, <1>12, <1>13, <1>14, NextTraffic
<1>16. NetTypes'
  BY <1>0, <1>1, <1>2, <1>9, NextTypes DEF NetTypes, Configured, IntoBuffer
<1>17. TableInv'
  BY <1>0, NextTable DEF TableInv, Configured
<1> QED  BY <1>15, <1>16, <1>17 DEF NetInv

-----------------------------------------------------------------------------
(***************************************************************************)
(* A packet moves to another buffer.                                       *)
(***************************************************************************)
\* Packet p leaves buffer b and has event ev next.
Leaves(p, b, ev, l) ==
    /\ queue' = [queue EXCEPT ![b] = <<>>]
    /\ agenda' = Post(Woken(Others, <<b>>), p, ev, l)

\* The events of a move: the waiters of the buffer that is left are woken up.
LEMMA MoveEvents ==
    ASSUME NetInv, NEW p \in Packets, NEW ev, Runs(p, ev), NEW b \in Buffers,
           NEW ev2 \in {"output", "input"}, NEW l \in Nat, Leaves(p, b, ev2, l)
    PROVE  /\ agenda' \in Seq(Events) /\ queue' \in [Buffers -> Seq(Waiters)]
           /\ Shape(agenda', queue', Buffers)
           /\ Has(agenda', queue', Buffers) = Has(agenda, queue, Buffers)
           /\ \A x \in AllKinds(agenda', queue', Buffers) :
                \/ x = <<p, ev2>>
                \/ x \in AllKinds(agenda, queue, Buffers) /\ x[1] # p /\ x[1] \in Frames
           /\ FramesOf(queue'[b]) = {}
           /\ \A d \in Buffers : d # b => FramesOf(queue'[d]) = FramesOf(queue[d])
           /\ \A d \in Buffers : p \notin FramesOf(queue[d])
<1> DEFINE bs == <<b>>
           w == Woken(Others, bs)
           x == [frame |-> p, ev |-> ev2, t |-> l]
<1>0. NetTypes /\ TrafficInv /\ nw \in Nets
  BY DEF NetInv, NetTypes
<1>1. Shape(agenda, queue, Buffers)
  BY <1>0 DEF TrafficInv, EventsOK
<1>2. /\ Others \in Seq(Events) /\ p \in Frames
      /\ Shape(Others, queue, Buffers)
      /\ p \notin Has(Others, queue, Buffers)
      /\ Has(agenda, queue, Buffers) = Has(Others, queue, Buffers) \cup {p}
      /\ AllKinds(Others, queue, Buffers) \subseteq AllKinds(agenda, queue, Buffers)
  BY <1>0, <1>1, RunEffect
<1>3. bs \in Seq(Buffers) /\ Range(bs) = {b}
  <2>1. DOMAIN bs = {1} /\ bs[1] = b
    OBVIOUS
  <2>2. Range(bs) = {b}
    BY <2>1, Zenon DEF Range
  <2> QED  BY <2>2
<1>4. Emptied(bs)
  <2>1. DOMAIN queue = Buffers
    BY <1>0 DEF NetTypes
  <2> QED  BY <1>3, <2>1 DEF Emptied, Leaves
<1>5. x \in Events /\ x.frame = p /\ x.ev = ev2 /\ agenda' = Append(w, x)
  BY <1>2 DEF Events, Post, Leaves
<1> HIDE DEF bs, x
<1>6. /\ w \in Seq(Events)
      /\ queue' \in [Buffers -> Seq(Waiters)]
      /\ Shape(w, queue', Buffers)
      /\ Has(w, queue', Buffers) = Has(Others, queue, Buffers)
      /\ AllKinds(w, queue', Buffers) \subseteq AllKinds(Others, queue, Buffers)
      /\ \A d \in Buffers : d \in Range(bs) => FramesOf(queue'[d]) = {}
      /\ \A d \in Buffers : d \notin Range(bs) => FramesOf(queue'[d]) = FramesOf(queue[d])
  BY <1>0, <1>2, <1>3, <1>4, WakeStep DEF WokenUp
<1> HIDE DEF w
<1>7. x.frame \notin Has(w, queue', Buffers)
  BY <1>2, <1>5, <1>6
<1>8. /\ Append(w, x) \in Seq(Events)
      /\ Shape(Append(w, x), queue', Buffers)
      /\ Has(Append(w, x), queue', Buffers) = Has(w, queue', Buffers) \cup {x.frame}
      /\ AllKinds(Append(w, x), queue', Buffers)
            = AllKinds(w, queue', Buffers) \cup {<<x.frame, x.ev>>}
  BY <1>5, <1>6, <1>7, PostEffect DEF Posted
<1>9. ASSUME NEW y \in AllKinds(agenda', queue', Buffers)
      PROVE  \/ y = <<p, ev2>>
             \/ y \in AllKinds(agenda, queue, Buffers) /\ y[1] # p /\ y[1] \in Frames
  <2>1. y = <<p, ev2>> \/ y \in AllKinds(Others, queue, Buffers)
    BY <1>5, <1>6, <1>8
  <2>2. y \in AllKinds(Others, queue, Buffers) => y[1] \in Has(Others, queue, Buffers)
    BY HasIs
  <2> QED  BY <1>0, <1>2, <2>1, <2>2, HasFrames
<1>10. \A d \in Buffers : p \notin FramesOf(queue[d])
  BY <1>2, HasIs
<1>11. Has(agenda', queue', Buffers) = Has(agenda, queue, Buffers)
  BY <1>2, <1>5, <1>6, <1>8
<1> QED  BY <1>3, <1>5, <1>6, <1>8, <1>9, <1>10, <1>11

LEMMA LatencyType ==
    ASSUME nw \in Nets, NEW p \in Packets, NEW width \in Nat \ {0}
    PROVE  Latency(p, width) \in Nat
<1> DEFINE k == PacketSize(p[1]) - 1
<1>1. k \in Nat
  BY MessageShape, PacketShape
<1>2. Latency(p, width) = (k \div width) + 1
  BY DEF Latency
<1> HIDE DEF k
<1>3. k \div width \in Nat
  BY <1>1
<1> QED  BY <1>2, <1>3

\* Packet p, the head of the buffer it points to, moves to buffer d.
LEMMA Moved ==
    ASSUME NetInv, NEW p \in Packets, NEW ev \in {"output", "input"}, Runs(p, ev),
           NEW b, b = at[p], IsHead(p, b), NEW d \in Buffers, d # b,
           Fits(d, PacketSize(p[1])),
           NEW ev2 \in {"output", "input"}, ev2 = "input" => d \in InBuffers(nw),
           NEW width \in Nat \ {0}, NEW resources, Move(p, b, d, resources, ev2, width),
           Configured, Unsent
    PROVE  NetInv'
<1>0. NetTypes /\ TableInv /\ TrafficInv /\ nw' = nw /\ nw \in Nets
  BY DEF NetInv, Configured, NetTypes
<1>1. nw.fix = 0 /\ p \in Has(agenda, queue, Buffers) /\ p[2] # 0
  <2>1. Shape(agenda, queue, Buffers)
    BY <1>0 DEF TrafficInv, EventsOK
  <2>2. /\ <<p, ev>> \in AllKinds(agenda, queue, Buffers)
        /\ Has(agenda, queue, Buffers) = Has(Others, queue, Buffers) \cup {p}
    BY <1>0, <2>1, RunEffect
  <2>3. KindOK(<<p, ev>>, at, status)
    BY <1>0, <2>2 DEF TrafficInv, KindsOK
  <2>4. nw.fix = 0
    BY <2>3 DEF KindOK
  <2> QED  BY <1>0, <2>2, <2>4, PacketShape
<1>2. b \in Buffers /\ Stored(p, status) /\ p \in Range(content[b])
  BY <1>1, SleeperStored
<1> DEFINE l == Latency(p, width)
<1>3. l \in Nat
  BY <1>0, LatencyType
<1>4. /\ queue' = [queue EXCEPT ![b] = <<>>]
      /\ agenda' = Post(Woken(Others, <<b>>), p, ev2, l)
      /\ content' = [content EXCEPT ![b] = Tail(@), ![d] = Append(@, p)]
      /\ at' = [at EXCEPT ![p] = d]
      /\ busy' = [r \in Resources |->
                    IF r \in resources \cup {Read(b), Write(d), PacketBusy(p)}
                    THEN l ELSE busy[r]]
  BY DEF Move
<1> HIDE DEF l
<1>5. /\ agenda' \in Seq(Events) /\ queue' \in [Buffers -> Seq(Waiters)]
      /\ Shape(agenda', queue', Buffers)
      /\ Has(agenda', queue', Buffers) = Has(agenda, queue, Buffers)
      /\ \A x \in AllKinds(agenda', queue', Buffers) :
                \/ x = <<p, ev2>>
                \/ x \in AllKinds(agenda, queue, Buffers) /\ x[1] # p /\ x[1] \in Frames
      /\ FramesOf(queue'[b]) = {}
      /\ \A e \in Buffers : e # b => FramesOf(queue'[e]) = FramesOf(queue[e])
      /\ \A e \in Buffers : p \notin FramesOf(queue[e])
  BY <1>2, <1>3, <1>4, MoveEvents DEF Leaves
<1>6. /\ content[b] \in Seq(Packets) /\ IsInjective(content[b])
      /\ BytesOf(content[b]) \in Nat /\ BytesOf(content[b]) <= nw.room
      /\ content[d] \in Seq(Packets) /\ IsInjective(content[d])
      /\ BytesOf(content[d]) \in Nat /\ Bytes(d) = BytesOf(content[d])
  BY <1>2, BufferFacts
<1>7. content[b] # <<>> /\ Head(content[b]) = p
  BY DEF IsHead
<1>8. p \notin Range(content[d])
  BY <1>0 DEF TrafficInv, PlacesOK
<1> DEFINE cb == Tail(content[b])
           cd == Append(content[d], p)
<1>9. /\ content'[b] = cb /\ content'[d] = cd
      /\ \A e \in Buffers : e # b /\ e # d => content'[e] = content[e]
      /\ DOMAIN content' = Buffers
  <2>1. DOMAIN content = Buffers
    BY <1>0 DEF NetTypes
  <2> QED  BY <1>2, <1>4, <2>1
<1>10. cb \in Seq(Packets) /\ IsInjective(cb) /\ Range(cb) = Range(content[b]) \ {p}
  BY <1>6, <1>7, TailRange
<1>11. cd \in Seq(Packets) /\ IsInjective(cd) /\ Range(cd) = Range(content[d]) \cup {p}
  BY <1>6, <1>8, AppendRange
<1> HIDE DEF cb, cd
<1>12. /\ at' \in [Packets -> Buffers \cup {NoBuffer}]
       /\ at'[p] = d /\ \A q \in Packets : q # p => at'[q] = at[q]
  BY <1>0, <1>4 DEF NetTypes
<1>13. content' \in [Buffers -> Seq(Packets)]
  <2>1. \A e \in Buffers : content[e] \in Seq(Packets)
    BY <1>0 DEF NetTypes
  <2>2. \A e \in Buffers : content'[e] \in Seq(Packets)
    BY <1>9, <1>10, <1>11, <2>1
  <2>3. content' = [e \in Buffers |-> content'[e]]
    <3>1. DOMAIN content = Buffers
      BY <1>0 DEF NetTypes
    <3> QED  BY <1>4, <3>1
  <2> QED  BY <2>2, <2>3
<1>14. busy' \in [Resources -> Nat]
  <2>1. \A r \in Resources : busy[r] \in Nat
    BY <1>0 DEF NetTypes
  <2> QED  BY <1>3, <1>4, <2>1
<1>15. EventsOK(agenda', queue', status', assembled')
  BY <1>0, <1>5 DEF TrafficInv, EventsOK, Unsent
<1>16. KindsOK(agenda', queue', at', status')
  <2> SUFFICES ASSUME NEW x \in AllKinds(agenda', queue', Buffers)
               PROVE  KindOK(x, at', status)
    BY DEF KindsOK, Unsent
  <2>1. CASE x = <<p, ev2>>
    <3>1. x[1] = p /\ x[2] = ev2
      BY <2>1
    <3> QED  BY <1>1, <1>12, <3>1 DEF KindOK
  <2>2. CASE x \in AllKinds(agenda, queue, Buffers) /\ x[1] # p /\ x[1] \in Frames
    <3>1. KindOK(x, at, status)
      BY <1>0, <2>2 DEF TrafficInv, KindsOK
    <3>2. x[1] \in Packets => at'[x[1]] = at[x[1]]
      BY <1>12, <2>2
    <3> QED  BY <1>0, <2>2, <3>1, <3>2, KindKept
  <2> QED  BY <1>5, <2>1, <2>2
<1>17. PlacesOK(content', at', status')
  <2>1. \A e \in Buffers : IsInjective(content'[e])
    BY <1>0, <1>9, <1>10, <1>11 DEF TrafficInv, PlacesOK
  <2>2. ASSUME NEW q \in Packets, NEW e \in Buffers
        PROVE  q \in Range(content'[e]) <=> Stored(q, status) /\ at'[q] = e
    <3>1. q \in Range(content[e]) <=> Stored(q, status) /\ at[q] = e
      BY <1>0 DEF TrafficInv, PlacesOK
    <3>2. CASE e = b
      BY <1>2, <1>9, <1>10, <1>12, <3>1, <3>2
    <3>3. CASE e = d
      BY <1>2, <1>9, <1>11, <1>12, <3>1, <3>3
    <3>4. CASE e # b /\ e # d
      BY <1>9, <1>12, <3>1, <3>4
    <3> QED  BY <3>2, <3>3, <3>4
  <2>3. \A q \in Packets : Stored(q, status) => at'[q] \in Buffers
    BY <1>0, <1>12 DEF TrafficInv, PlacesOK
  <2> QED  BY <2>1, <2>2, <2>3 DEF PlacesOK, Unsent
<1>18. BytesOf(cb) <= BytesOf(content[b]) /\ BytesOf(cb) \in Nat
  <2>1. Range(cb) \subseteq Range(content[b])
    BY <1>10
  <2> QED  BY <1>0, <1>6, <1>10, <2>1, BytesMonotone
<1>19. /\ BytesOf(cd) = BytesOf(content[d]) + PacketSize(p[1])
       /\ BytesOf(content[d]) <= BytesOf(cd) /\ BytesOf(cd) \in Nat
  <2>1. BytesOf(cd) = BytesOf(content[d]) + PacketSize(p[1])
    BY <1>0, <1>6, <1>8, <1>11, BytesAppend
  <2>2. BytesOf(content[d]) <= BytesOf(cd) /\ BytesOf(cd) \in Nat
    BY <1>0, <1>6, <1>11, BytesMonotone
  <2> QED  BY <2>1, <2>2
<1>20. RoomOK(content')
  <2>1. BytesOf(cb) <= nw.room
    <3>1. nw.room \in Nat
      BY <1>0, MessageShape
    <3> QED  BY <1>6, <1>18, <3>1
  <2>2. BytesOf(cd) <= nw.room
    BY <1>6, <1>19 DEF Fits
  <2>3. \A e \in Buffers : BytesOf(content[e]) <= nw.room
    BY <1>0 DEF TrafficInv, RoomOK
  <2> QED  BY <1>9, <2>1, <2>2, <2>3 DEF RoomOK
<1>21. SleepOK(queue', content', at')
  <2> SUFFICES ASSUME NEW e \in Buffers, NEW f \in FramesOf(queue'[e])
               PROVE  Blocked(f, e, content'[e], at')
    BY DEF SleepOK
  <2>1. e # b /\ f \in FramesOf(queue[e]) /\ f # p
    BY <1>5
  <2>2. /\ f \in Frames /\ f \in Has(agenda, queue, Buffers)
        /\ Blocked(f, e, content[e], at) /\ BytesOf(content[e]) \in Nat
    BY <2>1, BufferFacts
  <2>3. f \in Packets => at'[f] = at[f]
    BY <1>12, <2>1
  <2>4. BytesOf(content'[e]) \in Nat /\ BytesOf(content[e]) <= BytesOf(content'[e])
    <3>1. CASE e = d
      BY <1>9, <1>19, <3>1
    <3>2. CASE e # d
      BY <1>9, <2>1, <2>2, <3>2
    <3> QED  BY <3>1, <3>2
  <2>5. ASSUME f \in Packets, at[f] = e
        PROVE  content[e] # <<>> /\ Head(content'[e]) = Head(content[e])
    <3>1. content[e] # <<>>
      BY <1>1, <2>2, <2>5, SleeperStored
    <3>2. CASE e = d
      <4>1. Head(cd) = Head(content[d])
        BY <1>6, <3>1, <3>2 DEF cd
      <4> QED  BY <1>9, <3>1, <3>2, <4>1
    <3>3. CASE e # d
      BY <1>9, <2>1, <3>1, <3>3
    <3> QED  BY <3>2, <3>3
  <2> QED  BY <1>0, <2>2, <2>3, <2>4, <2>5, BlockedKept
<1>22. AssembledOK(status', assembled')
  BY <1>0 DEF TrafficInv, Unsent
<1>23. TrafficInv'
  BY <1>0, <1>15, <1>16, <1>17, <1>20, <1>21, <1>22, NextTraffic
<1>24. NetTypes'
  BY <1>0, <1>5, <1>12, <1>13, <1>14, NextTypes DEF NetTypes, Configured, Unsent
<1>25. TableInv'
  BY <1>0, NextTable DEF TableInv, Configured
<1> QED  BY <1>23, <1>24, <1>25 DEF NetInv

-----------------------------------------------------------------------------
(***************************************************************************)
(* A packet or a message is received.                                      *)
(***************************************************************************)
\* Assemble compares numbers; this is what they say about the packets.
LEMMA AssembleIs ==
    ASSUME NetTypes, NEW p \in Packets
    PROVE  /\ p[1] \in Msgs /\ p \in PacketsOf(p[1])
           /\ assembled[p[1]] \cup {p} \in SUBSET PacketsOf(p[1])
           /\ Assemble(p) <=> assembled[p[1]] \cup {p} = PacketsOf(p[1])
<1> DEFINE m == p[1]
           S == assembled[m] \cup {p}
<1>1. nw \in Nets
  BY DEF NetTypes
<1>2. m \in Msgs /\ p \in PacketsOf(m)
  BY <1>1, PacketShape
<1>3. S \in SUBSET PacketsOf(m)
  BY <1>2 DEF NetTypes
<1>4. IsFiniteSet(PacketsOf(m)) /\ Cardinality(PacketsOf(m)) = NumPackets(m)
  BY <1>1, <1>2, PacketsFinite
<1>5. Assemble(p) <=> Cardinality(S) = NumPackets(m)
  BY DEF Assemble
<1> HIDE DEF m, S
<1>6. Cardinality(S) = Cardinality(PacketsOf(m)) <=> S = PacketsOf(m)
  BY <1>3, <1>4, FS_Subset
<1> QED  BY <1>2, <1>3, <1>4, <1>5, <1>6 DEF m, S

\* A packet is assembled, and event "arrived" of the client follows if it is the
\* last one.
Collects(p) ==
    /\ assembled' = [assembled EXCEPT ![p[1]] = @ \cup {p}]
    /\ agenda' = IF Assemble(p) THEN Post(Others, <<p[1], 0>>, "arrived", 0) ELSE Others

\* What assembling packet p does to the events and the assembled packets.
LEMMA CollectEffect ==
    ASSUME NetInv, NEW p \in Packets, Runs(p, "receive"), p \notin assembled[p[1]], Collects(p)
    PROVE  LET m == p[1]
               f == <<m, 0>>
               S == assembled[m] \cup {p}
           IN  /\ status[m] = "sent" /\ assembled[m] # PacketsOf(m)
               /\ p \notin Has(Others, queue, Buffers) /\ f \notin Has(Others, queue, Buffers)
               /\ agenda' \in Seq(Events) /\ Shape(agenda', queue, Buffers)
               /\ \A g : g \in Has(agenda', queue, Buffers) <=>
                            g \in Has(Others, queue, Buffers) \/ (Assemble(p) /\ g = f)
               /\ \A y : y \in AllKinds(agenda', queue, Buffers) =>
                            y \in AllKinds(Others, queue, Buffers) \/ y = <<f, "arrived">>
               /\ assembled' \in [Msgs -> SUBSET Packets]
               /\ \A k \in Msgs : assembled'[k] \subseteq PacketsOf(k)
               /\ assembled'[m] = S /\ \A k \in Msgs : k # m => assembled'[k] = assembled[k]
<1> DEFINE m == p[1]
           S == assembled[m] \cup {p}
           f == <<m, 0>>
           x == [frame |-> f, ev |-> "arrived", t |-> 0]
<1>0. NetTypes /\ TrafficInv /\ nw \in Nets
  BY DEF NetInv, NetTypes
<1>1. Shape(agenda, queue, Buffers)
  BY <1>0 DEF TrafficInv, EventsOK
<1>2. /\ Others \in Seq(Events) /\ p \in Frames
      /\ Shape(Others, queue, Buffers)
      /\ p \notin Has(Others, queue, Buffers)
      /\ Has(agenda, queue, Buffers) = Has(Others, queue, Buffers) \cup {p}
      /\ AllKinds(Others, queue, Buffers) \subseteq AllKinds(agenda, queue, Buffers)
  BY <1>0, <1>1, RunEffect
<1>3. /\ m \in Msgs /\ p \in PacketsOf(m) /\ S \in SUBSET PacketsOf(m)
      /\ Assemble(p) <=> S = PacketsOf(m)
      /\ p[2] # 0 /\ p \in Frames
  BY <1>0, AssembleIs, PacketShape
<1>4. f \in Frames /\ f[1] = m /\ f[2] = 0 /\ f # p
  BY <1>0, <1>3, PacketShape
<1>5. status[m] = "sent" /\ assembled[m] # PacketsOf(m)
  <2>1. Expected(p, status, assembled)
    BY <1>0, <1>2 DEF TrafficInv, EventsOK
  <2> QED BY <1>3, <2>1 DEF Expected
<1>6. f \notin Has(Others, queue, Buffers)
  <2>1. ~ Expected(f, status, assembled)
    BY <1>4, <1>5 DEF Expected
  <2>2. f \notin Has(agenda, queue, Buffers)
    BY <1>0, <1>4, <2>1 DEF TrafficInv, EventsOK
  <2> QED BY <1>2, <2>2
<1>7. x \in Events /\ x.frame = f /\ x.ev = "arrived" /\ Post(Others, f, "arrived", 0) = Append(Others, x)
  BY <1>4 DEF Events, Post
<1> HIDE DEF x, f
<1>8. /\ agenda' \in Seq(Events) /\ Shape(agenda', queue, Buffers)
      /\ \A g : g \in Has(agenda', queue, Buffers) <=>
                    g \in Has(Others, queue, Buffers) \/ (Assemble(p) /\ g = f)
      /\ \A y : y \in AllKinds(agenda', queue, Buffers) =>
                    y \in AllKinds(Others, queue, Buffers) \/ y = <<f, "arrived">>
  <2>1. CASE Assemble(p)
    <3>1. agenda' = Append(Others, x)
      BY <1>7, <2>1 DEF Collects, f
    <3>2. x.frame \notin Has(Others, queue, Buffers)
      BY <1>6, <1>7
    <3>3. /\ Append(Others, x) \in Seq(Events)
          /\ Shape(Append(Others, x), queue, Buffers)
          /\ Has(Append(Others, x), queue, Buffers) = Has(Others, queue, Buffers) \cup {x.frame}
          /\ AllKinds(Append(Others, x), queue, Buffers)
                = AllKinds(Others, queue, Buffers) \cup {<<x.frame, x.ev>>}
      BY <1>2, <1>7, <3>2, PostEffect DEF Posted
    <3> QED BY <1>7, <2>1, <3>1, <3>3
  <2>2. CASE ~ Assemble(p)
    <3>1. agenda' = Others
      BY <2>2 DEF Collects
    <3> QED BY <1>2, <2>2, <3>1
  <2> QED BY <2>1, <2>2
<1>9. /\ assembled' \in [Msgs -> SUBSET Packets]
      /\ \A k \in Msgs : assembled'[k] \subseteq PacketsOf(k)
      /\ assembled'[m] = S /\ \A k \in Msgs : k # m => assembled'[k] = assembled[k]
  <2>1. assembled \in [Msgs -> SUBSET Packets] /\ \A k \in Msgs : assembled[k] \subseteq PacketsOf(k)
    BY <1>0 DEF NetTypes
  <2>2. assembled' = [assembled EXCEPT ![m] = S]
    BY DEF Collects
  <2>3. S \in SUBSET Packets
    BY <1>0, <1>3, PacketShape
  <2> HIDE DEF m, S
  <2> QED BY <1>3, <2>1, <2>2, <2>3
<1> QED BY <1>2, <1>5, <1>6, <1>8, <1>9, Zenon DEF f

\* NetInv is kept when a packet is assembled.
LEMMA Collected ==
    ASSUME NetInv, NEW p \in Packets, Runs(p, "receive"), p \notin assembled[p[1]],
           Collects(p), queue' = queue, status' = status, Configured, Unmoved
    PROVE  NetInv'
<1> DEFINE m == p[1]
           S == assembled[m] \cup {p}
           f == <<m, 0>>
<1>0. NetTypes /\ TableInv /\ TrafficInv /\ nw' = nw /\ nw \in Nets
  BY DEF NetInv, NetTypes, Configured
<1>1. Shape(agenda, queue, Buffers)
  BY <1>0 DEF TrafficInv, EventsOK
<1>2. /\ Others \in Seq(Events) /\ p \in Frames
      /\ Shape(Others, queue, Buffers)
      /\ p \notin Has(Others, queue, Buffers)
      /\ Has(agenda, queue, Buffers) = Has(Others, queue, Buffers) \cup {p}
      /\ AllKinds(Others, queue, Buffers) \subseteq AllKinds(agenda, queue, Buffers)
  BY <1>0, <1>1, RunEffect
<1>3. /\ m \in Msgs /\ p \in PacketsOf(m) /\ S \in SUBSET PacketsOf(m)
      /\ Assemble(p) <=> S = PacketsOf(m)
      /\ p[2] # 0 /\ p \in Frames
  BY <1>0, AssembleIs, PacketShape
<1>4. f \in Frames /\ f[1] = m /\ f[2] = 0 /\ f # p
  BY <1>0, <1>3, PacketShape
<1>5. status[m] = "sent" /\ assembled[m] # PacketsOf(m) /\ f \notin Has(Others, queue, Buffers)
  BY CollectEffect
<1>6. /\ agenda' \in Seq(Events) /\ Shape(agenda', queue, Buffers)
      /\ \A g : g \in Has(agenda', queue, Buffers) <=>
                    g \in Has(Others, queue, Buffers) \/ (Assemble(p) /\ g = f)
      /\ \A y : y \in AllKinds(agenda', queue, Buffers) =>
                    y \in AllKinds(Others, queue, Buffers) \/ y = <<f, "arrived">>
  BY CollectEffect
<1>7. /\ assembled' \in [Msgs -> SUBSET Packets]
      /\ \A k \in Msgs : assembled'[k] \subseteq PacketsOf(k)
      /\ assembled'[m] = S /\ \A k \in Msgs : k # m => assembled'[k] = assembled[k]
  BY CollectEffect
<1> HIDE DEF f
<1>8. ASSUME NEW g \in Frames
       PROVE  Expected(g, status, assembled') <=> g \in Has(agenda', queue, Buffers)
  <2>1. g[1] \in Msgs /\ (g[2] = 0 => g = <<g[1], 0>>)
    BY <1>0, PacketShape
  <2>2. Expected(g, status, assembled) <=> g \in Has(agenda, queue, Buffers)
    BY <1>0 DEF TrafficInv, EventsOK
  <2>3. CASE g[1] # m
    <3>1. g # p /\ g # f
      BY <1>4, <2>3
    <3>2. Expected(g, status, assembled') <=> Expected(g, status, assembled)
      BY <1>7, <2>1, <2>3 DEF Expected
    <3> QED  BY <1>2, <1>6, <2>2, <3>1, <3>2
  <2>4. CASE g[1] = m /\ g[2] = 0
    <3>1. g = f /\ g # p
      BY <1>4, <2>1, <2>4 DEF f
    <3>2. Expected(g, status, assembled') <=> S = PacketsOf(m)
      BY <1>5, <1>7, <2>4 DEF Expected
    <3> QED  BY <1>3, <1>5, <1>6, <3>1, <3>2
  <2>5. CASE g[1] = m /\ g[2] # 0
    <3>1. g # f
      BY <1>4, <2>5
    <3>2. Expected(g, status, assembled') <=> g \notin S
      BY <1>5, <1>7, <2>5 DEF Expected
    <3>3. Expected(g, status, assembled) <=> g \notin assembled[m]
      BY <1>5, <2>5 DEF Expected
    <3> QED  BY <1>2, <1>6, <2>2, <3>1, <3>2, <3>3
  <2> QED  BY <2>3, <2>4, <2>5
<1>9. EventsOK(agenda', queue', status', assembled')
  BY <1>6, <1>8 DEF EventsOK
<1>10. KindsOK(agenda', queue', at', status')
  <2> SUFFICES ASSUME NEW y \in AllKinds(agenda', queue, Buffers) PROVE KindOK(y, at, status)
    BY DEF KindsOK, Unmoved
  <2>1. CASE y \in AllKinds(Others, queue, Buffers)
    BY <1>0, <1>2, <2>1 DEF TrafficInv, KindsOK
  <2>2. CASE y = <<f, "arrived">>
    <3>1. y[1] = f /\ y[2] = "arrived"
      BY <2>2
    <3> QED  BY <1>4, <1>5, <3>1 DEF KindOK
  <2> QED  BY <1>6, <2>1, <2>2
<1>11. AssembledOK(status', assembled')
  BY <1>0, <1>5, <1>7 DEF TrafficInv, AssembledOK
<1>12. /\ PlacesOK(content', at', status') /\ RoomOK(content')
       /\ SleepOK(queue', content', at')
  BY <1>0 DEF TrafficInv, Unmoved
<1>13. TrafficInv'
  BY <1>0, <1>9, <1>10, <1>11, <1>12, NextTraffic
<1>14. NetTypes'
  BY <1>0, <1>6, <1>7, NextTypes DEF NetTypes, Configured, Unmoved
<1>15. TableInv'
  BY <1>0, NextTable DEF TableInv, Configured
<1> QED  BY <1>13, <1>14, <1>15 DEF NetInv

\* The packets of message m leave a buffer.
LEMMA WithoutIs ==
    ASSUME NetTypes, NEW b \in Buffers, IsInjective(content[b]), NEW m
    PROVE  /\ Without(m, b) \in Seq(Packets) /\ IsInjective(Without(m, b))
           /\ \A p : p \in Range(Without(m, b)) <=> p \in Range(content[b]) /\ p[1] # m
<1> DEFINE c == content[b]
           J == {j \in DOMAIN c : c[j][1] # m}
           S == {<<1, i>> : i \in J}
           qs == <<c>>
           P == Picked(qs, S)
<1>1. c \in Seq(Packets) /\ IsInjective(c)
  BY DEF NetTypes
<1> HIDE DEF c
<1>2. Len(c) \in Nat /\ DOMAIN c = 1 .. Len(c) /\ J \subseteq 1 .. Len(c) /\ J \subseteq Nat
  BY <1>1
<1>3. IsFiniteSet(J)
  <2>1. IsFiniteSet(1 .. Len(c))
    BY <1>2, FS_Interval
  <2> QED  BY <1>2, <2>1, FS_Subset
<1>4. \A x : x \in S <=> \E i \in J : x = <<1, i>>
  OBVIOUS
<1>5. \A x \in S : x[1] = 1 /\ x[2] \in J /\ x = <<1, x[2]>>
  BY <1>4
<1>6. S \in SUBSET (Nat \X Nat)
  BY <1>2, <1>4
<1> HIDE DEF J
<1>7. IsFiniteSet(S)
  <2> DEFINE g == [i \in J |-> <<1, i>>]
  <2>1. g \in Surjection(J, S)
    BY DEF Surjection
  <2> QED  BY <1>3, <2>1, FS_Surjection
<1> HIDE DEF S
<1>8. \A x \in S : qs[x[1]][x[2]] = c[x[2]] /\ c[x[2]] \in Packets
  <2>1. qs[1] = c
    OBVIOUS
  <2>2. \A j \in J : c[j] \in Packets
    BY <1>1, <1>2
  <2> HIDE DEF qs
  <2> QED  BY <1>5, <2>1, <2>2
<1> HIDE DEF qs
<1>9. P \in Seq(Packets)
  BY <1>6, <1>7, <1>8, PickedType
<1>10. IsPicked(P, qs, S)
  BY <1>6, <1>7, PickedIs
<1>11. P = Without(m, b)
  BY DEF P, S, qs, J, c, Without
<1> HIDE DEF P
<1>12. IsInjective(P)
  <2> SUFFICES ASSUME NEW k \in DOMAIN P, NEW l \in DOMAIN P, k # l PROVE P[k] # P[l]
    BY DEF IsInjective
  <2>1. PICK x \in S, y \in S : x # y /\ P[k] = qs[x[1]][x[2]] /\ P[l] = qs[y[1]][y[2]]
    BY <1>10 DEF IsPicked
  <2>2. x[2] # y[2] /\ x[2] \in DOMAIN c /\ y[2] \in DOMAIN c
    BY <1>2, <1>5, <2>1
  <2>3. c[x[2]] # c[y[2]]
    BY <1>1, <2>2 DEF IsInjective
  <2> QED  BY <1>8, <2>1, <2>3
<1>13. ASSUME NEW p \in Range(P) PROVE p \in Range(c) /\ p[1] # m
  <2>1. PICK k \in DOMAIN P : p = P[k]
    BY DEF Range
  <2>2. PICK x \in S : P[k] = qs[x[1]][x[2]]
    BY <1>10 DEF IsPicked
  <2>3. x[2] \in J /\ p = c[x[2]]
    BY <1>5, <1>8, <2>1, <2>2
  <2> QED  BY <2>3 DEF Range, J
<1>14. ASSUME NEW p \in Range(c), p[1] # m PROVE p \in Range(P)
  <2>1. PICK j \in DOMAIN c : p = c[j]
    BY DEF Range
  <2>2. j \in J
    BY <1>14, <2>1 DEF J
  <2>3. PICK x \in S : x = <<1, j>>
    BY <1>4, <2>2
  <2>4. PICK k \in DOMAIN P : P[k] = qs[x[1]][x[2]]
    BY <1>10 DEF IsPicked
  <2>5. P[k] = p
    BY <1>8, <2>1, <2>3, <2>4
  <2> QED  BY <2>5 DEF Range
<1> QED  BY <1>9, <1>11, <1>12, <1>13, <1>14 DEF c

\* Nothing of message m but the event that runs, of frame f, is pending.
OnlyLeft(f, m) ==
    /\ f[1] = m /\ status[m] = "sent"
    /\ \A g \in Frames : g[1] = m /\ g # f => ~ Expected(g, status, assembled)

\* Message m is done with: what is left of the events.
Completes(m) ==
    /\ status' = [status EXCEPT ![m] = "received"]
    /\ assembled' = [assembled EXCEPT ![m] = PacketsOf(m)]

LEMMA Done ==
    ASSUME NetInv, NEW m \in Msgs, NEW f, NEW ev, Runs(f, ev), OnlyLeft(f, m), Completes(m),
           Shape(agenda', queue', Buffers),
           Has(agenda', queue', Buffers) = Has(Others, queue, Buffers),
           AllKinds(agenda', queue', Buffers) \subseteq AllKinds(Others, queue, Buffers),
           \A p \in Packets : p[1] # m => at'[p] = at[p]
    PROVE  /\ status' \in [Msgs -> {"idle", "trying", "sent", "received"}]
           /\ status'[m] = "received" /\ \A k \in Msgs : k # m => status'[k] = status[k]
           /\ assembled' \in [Msgs -> SUBSET Packets]
           /\ \A k \in Msgs : assembled'[k] \subseteq PacketsOf(k)
           /\ EventsOK(agenda', queue', status', assembled')
           /\ KindsOK(agenda', queue', at', status')
           /\ AssembledOK(status', assembled')
           /\ \A g \in Has(agenda', queue', Buffers) : g \in Frames /\ g[1] # m
<1>0. NetTypes /\ TrafficInv /\ nw \in Nets
  BY DEF NetInv, NetTypes
<1>1. /\ status' \in [Msgs -> {"idle", "trying", "sent", "received"}]
      /\ status'[m] = "received" /\ \A k \in Msgs : k # m => status'[k] = status[k]
  BY <1>0 DEF NetTypes, Completes
<1>2. /\ assembled' \in [Msgs -> SUBSET Packets]
      /\ \A k \in Msgs : assembled'[k] \subseteq PacketsOf(k)
      /\ assembled'[m] = PacketsOf(m) /\ \A k \in Msgs : k # m => assembled'[k] = assembled[k]
  <2>1. assembled \in [Msgs -> SUBSET Packets] /\ \A k \in Msgs : assembled[k] \subseteq PacketsOf(k)
    BY <1>0 DEF NetTypes
  <2>2. PacketsOf(m) \in SUBSET Packets
    BY <1>0, PacketShape
  <2> QED  BY <2>1, <2>2 DEF Completes
<1>3. Shape(agenda, queue, Buffers)
  BY <1>0 DEF TrafficInv, EventsOK
<1>4. /\ f \notin Has(Others, queue, Buffers)
      /\ Has(agenda, queue, Buffers) = Has(Others, queue, Buffers) \cup {f}
      /\ AllKinds(Others, queue, Buffers) \subseteq AllKinds(agenda, queue, Buffers)
  BY <1>0, <1>3, RunEffect
<1>5. ASSUME NEW g \in Has(agenda', queue', Buffers) PROVE g \in Frames /\ g[1] # m
  <2>1. g # f /\ g \in Has(agenda, queue, Buffers)
    BY <1>4
  <2>2. g \in Frames
    BY <1>0, <2>1, HasFrames
  <2>3. Expected(g, status, assembled)
    BY <1>0, <2>1, <2>2 DEF TrafficInv, EventsOK
  <2> QED  BY <2>1, <2>2, <2>3 DEF OnlyLeft
<1>6. ASSUME NEW g \in Frames
      PROVE  Expected(g, status', assembled') <=> g \in Has(agenda', queue', Buffers)
  <2>1. g[1] \in Msgs
    BY <1>0, PacketShape
  <2>2. Expected(g, status, assembled) <=> g \in Has(agenda, queue, Buffers)
    BY <1>0 DEF TrafficInv, EventsOK
  <2>3. CASE g[1] # m
    <3>1. g # f
      BY <2>3 DEF OnlyLeft
    <3>2. Expected(g, status', assembled') <=> Expected(g, status, assembled)
      BY <1>1, <1>2, <2>1, <2>3 DEF Expected
    <3> QED  BY <1>4, <2>2, <3>1, <3>2
  <2>4. CASE g[1] = m
    <3>1. ~ Expected(g, status', assembled')
      BY <1>1, <2>4 DEF Expected
    <3> QED  BY <1>5, <2>4, <3>1
  <2> QED  BY <2>3, <2>4
<1>7. ASSUME NEW x \in AllKinds(agenda', queue', Buffers) PROVE KindOK(x, at', status')
  <2>1. x[1] \in Has(agenda', queue', Buffers)
    BY HasIs
  <2>2. x[1] \in Frames /\ x[1][1] # m
    BY <1>5, <2>1
  <2>3. KindOK(x, at, status)
    BY <1>0, <1>4 DEF TrafficInv, KindsOK
  <2>4. status'[x[1][1]] = status[x[1][1]]
    BY <1>0, <1>1, <2>2, PacketShape
  <2>5. x[1] \in Packets => at'[x[1]] = at[x[1]]
    BY <2>2
  <2> QED  BY <1>0, <2>2, <2>3, <2>4, <2>5, KindKept
<1>8. AssembledOK(status', assembled')
  BY <1>0, <1>1, <1>2 DEF TrafficInv, AssembledOK
<1> QED  BY <1>1, <1>2, <1>5, <1>6, <1>7, <1>8 DEF EventsOK, KindsOK

\* The receipt of a message that did not use the topology.
LEMMA ReceivedDirectly ==
    ASSUME NetInv, NEW m \in Msgs, NEW f, NEW ev, Runs(f, ev), OnlyLeft(f, m), Completes(m),
           nw.fix > 0, agenda' = Others, queue' = queue, Unmoved, Configured
    PROVE  NetInv'
<1>0. NetTypes /\ TableInv /\ TrafficInv /\ nw' = nw /\ nw \in Nets
  BY DEF NetInv, NetTypes, Configured
<1>1. Shape(agenda, queue, Buffers)
  BY <1>0 DEF TrafficInv, EventsOK
<1>2. Others \in Seq(Events) /\ Shape(Others, queue, Buffers)
  BY <1>0, <1>1, RunEffect
<1>3. /\ status' \in [Msgs -> {"idle", "trying", "sent", "received"}]
      /\ assembled' \in [Msgs -> SUBSET Packets]
      /\ \A k \in Msgs : assembled'[k] \subseteq PacketsOf(k)
      /\ EventsOK(agenda', queue', status', assembled')
      /\ KindsOK(agenda', queue', at', status')
      /\ AssembledOK(status', assembled')
  <2>1. /\ Shape(agenda', queue', Buffers)
        /\ Has(agenda', queue', Buffers) = Has(Others, queue, Buffers)
        /\ AllKinds(agenda', queue', Buffers) \subseteq AllKinds(Others, queue, Buffers)
        /\ \A p \in Packets : p[1] # m => at'[p] = at[p]
    BY <1>2 DEF Unmoved
  <2> QED  BY <2>1, Done
<1>4. PlacesOK(content', at', status')
  <2>1. \A p \in Packets : ~ Stored(p, status) /\ ~ Stored(p, status')
    BY DEF Stored
  <2> QED  BY <1>0, <2>1 DEF TrafficInv, PlacesOK, Unmoved
<1>5. RoomOK(content') /\ SleepOK(queue', content', at')
  BY <1>0 DEF TrafficInv, Unmoved
<1>6. TrafficInv'
  BY <1>0, <1>3, <1>4, <1>5, NextTraffic
<1>7. NetTypes'
  BY <1>0, <1>2, <1>3, NextTypes DEF NetTypes, Configured, Unmoved
<1>8. TableInv'
  BY <1>0, NextTable DEF TableInv, Configured
<1> QED  BY <1>6, <1>7, <1>8 DEF NetInv

\* The packets of message m leave the buffers homes.
Clears(m, homes) ==
    /\ content' = [b \in Buffers |-> IF b \in Range(homes) THEN Without(m, b) ELSE content[b]]
    /\ at' = [p \in Packets |-> IF p[1] = m THEN NoBuffer ELSE at[p]]
    /\ agenda' = Woken(Others, homes)
    /\ Emptied(homes)

\* The receipt of a message whose packets are in the buffers homes.
LEMMA ReceivedFromBuffers ==
    ASSUME NetInv, NEW m \in Msgs, NEW f, NEW ev, Runs(f, ev), OnlyLeft(f, m), Completes(m),
           nw.fix = 0, NEW homes \in Seq(Buffers),
           \A p \in PacketsOf(m) : at[p] \in Range(homes),
           Clears(m, homes), busy' = busy, Configured
    PROVE  NetInv'
<1>0. NetTypes /\ TableInv /\ TrafficInv /\ nw' = nw /\ nw \in Nets
  BY DEF NetInv, NetTypes, Configured
<1>1. Shape(agenda, queue, Buffers)
  BY <1>0 DEF TrafficInv, EventsOK
<1>2. Others \in Seq(Events) /\ Shape(Others, queue, Buffers)
  BY <1>0, <1>1, RunEffect
<1>3. /\ Woken(Others, homes) \in Seq(Events)
      /\ queue' \in [Buffers -> Seq(Waiters)]
      /\ Shape(Woken(Others, homes), queue', Buffers)
      /\ Has(Woken(Others, homes), queue', Buffers) = Has(Others, queue, Buffers)
      /\ AllKinds(Woken(Others, homes), queue', Buffers) \subseteq AllKinds(Others, queue, Buffers)
      /\ \A d \in Buffers : d \in Range(homes) => FramesOf(queue'[d]) = {}
      /\ \A d \in Buffers : d \notin Range(homes) => FramesOf(queue'[d]) = FramesOf(queue[d])
  BY <1>0, <1>2, WakeStep DEF Clears, WokenUp
<1>4. agenda' = Woken(Others, homes)
  BY DEF Clears
<1>5. /\ at' \in [Packets -> Buffers \cup {NoBuffer}]
      /\ \A p \in Packets : p[1] # m => at'[p] = at[p]
  <2>1. \A p \in Packets : at[p] \in Buffers \cup {NoBuffer}
    BY <1>0 DEF NetTypes
  <2> QED  BY <2>1 DEF Clears
<1>6. /\ status' \in [Msgs -> {"idle", "trying", "sent", "received"}]
      /\ status'[m] = "received" /\ \A k \in Msgs : k # m => status'[k] = status[k]
      /\ assembled' \in [Msgs -> SUBSET Packets]
      /\ \A k \in Msgs : assembled'[k] \subseteq PacketsOf(k)
      /\ EventsOK(agenda', queue', status', assembled')
      /\ KindsOK(agenda', queue', at', status')
      /\ AssembledOK(status', assembled')
      /\ \A g \in Has(agenda', queue', Buffers) : g \in Frames /\ g[1] # m
  <2>1. /\ Shape(agenda', queue', Buffers)
        /\ Has(agenda', queue', Buffers) = Has(Others, queue, Buffers)
        /\ AllKinds(agenda', queue', Buffers) \subseteq AllKinds(Others, queue, Buffers)
    BY <1>3, <1>4
  <2> QED  BY <1>5, <2>1, Done
<1>7. ASSUME NEW d \in Buffers
      PROVE  /\ content'[d] \in Seq(Packets) /\ IsInjective(content'[d])
             /\ d \in Range(homes) => \A p : p \in Range(content'[d])
                                                <=> p \in Range(content[d]) /\ p[1] # m
             /\ d \notin Range(homes) => content'[d] = content[d]
             /\ content[d] \in Seq(Packets) /\ IsInjective(content[d])
             /\ BytesOf(content[d]) <= nw.room /\ BytesOf(content[d]) \in Nat
  <2>1. /\ content[d] \in Seq(Packets) /\ IsInjective(content[d])
        /\ BytesOf(content[d]) <= nw.room /\ BytesOf(content[d]) \in Nat
    BY BufferFacts
  <2>2. content'[d] = IF d \in Range(homes) THEN Without(m, d) ELSE content[d]
    BY DEF Clears
  <2>3. /\ Without(m, d) \in Seq(Packets) /\ IsInjective(Without(m, d))
        /\ \A p : p \in Range(Without(m, d)) <=> p \in Range(content[d]) /\ p[1] # m
    BY <1>0, <2>1, WithoutIs
  <2> QED  BY <2>1, <2>2, <2>3
<1>8. content' \in [Buffers -> Seq(Packets)]
  <2>1. content' = [d \in Buffers |-> content'[d]]
    BY DEF Clears
  <2> QED  BY <1>7, <2>1
<1>9. PlacesOK(content', at', status')
  <2>1. ASSUME NEW p \in Packets, NEW d \in Buffers
        PROVE  p \in Range(content'[d]) <=> Stored(p, status') /\ at'[p] = d
    <3>1. p \in Range(content[d]) <=> Stored(p, status) /\ at[p] = d
      BY <1>0 DEF TrafficInv, PlacesOK
    <3>2. p[1] \in Msgs /\ (p[1] = m => p \in PacketsOf(m))
      BY <1>0, PacketShape
    <3>3. CASE p[1] = m
      <4>1. ~ Stored(p, status')
        BY <1>6, <3>3 DEF Stored
      <4>2. p \in Range(content[d]) => d \in Range(homes)
        BY <3>1, <3>2, <3>3
      <4> QED  BY <1>7, <3>3, <4>1, <4>2
    <3>4. CASE p[1] # m
      <4>1. Stored(p, status') <=> Stored(p, status)
        BY <1>6, <3>2, <3>4 DEF Stored
      <4>2. p \in Range(content'[d]) <=> p \in Range(content[d])
        BY <1>7, <3>4
      <4> QED  BY <1>5, <3>1, <3>4, <4>1, <4>2
    <3> QED  BY <3>3, <3>4
  <2>2. ASSUME NEW p \in Packets, Stored(p, status') PROVE at'[p] \in Buffers
    <3>1. p[1] \in Msgs /\ p[1] # m
      BY <1>0, <1>6, <2>2, PacketShape DEF Stored
    <3>2. Stored(p, status)
      BY <1>6, <2>2, <3>1 DEF Stored
    <3> QED  BY <1>0, <1>5, <3>1, <3>2 DEF TrafficInv, PlacesOK
  <2> QED  BY <1>7, <2>1, <2>2 DEF PlacesOK
<1>10. RoomOK(content')
  <2> SUFFICES ASSUME NEW d \in Buffers PROVE BytesOf(content'[d]) <= nw.room
    BY DEF RoomOK
  <2>1. Range(content'[d]) \subseteq Range(content[d])
    BY <1>7
  <2>2. BytesOf(content'[d]) <= BytesOf(content[d]) /\ BytesOf(content'[d]) \in Nat
    BY <1>0, <1>7, <2>1, BytesMonotone
  <2>3. nw.room \in Nat
    BY <1>0, MessageShape
  <2> QED  BY <1>7, <2>2, <2>3
<1>11. SleepOK(queue', content', at')
  <2> SUFFICES ASSUME NEW d \in Buffers, NEW g \in FramesOf(queue'[d])
               PROVE  Blocked(g, d, content'[d], at')
    BY DEF SleepOK
  <2>1. d \notin Range(homes) /\ g \in FramesOf(queue[d])
    BY <1>3
  <2>2. g \in Frames /\ g[1] # m
    BY <1>6, HasIs
  <2>3. Blocked(g, d, content[d], at) /\ content'[d] = content[d]
    BY <1>7, <2>1, BufferFacts
  <2>4. g[2] # 0 => at'[g] = at[g]
    BY <1>0, <1>5, <2>2, PacketShape
  <2> QED  BY <2>3, <2>4 DEF Blocked
<1>12. TrafficInv'
  BY <1>0, <1>6, <1>9, <1>10, <1>11, NextTraffic
<1>13. NetTypes'
  BY <1>0, <1>3, <1>4, <1>5, <1>6, <1>8, NextTypes DEF NetTypes, Configured
<1>14. TableInv'
  BY <1>0, NextTable DEF TableInv, Configured
<1> QED  BY <1>12, <1>13, <1>14 DEF NetInv

LEMMA Received ==
    ASSUME NetInv, NEW m \in Msgs, NEW f, NEW ev, Runs(f, ev), OnlyLeft(f, m),
           Receive(m, PacketsOf(m))
    PROVE  NetInv'
<1> DEFINE homes == [i \in 1 .. NumPackets(m) |-> at[<<m, i>>]]
           arrived == nw.fix > 0 \/ \A i \in DOMAIN homes :
                        /\ homes[i] # NoBuffer
                        /\ BufferNode(nw, homes[i]) = nw.msgs[m].dst
                        /\ Contains(content[homes[i]], <<m, i>>)
<1>0. NetTypes /\ nw \in Nets
  BY DEF NetInv, NetTypes
<1>1. CASE ~ arrived /\ Panics("packet_has_not_arrived")
  BY <1>1, Panicked
<1>2. CASE /\ arrived /\ Completes(m) /\ nw.fix > 0
           /\ agenda' = Others /\ UNCHANGED <<content, at, queue>>
           /\ UNCHANGED <<busy, grant, last, order>> /\ unchangedNet
  <2>1. /\ Configured /\ Unmoved /\ agenda' = Others /\ queue' = queue
        /\ nw.fix > 0 /\ Completes(m)
    BY <1>2 DEF Configured, Unmoved, unchangedNet, routingVars
  <2> QED  BY <2>1, ReceivedDirectly
<1>3. CASE /\ arrived /\ Completes(m) /\ ~ (nw.fix > 0) /\ Clears(m, homes)
           /\ UNCHANGED <<busy, grant, last, order>> /\ unchangedNet
  <2>1. Configured /\ busy' = busy /\ Completes(m) /\ Clears(m, homes)
    BY <1>3 DEF Configured, unchangedNet, routingVars
  <2>2. nw.fix = 0
    BY <1>0, <1>3, MessageShape
  <2>3. NumPackets(m) \in Nat /\ \A i \in 1 .. NumPackets(m) : <<m, i>> \in Packets
    <3>1. \A i \in 1 .. NumPackets(m) : <<m, i>> \in PacketsOf(m)
      BY DEF PacketsOf
    <3> QED  BY <1>0, <3>1, MessageShape, PacketShape
  <2>4. \A i \in 1 .. NumPackets(m) : homes[i] = at[<<m, i>>] /\ homes[i] \in Buffers
    <3>1. \A i \in 1 .. NumPackets(m) : homes[i] # NoBuffer
      BY <1>3, <2>2
    <3>2. \A p \in Packets : at[p] \in Buffers \cup {NoBuffer}
      BY <1>0 DEF NetTypes
    <3> QED  BY <2>3, <3>1, <3>2
  <2>5. homes \in Seq(Buffers) /\ DOMAIN homes = 1 .. NumPackets(m)
    <3>1. homes \in [1 .. NumPackets(m) -> Buffers]
      BY <2>4
    <3> HIDE DEF homes
    <3> QED  BY <2>3, <3>1
  <2>6. ASSUME NEW p \in PacketsOf(m) PROVE at[p] \in Range(homes)
    <3>1. PICK i \in 1 .. NumPackets(m) : p = <<m, i>>
      BY DEF PacketsOf
    <3> QED  BY <2>4, <2>5, <3>1 DEF Range
  <2> HIDE DEF homes
  <2> QED  BY <2>1, <2>2, <2>5, <2>6, ReceivedFromBuffers
<1> QED
  <2>1. nw.fix > 0 => arrived
    OBVIOUS
  <2> HIDE DEF arrived
  <2> QED  BY <1>1, <1>2, <1>3, <2>1 DEF Receive, Completes, Clears, Emptied, homes, arrived

\* The last packet of its message that is assembled.
LEMMA LastPacket ==
    ASSUME NetInv, NEW p \in Packets, Runs(p, "receive"), p \notin assembled[p[1]], Assemble(p)
    PROVE  /\ p[1] \in Msgs /\ assembled[p[1]] \cup {p} = PacketsOf(p[1])
           /\ OnlyLeft(p, p[1])
<1> DEFINE m == p[1]
<1>0. NetTypes /\ TrafficInv /\ nw \in Nets
  BY DEF NetInv, NetTypes
<1>1. m \in Msgs /\ p \in PacketsOf(m) /\ assembled[m] \cup {p} = PacketsOf(m)
  BY <1>0, AssembleIs
<1>2. Shape(agenda, queue, Buffers)
  BY <1>0 DEF TrafficInv, EventsOK
<1>3. /\ p \in Frames
      /\ Has(agenda, queue, Buffers) = Has(Others, queue, Buffers) \cup {p}
  BY <1>0, <1>2, RunEffect
<1>4. Expected(p, status, assembled)
  BY <1>0, <1>3 DEF TrafficInv, EventsOK
<1>5. p[2] # 0
  BY <1>0, PacketShape
<1>6. status[m] = "sent" /\ assembled[m] # PacketsOf(m)
  BY <1>1, <1>4, <1>5 DEF Expected
<1>7. ASSUME NEW g \in Frames, g[1] = m, g # p PROVE ~ Expected(g, status, assembled)
  <2>1. g[2] # 0 => g \in PacketsOf(m)
    BY <1>0, <1>7, PacketShape
  <2>2. g[2] # 0 => g \in assembled[m]
    BY <1>1, <1>7, <2>1
  <2> QED BY <1>6, <1>7, <2>2 DEF Expected
<1> QED BY <1>1, <1>6, <1>7 DEF OnlyLeft

\* A client that receives has all packets of its message.
LEMMA ClientHasAll ==
    ASSUME NetInv, NEW m \in Msgs, NEW f, f = <<m, 0>>, Runs(f, "arrived")
    PROVE  assembled[m] = PacketsOf(m) /\ OnlyLeft(f, m)
<1>0. NetTypes /\ TrafficInv /\ nw \in Nets
  BY DEF NetInv, NetTypes
<1>1. f[1] = m /\ f[2] = 0
  OBVIOUS
<1>2. Shape(agenda, queue, Buffers)
  BY <1>0 DEF TrafficInv, EventsOK
<1>3. /\ f \in Frames /\ <<f, "arrived">> \in AllKinds(agenda, queue, Buffers)
      /\ Has(agenda, queue, Buffers) = Has(Others, queue, Buffers) \cup {f}
  BY <1>0, <1>2, RunEffect
<1>4. Expected(f, status, assembled)
  BY <1>0, <1>3 DEF TrafficInv, EventsOK
<1>5. KindOK(<<f, "arrived">>, at, status)
  BY <1>0, <1>3 DEF TrafficInv, KindsOK
<1>6. status[m] = "sent" /\ assembled[m] = PacketsOf(m)
  BY <1>1, <1>4, <1>5 DEF Expected, KindOK
<1>7. ASSUME NEW g \in Frames, g[1] = m, g # f PROVE ~ Expected(g, status, assembled)
  <2>1. g[2] = 0 => g = f
    BY <1>0, <1>7, PacketShape
  <2>2. g \in PacketsOf(m)
    BY <1>0, <1>7, <2>1, PacketShape
  <2> QED BY <1>6, <1>7, <2>1, <2>2 DEF Expected
<1> QED BY <1>1, <1>6, <1>7 DEF OnlyLeft

LEMMA ReceivePacketStep ==
    ASSUME NetInv, NEW p \in Packets, ReceivePacket(p)
    PROVE  NetInv'
<1> DEFINE m == p[1]
<1>0. NetTypes /\ TrafficInv /\ nw \in Nets /\ Runs(p, "receive")
  BY DEF NetInv, NetTypes, ReceivePacket
<1>1. CASE Panics("assembled_twice")
  BY <1>1, Panicked
<1>2. CASE p \notin assembled[m] /\ Assemble(p) /\ Receive(m, assembled[m] \cup {p})
  <2>1. m \in Msgs /\ assembled[m] \cup {p} = PacketsOf(m) /\ OnlyLeft(p, m)
    BY <1>0, <1>2, LastPacket
  <2>2. Receive(m, PacketsOf(m))
    BY <1>2, <2>1
  <2> HIDE DEF m
  <2> QED  BY <1>0, <2>1, <2>2, Received
<1>3. CASE /\ p \notin assembled[m]
           /\ Collects(p)
           /\ UNCHANGED <<queue, content, at, busy, grant, last>>
           /\ UNCHANGED <<status, order>> /\ unchangedNet
  <2>1. /\ p \notin assembled[p[1]] /\ Collects(p) /\ queue' = queue /\ status' = status
        /\ Configured /\ Unmoved
    BY <1>3 DEF Configured, Unmoved, unchangedNet, routingVars
  <2> QED  BY <1>0, <2>1, Collected
<1> QED  BY <1>1, <1>2, <1>3 DEF ReceivePacket, Collects

LEMMA ClientReceivesStep ==
    ASSUME NetInv, NEW m \in Msgs, ClientReceives(m)
    PROVE  NetInv'
<1>1. PICK f : f = <<m, 0>>
  BY Zenon
<1>2. Runs(f, "arrived")
  BY <1>1 DEF ClientReceives
<1>3. assembled[m] = PacketsOf(m) /\ OnlyLeft(f, m)
  BY <1>1, <1>2, ClientHasAll
<1>4. Receive(m, PacketsOf(m))
  BY <1>3 DEF ClientReceives
<1> QED BY <1>2, <1>3, <1>4, Received

-----------------------------------------------------------------------------
(***************************************************************************)
(* Every handler keeps the invariant.                                      *)
(***************************************************************************)
LEMMA ResourceTypes ==
    ASSUME NetTypes
    PROVE  /\ \A b \in Buffers : busy[Read(b)] \in Nat /\ busy[Write(b)] \in Nat
           /\ \A c \in DOMAIN nw.conns : busy[LinkOf(c)] \in Nat
<1>1. busy \in [Resources -> Nat]
  BY DEF NetTypes
<1>2. \A b \in Buffers : Read(b) \in Resources /\ Write(b) \in Resources
  BY DEF Resources
<1>3. \A c \in DOMAIN nw.conns : LinkOf(c) \in Resources
  BY DEF Resources, Arbiters
<1> QED  BY <1>1, <1>2, <1>3

LEMMA GoodRoute ==
    ASSUME NetInv, NEW i \in nw.nodes, NEW j \in nw.nodes
    PROVE  GoodBuffer(i, table[i][j].buffer)
<1>1. GoodTable(table)
  BY DEF NetInv, TableInv
<1> QED  BY <1>1, Zenon DEF GoodTable

LEMMA SentStep ==
    ASSUME NetInv, NEW m \in Msgs, NEW ag, Sends(m, ag), NEW b \in Buffers,
           Fits(b, Required(m)), Sent(m, b, ag), assembled' = assembled, Configured
    PROVE  NetInv'
<1> DEFINE ps == [i \in 1 .. NumPackets(m) |-> <<m, i>>]
<1>0. NetTypes /\ nw \in Nets
  BY DEF NetInv, NetTypes
<1>1. /\ status' = [status EXCEPT ![m] = "sent"] /\ queue' = queue
      /\ agenda' = ag \o [i \in DOMAIN ps |->
                        [frame |-> ps[i],
                         ev |-> IF nw.fix > 0 THEN "receive" ELSE "output",
                         t |-> IF nw.fix > 0 THEN nw.fix ELSE 1]]
      /\ nw.fix > 0 => UNCHANGED <<content, at, busy>>
      /\ ~ (nw.fix > 0) =>
            /\ content' = [content EXCEPT ![b] = @ \o ps]
            /\ at' = [p \in Packets |-> IF p[1] = m THEN b ELSE at[p]]
            /\ busy' = [r \in Resources |->
                            IF r = Write(b) \/ \E p \in PacketsOf(m) : r = PacketBusy(p)
                            THEN 1 ELSE busy[r]]
  BY DEF Sent
<1>2. DOMAIN ps = 1 .. NumPackets(m) /\ \A i \in 1 .. NumPackets(m) : ps[i] = <<m, i>>
  OBVIOUS
<1>3. ps = PacketSeq(m)
  BY DEF PacketSeq
<1> HIDE DEF ps
<1>4. CASE nw.fix > 0
  <2>1. agenda' = ag \o MessageEvents(m, "receive", nw.fix)
    BY <1>1, <1>2, <1>4 DEF MessageEvents
  <2>2. Unmoved
    BY <1>1, <1>4 DEF Unmoved
  <2> QED  BY <1>1, <1>4, <2>1, <2>2, SentDirectly
<1>5. CASE ~ (nw.fix > 0)
  <2>1. agenda' = ag \o MessageEvents(m, "output", 1)
    BY <1>1, <1>2, <1>5 DEF MessageEvents
  <2>2. busy' \in [Resources -> Nat]
    <3>1. \A r \in Resources : busy[r] \in Nat
      BY <1>0 DEF NetTypes
    <3> QED  BY <1>1, <1>5, <3>1
  <2>3. IntoBuffer(m, b)
    BY <1>1, <1>3, <1>5, <2>2 DEF IntoBuffer
  <2>4. nw.fix = 0
    BY <1>0, <1>5, MessageShape
  <2> QED  BY <1>1, <2>1, <2>3, <2>4, SentToBuffer
<1> QED  BY <1>4, <1>5

LEMMA TrySendStep ==
    ASSUME NetInv, NEW m \in Msgs, NEW ag, Sends(m, ag), TrySend(m, ag)
    PROVE  NetInv'
<1> DEFINE b == table[nw.msgs[m].src][nw.msgs[m].dst].buffer
           me == [frame |-> <<m, 0>>, ev |-> "retry"]
<1>0. NetTypes /\ nw \in Nets
  BY DEF NetInv, NetTypes
<1>1. b # NoBuffer => b \in Buffers
  <2>1. nw.msgs[m].src \in nw.nodes /\ nw.msgs[m].dst \in nw.nodes
    BY <1>0, MessageShape
  <2>2. GoodBuffer(nw.msgs[m].src, b)
    BY <2>1, GoodRoute
  <2> QED  BY <2>2 DEF GoodBuffer
<1>2. CASE Panics("no_route") \/ Panics("message_too_big")
  BY <1>2, Panicked
<1>3. CASE /\ b # NoBuffer
           /\ agenda' = Post(ag, me.frame, me.ev, busy[Write(b)])
           /\ status' = [status EXCEPT ![m] = "trying"]
           /\ UNCHANGED <<queue, content, at, busy, order>>
           /\ UNCHANGED <<grant, last, assembled>> /\ unchangedNet
  <2>1. busy[Write(b)] \in Nat
    BY <1>0, <1>1, <1>3, ResourceTypes
  <2>2. PICK d \in Nat : d = busy[Write(b)]
    BY <2>1
  <2>3. agenda' = Post(ag, <<m, 0>>, "retry", d)
    BY <1>3, <2>2
  <2>4. /\ queue' = queue /\ status' = [status EXCEPT ![m] = "trying"]
        /\ assembled' = assembled /\ Configured /\ Unmoved
    BY <1>3 DEF Configured, Unmoved, unchangedNet, routingVars
  <2> HIDE DEF b, me
  <2> QED  BY <2>3, <2>4, ComesBack
<1>4. CASE /\ b # NoBuffer
           /\ ~ Fits(b, Required(m))
           /\ queue' = [queue EXCEPT ![b] = Append(@, me)]
           /\ agenda' = ag
           /\ status' = [status EXCEPT ![m] = "trying"]
           /\ UNCHANGED <<content, at, busy, order>>
           /\ UNCHANGED <<grant, last, assembled>> /\ unchangedNet
  <2>1. /\ b \in Buffers /\ ~ Fits(b, Required(m)) /\ agenda' = ag /\ Suspends(b, me)
        /\ status' = [status EXCEPT ![m] = "trying"]
        /\ assembled' = assembled /\ Configured /\ Unmoved
    BY <1>1, <1>4 DEF Configured, Unmoved, unchangedNet, routingVars, Suspends
  <2>2. PICK x : x = me
    OBVIOUS
  <2>3. x = [frame |-> <<m, 0>>, ev |-> "retry"] /\ Suspends(b, x)
    BY <2>1, <2>2
  <2> HIDE DEF b, me
  <2> QED  BY <2>1, <2>3, WaitsToSend
<1>5. CASE /\ b # NoBuffer
           /\ Fits(b, Required(m))
           /\ Sent(m, b, ag)
           /\ UNCHANGED <<grant, last, assembled>> /\ unchangedNet
  <2>1. b \in Buffers /\ Fits(b, Required(m)) /\ Sent(m, b, ag) /\ assembled' = assembled /\ Configured
    BY <1>1, <1>5 DEF Configured, unchangedNet, routingVars
  <2> HIDE DEF b, me
  <2> QED  BY <2>1, SentStep
<1> QED  BY <1>2, <1>3, <1>4, <1>5 DEF TrySend

\* A packet whose output or input event runs.
LEMMA PacketRuns ==
    ASSUME NetInv, NEW p \in Packets, NEW ev \in {"output", "input"}, Runs(p, ev)
    PROVE  /\ KindOK(<<p, ev>>, at, status) /\ nw.fix = 0
           /\ at[p] \in Buffers /\ p[1] \in Msgs /\ p[2] # 0
           /\ ev = "input" => at[p] \in InBuffers(nw)
<1>0. NetTypes /\ TrafficInv /\ nw \in Nets
  BY DEF NetInv, NetTypes
<1>1. Shape(agenda, queue, Buffers)
  BY <1>0 DEF TrafficInv, EventsOK
<1>2. /\ <<p, ev>> \in AllKinds(agenda, queue, Buffers)
      /\ Has(agenda, queue, Buffers) = Has(Others, queue, Buffers) \cup {p}
  BY <1>0, <1>1, RunEffect
<1>3. KindOK(<<p, ev>>, at, status)
  BY <1>0, <1>2 DEF TrafficInv, KindsOK
<1>4. nw.fix = 0 /\ (ev = "input" => at[p] \in InBuffers(nw))
  BY <1>3 DEF KindOK
<1>5. at[p] \in Buffers
  BY <1>2, <1>4, SleeperStored
<1> QED  BY <1>0, <1>3, <1>4, <1>5, PacketShape

LEMMA RunsAgain ==
    ASSUME NetInv, NEW p \in Packets, NEW ev \in {"output", "input"}, Runs(p, ev),
           NEW d \in Nat, Again(d), queue' = queue, Configured, Unmoved, Unsent
    PROVE  NetInv'
<1>1. agenda' = Post(Others, p, ev, d)
  BY DEF Again, Runs
<1>2. KindOK(<<p, ev>>, at, status)
  BY PacketRuns
<1> QED  BY <1>1, <1>2, Reposted

LEMMA WaitsBehind ==
    ASSUME NetInv, NEW p \in Packets, NEW ev \in {"output", "input"}, Runs(p, ev),
           ~ IsHead(p, at[p]), WaitOn(at[p]), Configured, Unmoved, Unsent
    PROVE  NetInv'
<1>1. PICK b \in Buffers : b = at[p]
  BY PacketRuns
<1>2. Blocked(p, b, content[b], at)
  BY <1>1, PacketRuns DEF Blocked, IsHead
<1> QED  BY <1>1, <1>2, Suspended

LEMMA WaitsForRoom ==
    ASSUME NetInv, NEW p \in Packets, NEW ev \in {"output", "input"}, Runs(p, ev),
           NEW d \in Buffers, d # at[p], ~ Fits(d, PacketSize(p[1])), WaitOn(d),
           Configured, Unmoved, Unsent
    PROVE  NetInv'
<1>1. Bytes(d) = BytesOf(content[d])
  BY BufferFacts
<1>2. Blocked(p, d, content[d], at)
  BY <1>1, PacketRuns DEF Blocked, Fits
<1> QED  BY <1>2, Suspended

LEMMA Settled ==
    ASSUME unchangedMsgs
    PROVE  Configured /\ Unsent
  BY DEF unchangedMsgs, unchangedNet, routingVars, Configured, Unsent

LEMMA LinkTransferStep ==
    ASSUME NetInv, NEW p \in Packets, Runs(p, "output"), NEW b, b = at[p],
           b[1] = "out", IsHead(p, b), Conn(nw, b).link, LinkTransfer(p, b)
    PROVE  NetInv'
<1> DEFINE c == b[2]
           d == <<"in", c, b[3]>>
<1>0. NetTypes /\ nw \in Nets
  BY DEF NetInv, NetTypes
<1>1. PICK ev \in {"output", "input"} : ev = "output"
  OBVIOUS
<1>2. PICK ev2 \in {"output", "input"} : ev2 = "input"
  OBVIOUS
<1>3. Runs(p, ev)
  BY <1>1
<1>4. b \in OutBuffers(nw)
  BY <1>0, <1>3, PacketRuns, BufferShape DEF Buffers
<1>5. c \in DOMAIN nw.conns /\ d \in InBuffers(nw) /\ d # b /\ d \in Buffers
  BY <1>0, <1>4, BufferShape DEF Buffers
<1>6. nw.bandwidth \in Nat \ {0} /\ busy[LinkOf(c)] \in Nat /\ busy[Write(d)] \in Nat
  BY <1>0, <1>5, MessageShape, ResourceTypes
<1>7. CASE /\ Again(busy[LinkOf(c)]) \/ Again(busy[Write(d)]) \/ Again(1)
           /\ UNCHANGED <<queue, content, at, busy>> /\ unchangedMsgs
  <2>1. PICK k \in Nat : Again(k)
    BY <1>6, <1>7
  <2>2. queue' = queue /\ Unmoved /\ Configured /\ Unsent
    BY <1>7, Settled DEF Unmoved
  <2> QED  BY <1>3, <2>1, <2>2, RunsAgain
<1>8. CASE /\ ~ Fits(d, PacketSize(p[1])) /\ WaitOn(d)
           /\ UNCHANGED <<content, at, busy>> /\ unchangedMsgs
  <2>1. /\ ~ Fits(d, PacketSize(p[1])) /\ WaitOn(d) /\ d # at[p]
        /\ Unmoved /\ Configured /\ Unsent
    BY <1>5, <1>8, Settled DEF Unmoved
  <2> HIDE DEF d
  <2> QED  BY <1>3, <1>5, <2>1, WaitsForRoom
<1>9. CASE /\ Fits(d, PacketSize(p[1])) /\ Move(p, b, d, {LinkOf(c)}, "input", nw.bandwidth)
           /\ unchangedMsgs
  <2>1. /\ Fits(d, PacketSize(p[1])) /\ Move(p, b, d, {LinkOf(c)}, ev2, nw.bandwidth)
        /\ ev2 = "input" => d \in InBuffers(nw)
        /\ Configured /\ Unsent
    BY <1>2, <1>5, <1>9, Settled
  <2> HIDE DEF d
  <2> QED  BY <1>3, <1>5, <1>6, <2>1, Moved
<1> QED  BY <1>7, <1>8, <1>9 DEF LinkTransfer

LEMMA BusTransferStep ==
    ASSUME NetInv, NEW p \in Packets, Runs(p, "output"), NEW b, b = at[p],
           b[1] = "out", IsHead(p, b), BusTransfer(p, b)
    PROVE  NetInv'
<1> DEFINE c == b[2]
           next == table[BufferNode(nw, b)][nw.msgs[p[1]].dst].next
           ds == {x \in InBuffers(nw) : x[2] = c /\ BufferNode(nw, x) = next}
           d == FirstBuffer(ds)
           arb == BusArbitration(c, b)
<1>0. NetTypes /\ nw \in Nets
  BY DEF NetInv, NetTypes
<1>1. PICK ev \in {"output", "input"} : ev = "output"
  OBVIOUS
<1>2. PICK ev2 \in {"output", "input"} : ev2 = "input"
  OBVIOUS
<1>3. Runs(p, ev)
  BY <1>1
<1>4. b \in OutBuffers(nw)
  BY <1>0, <1>3, PacketRuns, BufferShape DEF Buffers
<1>5. ASSUME ds # {} PROVE d \in InBuffers(nw) /\ d # b /\ d \in Buffers
  <2>1. ds \in SUBSET InBuffers(nw)
    OBVIOUS
  <2> HIDE DEF ds
  <2>2. d \in ds
    BY <1>0, <1>5, <2>1, BufferChoice
  <2> HIDE DEF d
  <2> QED  BY <1>0, <1>4, <2>1, <2>2, BufferShape DEF Buffers
<1> HIDE DEF ds, d, arb
<1>6. nw.bandwidth \in Nat \ {0} /\ (ds # {} => busy[Write(d)] \in Nat)
  BY <1>0, <1>5, MessageShape, ResourceTypes
<1>7. CASE Panics("next_node_not_on_the_bus")
  BY <1>7, Panicked
<1>8. CASE /\ ds # {} /\ (Again(busy[Write(d)]) \/ Again(1))
           /\ UNCHANGED <<queue, content, at, busy>> /\ unchangedMsgs
  <2>1. PICK k \in Nat : Again(k)
    BY <1>6, <1>8
  <2>2. queue' = queue /\ Unmoved /\ Configured /\ Unsent
    BY <1>8, Settled DEF Unmoved
  <2> QED  BY <1>3, <2>1, <2>2, RunsAgain
<1>9. CASE /\ ds # {} /\ ~ Fits(d, PacketSize(p[1])) /\ WaitOn(d)
           /\ UNCHANGED <<content, at, busy>> /\ unchangedMsgs
  <2>1. /\ ~ Fits(d, PacketSize(p[1])) /\ WaitOn(d) /\ d # at[p] /\ d \in Buffers
        /\ Unmoved /\ Configured /\ Unsent
    BY <1>5, <1>9, Settled DEF Unmoved
  <2> QED  BY <1>3, <2>1, WaitsForRoom
<1>10. CASE /\ ds # {} /\ Fits(d, PacketSize(p[1]))
            /\ Move(p, b, d, {LaneOf(c, arb.lane)}, "input", nw.bandwidth)
            /\ unchangedMsgs
  <2>1. /\ Fits(d, PacketSize(p[1])) /\ Move(p, b, d, {LaneOf(c, arb.lane)}, ev2, nw.bandwidth)
        /\ ev2 = "input" => d \in InBuffers(nw)
        /\ d # b /\ d \in Buffers /\ Configured /\ Unsent
    BY <1>2, <1>5, <1>10, Settled
  <2> QED  BY <1>3, <1>6, <2>1, Moved
<1> QED  BY <1>7, <1>8, <1>9, <1>10 DEF BusTransfer, ds, d, arb

LEMMA OutputBufferStep ==
    ASSUME NetInv, NEW p \in Packets, OutputBuffer(p)
    PROVE  NetInv'
<1>1. PICK b : b = at[p]
  OBVIOUS
<1>2. Runs(p, "output")
  BY DEF OutputBuffer
<1>3. CASE Panics("not_a_source_buffer")
  BY <1>3, Panicked
<1>4. CASE /\ ~ IsHead(p, b) /\ WaitOn(b)
           /\ UNCHANGED <<content, at, busy, grant, last>> /\ unchangedMsgs
  <2>1. ~ IsHead(p, at[p]) /\ WaitOn(at[p]) /\ Unmoved /\ Configured /\ Unsent
    BY <1>1, <1>4, Settled DEF Unmoved
  <2>2. PICK ev \in {"output", "input"} : Runs(p, ev)
    BY <1>2
  <2> QED  BY <2>1, <2>2, WaitsBehind
<1>5. CASE b[1] = "out" /\ IsHead(p, b) /\ Conn(nw, b).link /\ LinkTransfer(p, b)
  BY <1>1, <1>2, <1>5, LinkTransferStep
<1>6. CASE b[1] = "out" /\ IsHead(p, b) /\ BusTransfer(p, b)
  BY <1>1, <1>2, <1>6, BusTransferStep
<1> QED  BY <1>1, <1>3, <1>4, <1>5, <1>6 DEF OutputBuffer

LEMMA ForwardStep ==
    ASSUME NetInv, NEW p \in Packets, Runs(p, "input"), NEW b, b = at[p],
           IsHead(p, b), Forward(p, b)
    PROVE  NetInv'
<1> DEFINE node == BufferNode(nw, b)
           o == table[node][nw.msgs[p[1]].dst].buffer
<1>0. NetTypes /\ nw \in Nets
  BY DEF NetInv, NetTypes
<1>1. PICK ev \in {"output", "input"} : ev = "input"
  OBVIOUS
<1>2. PICK ev2 \in {"output", "input"} : ev2 = "output"
  OBVIOUS
<1>3. Runs(p, ev)
  BY <1>1
<1>4. b \in InBuffers(nw) /\ b \in Buffers /\ p[1] \in Msgs
  BY <1>1, <1>3, PacketRuns
<1>5. o # NoBuffer => o \in Buffers /\ o # b
  <2>1. node \in nw.nodes /\ nw.msgs[p[1]].dst \in nw.nodes
    BY <1>0, <1>4, BufferShape, MessageShape
  <2>2. GoodBuffer(node, o)
    BY <2>1, GoodRoute
  <2> QED  BY <1>4, <2>2 DEF GoodBuffer
<1> HIDE DEF node, o
<1>6. /\ nw.crossbar \in Nat \ {0} /\ busy[Read(b)] \in Nat
      /\ o # NoBuffer => busy[Write(o)] \in Nat
  BY <1>0, <1>4, <1>5, MessageShape, ResourceTypes
<1>7. CASE Panics("null_output_buffer")
  BY <1>7, Panicked
<1>8. CASE /\ Again(busy[Read(b)]) \/ (o # NoBuffer /\ Again(busy[Write(o)])) \/ Again(1)
           /\ UNCHANGED <<queue, content, at, busy>> /\ unchangedMsgs
  <2>1. PICK k \in Nat : Again(k)
    BY <1>6, <1>8
  <2>2. queue' = queue /\ Unmoved /\ Configured /\ Unsent
    BY <1>8, Settled DEF Unmoved
  <2> QED  BY <1>3, <2>1, <2>2, RunsAgain
<1>9. CASE /\ o # NoBuffer /\ ~ Fits(o, PacketSize(p[1])) /\ WaitOn(o)
           /\ UNCHANGED <<content, at, busy>> /\ unchangedMsgs
  <2>1. /\ ~ Fits(o, PacketSize(p[1])) /\ WaitOn(o) /\ o # at[p] /\ o \in Buffers
        /\ Unmoved /\ Configured /\ Unsent
    BY <1>5, <1>9, Settled DEF Unmoved
  <2> QED  BY <1>3, <2>1, WaitsForRoom
<1>10. CASE /\ o # NoBuffer /\ Fits(o, PacketSize(p[1]))
            /\ Move(p, b, o, {}, "output", nw.crossbar) /\ unchangedMsgs
  <2>1. /\ Fits(o, PacketSize(p[1])) /\ Move(p, b, o, {}, ev2, nw.crossbar)
        /\ ev2 = "input" => o \in InBuffers(nw)
        /\ o # b /\ o \in Buffers /\ Configured /\ Unsent
    BY <1>2, <1>5, <1>10, Settled
  <2> QED  BY <1>3, <1>6, <2>1, Moved
<1> QED  BY <1>7, <1>8, <1>9, <1>10 DEF Forward, node, o

LEMMA InputBufferStep ==
    ASSUME NetInv, NEW p \in Packets, InputBuffer(p)
    PROVE  NetInv'
<1>1. PICK b : b = at[p]
  OBVIOUS
<1>2. Runs(p, "input")
  BY DEF InputBuffer
<1>3. PICK ev \in {"output", "input"} : ev = "input"
  OBVIOUS
<1>4. CASE /\ agenda' = Post(Others, p, "receive", 0)
           /\ UNCHANGED <<queue, content, at, busy, grant, last>> /\ unchangedMsgs
  <2>1. queue' = queue /\ Unmoved /\ Configured /\ Unsent
    BY <1>4, Settled DEF Unmoved
  <2>2. PICK ev2 \in {"retry", "output", "input", "receive", "arrived"} : ev2 = "receive"
    OBVIOUS
  <2>3. KindOK(<<p, ev2>>, at, status)
    <3>1. p[2] # 0
      BY <1>2, <1>3, PacketRuns
    <3> QED  BY <2>2, <3>1 DEF KindOK
  <2>4. agenda' = Post(Others, p, ev2, 0)
    BY <1>4, <2>2
  <2> QED  BY <1>2, <2>1, <2>3, <2>4, Reposted
<1>5. CASE /\ ~ IsHead(p, b) /\ WaitOn(b)
           /\ UNCHANGED <<content, at, busy, grant, last>> /\ unchangedMsgs
  <2>1. ~ IsHead(p, at[p]) /\ WaitOn(at[p]) /\ Unmoved /\ Configured /\ Unsent
    BY <1>1, <1>5, Settled DEF Unmoved
  <2>2. Runs(p, ev)
    BY <1>2, <1>3
  <2> QED  BY <2>1, <2>2, WaitsBehind
<1>6. CASE Panics("through_an_end_node")
  BY <1>6, Panicked
<1>7. CASE IsHead(p, b) /\ Forward(p, b)
  BY <1>1, <1>2, <1>7, ForwardStep
<1> QED  BY <1>1, <1>4, <1>5, <1>6, <1>7 DEF InputBuffer

-----------------------------------------------------------------------------
(***************************************************************************)
(* The invariant of the specification.                                     *)
(***************************************************************************)
LEMMA InitiallyOK ==
    ASSUME Init
    PROVE  NetInv
<1>0. nw \in Nets
  BY DEF Init, RoutingInit
<1>1. /\ agenda = <<>> /\ \A b \in Buffers : queue[b] = <<>> /\ content[b] = <<>>
      /\ \A m \in Msgs : status[m] = "idle" /\ assembled[m] = {}
  BY DEF Init, TrafficInit
<1>2. NetTypes
  BY <1>0 DEF Init, RoutingInit, TrafficInit, NetTypes
<1>3. TableInv
  <2>1. GoodTable(table)
    BY <1>0, InitialTableIsGood DEF Init, RoutingInit
  <2>2. /\ nw.steps \in Seq([from : nw.nodes, to : nw.nodes, next : nw.nodes, vc : Nat])
        /\ \A i \in DOMAIN nw.steps : nw.steps[i].next # nw.steps[i].from
    BY <1>0, NetAssumption
  <2>3. PICK q : q = nw.steps
    OBVIOUS
  <2>4. /\ q \in Seq([from : nw.nodes, to : nw.nodes, next : nw.nodes, vc : Nat])
        /\ Len(q) \in Nat /\ DOMAIN q = 1 .. Len(q)
    BY <2>2, <2>3
  <2>5. \A i \in 1 .. Len(q) : q[i] \in GoodSteps
    <3>1. \A i \in 1 .. Len(q) :
                q[i] \in [from : nw.nodes, to : nw.nodes, next : nw.nodes, vc : Nat]
      <4>1. PICK R : R = [from : nw.nodes, to : nw.nodes, next : nw.nodes, vc : Nat]
        BY Zenon
      <4>2. q \in Seq(R)
        BY <2>4, <4>1
      <4>3. \A i \in 1 .. Len(q) : q[i] \in R
        BY <4>2
      <4> QED  BY <4>1, <4>3
    <3>2. \A i \in 1 .. Len(q) : q[i].next # q[i].from
      BY <2>2, <2>3, <2>4
    <3> QED  BY <3>1, <3>2, Zenon DEF GoodSteps
  <2>6. q \in Seq(GoodSteps)
    BY <2>4, <2>5
  <2> QED  BY <2>1, <2>3, <2>6 DEF TableInv, Init, RoutingInit
<1>4. /\ FramesOf(agenda) = {} /\ Kinds(agenda) = {} /\ Once(agenda)
      /\ \A b \in Buffers : FramesOf(queue[b]) = {} /\ Kinds(queue[b]) = {} /\ Once(queue[b])
  BY <1>1, NoEvents
<1>5. EventsOK(agenda, queue, status, assembled)
  <2>1. Shape(agenda, queue, Buffers)
    BY <1>4 DEF Shape
  <2>2. \A f : f \notin Has(agenda, queue, Buffers)
    BY <1>4, HasIs
  <2>3. ASSUME NEW f \in Frames PROVE ~ Expected(f, status, assembled)
    <3>1. f[1] \in Msgs
      BY <1>0, PacketShape
    <3> QED  BY <1>1, <3>1 DEF Expected
  <2> QED  BY <2>1, <2>2, <2>3 DEF EventsOK
<1>6. KindsOK(agenda, queue, at, status)
  BY <1>4, HasIs DEF KindsOK
<1>7. PlacesOK(content, at, status)
  <2>1. \A b \in Buffers : IsInjective(content[b]) /\ Range(content[b]) = {}
    BY <1>1 DEF IsInjective, Range
  <2>2. \A p \in Packets : ~ Stored(p, status)
    BY <1>0, <1>1, PacketShape DEF Stored
  <2> QED  BY <2>1, <2>2 DEF PlacesOK
<1>8. RoomOK(content)
  <2>1. BytesOf(<<>>) = 0
    <3>1. UNION {{<<i, k>> : k \in 1 .. PacketSize((<<>>)[i][1])} : i \in DOMAIN <<>>} = {}
      OBVIOUS
    <3> QED  BY <3>1, FS_EmptySet DEF BytesOf
  <2>2. nw.room \in Nat
    BY <1>0, MessageShape
  <2> QED  BY <1>1, <2>1, <2>2 DEF RoomOK
<1>9. AssembledOK(status, assembled) /\ SleepOK(queue, content, at)
  BY <1>1, <1>4 DEF AssembledOK, SleepOK
<1> QED  BY <1>2, <1>3, <1>5, <1>6, <1>7, <1>8, <1>9 DEF NetInv, TrafficInv

\* A step that leaves the traffic alone.
LEMMA Undisturbed ==
    ASSUME NetInv, UNCHANGED traffic, nw' = nw,
           phase' \in {"start", "hops", "cost", "search", "ready", "error"},
           GoodTable(table'), steps' \in Seq(GoodSteps)
    PROVE  NetInv'
<1>0. /\ NetTypes /\ TrafficInv /\ agenda' = agenda /\ queue' = queue /\ Unmoved /\ Unsent
  BY DEF NetInv, traffic, Unmoved, Unsent
<1>1. TrafficInv'
  BY <1>0, NextTraffic DEF TrafficInv, Unmoved, Unsent
<1>2. NetTypes'
  BY <1>0, NextTypes DEF NetTypes, Unmoved, Unsent
<1>3. TableInv'
  BY NextTable
<1> QED  BY <1>1, <1>2, <1>3 DEF NetInv

LEMMA NextKeeps ==
    ASSUME NetInv, [Next]_vars
    PROVE  NetInv'
<1>0. NetTypes /\ TableInv /\ nw \in Nets
  BY DEF NetInv, NetTypes
<1>1. ASSUME UNCHANGED vars PROVE NetInv'
  BY <1>0, <1>1, Undisturbed DEF vars, routingVars, NetTypes, TableInv
<1>2. CASE Configure
  <2>1. /\ nw' = nw
        /\ phase' \in {phase, "start", "hops", "cost", "search", "ready", "error"}
        /\ GoodTable(table') /\ steps' \in Seq(GoodSteps)
    BY <1>0, <1>2, RoutingStep DEF Configure
  <2>2. phase' \in {"start", "hops", "cost", "search", "ready", "error"}
    BY <1>0, <2>1 DEF NetTypes
  <2> QED  BY <1>2, <2>1, <2>2, Undisturbed DEF Configure
<1>3. ASSUME NEW p \in Packets, OutputBuffer(p) \/ InputBuffer(p) \/ ReceivePacket(p)
      PROVE  NetInv'
  BY <1>3, OutputBufferStep, InputBufferStep, ReceivePacketStep
<1>4. ASSUME NEW m \in Msgs, ClientRetries(m) PROVE NetInv'
  <2>1. PICK ag : ag = Others
    OBVIOUS
  <2>2. Sends(m, ag) /\ TrySend(m, ag)
    BY <1>4, <2>1 DEF ClientRetries, Sends
  <2> QED  BY <2>2, TrySendStep
<1>5. ASSUME NEW m \in Msgs, ClientSends(m) PROVE NetInv'
  <2>1. PICK ag : ag = agenda
    OBVIOUS
  <2>2. Sends(m, ag) /\ TrySend(m, ag)
    BY <1>5, <2>1 DEF ClientSends, Sends
  <2> QED  BY <2>2, TrySendStep
<1>6. ASSUME NEW m \in Msgs, ClientReceives(m) PROVE NetInv'
  BY <1>6, ClientReceivesStep
<1>7. CASE Tick
  BY <1>7, Ticked
<1>8. CASE Finished
  BY <1>1, <1>8 DEF Finished
<1> QED  BY <1>1, <1>2, <1>3, <1>4, <1>5, <1>6, <1>7, <1>8 DEF Next, Step

\* NetInv holds in every state.
LEMMA Invariant == Spec => []NetInv
<1>1. Init => NetInv
  BY InitiallyOK
<1>2. NetInv /\ [Next]_vars => NetInv'
  BY NextKeeps
<1> QED  BY <1>1, <1>2, PTL DEF Spec

-----------------------------------------------------------------------------
(***************************************************************************)
(* What the invariant says about the properties of Network.                *)
(***************************************************************************)
\* Types, and no buffer holds more than its size: TypeOK is an invariant of
\* every network.  What TrySend, TransferPacket and Forward check with Fits is
\* still true when the packets are inserted.
THEOREM TypeCorrect == Spec => []TypeOK
<1>1. ASSUME NetInv PROVE TypeOK
  <2>0. NetTypes
    BY <1>1 DEF NetInv
  <2>1. ASSUME NEW i \in DOMAIN agenda
        PROVE  /\ agenda[i].frame \in Frames
               /\ agenda[i].ev \in {"retry", "output", "input", "receive", "arrived"}
               /\ agenda[i].t \in Nat
    <3>1. agenda[i] \in Events
      BY <2>0 DEF NetTypes
    <3> QED  BY <3>1 DEF Events
  <2>2. ASSUME NEW b \in Buffers
        PROVE  /\ Range(queue[b]) \subseteq Waiters /\ Range(content[b]) \subseteq Packets
               /\ Bytes(b) <= nw.room
    <3>1. queue[b] \in Seq(Waiters)
      BY <2>0 DEF NetTypes
    <3>2. content[b] \in Seq(Packets) /\ Bytes(b) <= nw.room
      BY <1>1, BufferFacts
    <3> QED  BY <3>1, <3>2 DEF Range
  <2>3. /\ phase \in {"start", "hops", "cost", "search", "ready", "error"}
        /\ at \in [Packets -> Buffers \cup {NoBuffer}]
        /\ busy \in [Resources -> Nat]
        /\ status \in [Msgs -> {"idle", "trying", "sent", "received"}]
        /\ \A m \in Msgs : assembled[m] \subseteq PacketsOf(m)
    BY <2>0 DEF NetTypes
  <2> QED  BY <2>1, <2>2, <2>3 DEF TypeOK
<1> QED  BY <1>1, Invariant, PTL

\* SleepersBlocked is an invariant of every network: whatever the order in which
\* packets leave a buffer, its waiters are woken up before the reason that
\* suspended them is gone, so no wakeup is lost.
THEOREM SleepersAreBlocked == Spec => []SleepersBlocked
<1>1. ASSUME NetInv PROVE SleepersBlocked
  <2> SUFFICES ASSUME NEW b \in Buffers, NEW i \in DOMAIN queue[b], NEW f,
                      f = queue[b][i].frame
               PROVE  IF f[2] = 0 THEN ~ Fits(b, Required(f[1]))
                      ELSE IF at[f] = b THEN ~ IsHead(f, b)
                      ELSE ~ Fits(b, PacketSize(f[1]))
    BY DEF SleepersBlocked
  <2>1. f \in FramesOf(queue[b])
    BY DEF FramesOf
  <2>2. Blocked(f, b, content[b], at) /\ Bytes(b) = BytesOf(content[b])
    BY <1>1, <2>1, BufferFacts
  <2> QED  BY <2>2 DEF Blocked, Fits, IsHead
<1> QED  BY <1>1, Invariant, PTL

LEMMA Single ==
    ASSUME NEW S, \A x, y \in S : x = y
    PROVE  Cardinality(S) = IF S = {} THEN 0 ELSE 1
<1>1. CASE S = {}
  BY <1>1, FS_EmptySet
<1>2. CASE S # {}
  <2>1. PICK x : x \in S
    BY <1>2
  <2>2. S = {x}
    BY <2>1
  <2> QED  BY <1>2, <2>2, FS_Singleton
<1> QED  BY <1>1, <1>2

\* A frame has one pending event or none.
LEMMA PendingIs ==
    ASSUME Shape(agenda, queue, Buffers), NEW f
    PROVE  Cardinality(Pending(f)) = IF f \in Has(agenda, queue, Buffers) THEN 1 ELSE 0
<1>1. \A x : x \in Pending(f) <=>
            \/ \E i \in DOMAIN agenda : agenda[i].frame = f /\ x = <<<<"agenda">>, i>>
            \/ \E b \in Buffers : \E i \in DOMAIN queue[b] :
                    queue[b][i].frame = f /\ x = <<b, i>>
  BY DEF Pending
<1>2. Pending(f) # {} <=> f \in Has(agenda, queue, Buffers)
  <2>1. f \in FramesOf(agenda) <=> \E i \in DOMAIN agenda : agenda[i].frame = f
    BY DEF FramesOf
  <2>2. \A b : f \in FramesOf(queue[b]) <=> \E i \in DOMAIN queue[b] : queue[b][i].frame = f
    BY DEF FramesOf
  <2>3. ASSUME Pending(f) # {} PROVE f \in Has(agenda, queue, Buffers)
    <3>1. PICK x : x \in Pending(f)
      BY <2>3
    <3> QED  BY <1>1, <2>1, <2>2, <3>1, HasIs
  <2>4. ASSUME f \in Has(agenda, queue, Buffers) PROVE \E x : x \in Pending(f)
    <3>1. CASE f \in FramesOf(agenda)
      BY <1>1, <2>1, <3>1
    <3>2. CASE \E b \in Buffers : f \in FramesOf(queue[b])
      BY <1>1, <2>2, <3>2
    <3> QED  BY <2>4, <3>1, <3>2, HasIs
  <2> QED  BY <2>3, <2>4
<1>3. ASSUME NEW x \in Pending(f), NEW y \in Pending(f) PROVE x = y
  <2>1. CASE f \in FramesOf(agenda)
    <3>1. \A b \in Buffers : f \notin FramesOf(queue[b])
      BY <2>1 DEF Shape
    <3>2. \A b \in Buffers : \A i \in DOMAIN queue[b] : queue[b][i].frame # f
      BY <3>1 DEF FramesOf
    <3>3. PICK i \in DOMAIN agenda : agenda[i].frame = f /\ x = <<<<"agenda">>, i>>
      BY <1>1, <3>2
    <3>4. PICK j \in DOMAIN agenda : agenda[j].frame = f /\ y = <<<<"agenda">>, j>>
      BY <1>1, <3>2
    <3>5. i = j
      BY <3>3, <3>4 DEF Shape, Once
    <3> QED  BY <3>3, <3>4, <3>5
  <2>2. CASE f \notin FramesOf(agenda)
    <3>1. \A i \in DOMAIN agenda : agenda[i].frame # f
      BY <2>2 DEF FramesOf
    <3>2. PICK b \in Buffers : \E i \in DOMAIN queue[b] : queue[b][i].frame = f /\ x = <<b, i>>
      BY <1>1, <3>1
    <3>3. PICK d \in Buffers : \E i \in DOMAIN queue[d] : queue[d][i].frame = f /\ y = <<d, i>>
      BY <1>1, <3>1
    <3>4. PICK i \in DOMAIN queue[b] : queue[b][i].frame = f /\ x = <<b, i>>
      BY <3>2
    <3>5. PICK j \in DOMAIN queue[d] : queue[d][j].frame = f /\ y = <<d, j>>
      BY <3>3
    <3>6. f \in FramesOf(queue[b]) /\ f \in FramesOf(queue[d])
      BY <3>4, <3>5 DEF FramesOf
    <3>7. b = d
      BY <3>6 DEF Shape
    <3>8. i = j
      BY <3>4, <3>5, <3>7 DEF Shape, Once
    <3> QED  BY <3>4, <3>5, <3>7, <3>8
  <2> QED  BY <2>1, <2>2
<1>4. Cardinality(Pending(f)) = IF Pending(f) = {} THEN 0 ELSE 1
  BY <1>3, Single
<1> QED  BY <1>2, <1>4

\* A packet is in one place or none.
LEMMA PlacesIs ==
    ASSUME PlacesOK(content, at, status), NEW p \in Packets
    PROVE  /\ {x[1] : x \in Places(p)} = (IF Stored(p, status) THEN {at[p]} ELSE {})
           /\ Cardinality(Places(p)) <= 1
<1>1. \A x : x \in Places(p) <=>
            \E b \in Buffers : \E i \in DOMAIN content[b] : content[b][i] = p /\ x = <<b, i>>
  BY DEF Places
<1>2. \A b \in Buffers :
            /\ (\E i \in DOMAIN content[b] : content[b][i] = p) <=> Stored(p, status) /\ at[p] = b
            /\ \A i, j \in DOMAIN content[b] : content[b][i] = content[b][j] => i = j
  <2>1. \A b \in Buffers : p \in Range(content[b]) <=> Stored(p, status) /\ at[p] = b
    BY DEF PlacesOK
  <2>2. \A b : p \in Range(content[b]) <=> \E i \in DOMAIN content[b] : content[b][i] = p
    BY DEF Range
  <2>3. \A b \in Buffers : IsInjective(content[b])
    BY DEF PlacesOK
  <2> QED  BY <2>1, <2>2, <2>3 DEF IsInjective
<1>3. ASSUME NEW x \in Places(p) PROVE Stored(p, status) /\ x[1] = at[p]
  <2>1. PICK b \in Buffers : \E i \in DOMAIN content[b] : content[b][i] = p /\ x = <<b, i>>
    BY <1>1
  <2> QED  BY <1>2, <2>1
<1>4. ASSUME Stored(p, status) PROVE \E x \in Places(p) : x[1] = at[p]
  <2>1. at[p] \in Buffers
    BY <1>4 DEF PlacesOK
  <2>2. PICK i \in DOMAIN content[at[p]] : content[at[p]][i] = p
    BY <1>2, <1>4, <2>1
  <2>3. <<at[p], i>> \in Places(p) /\ <<at[p], i>>[1] = at[p]
    BY <1>1, <2>1, <2>2
  <2> QED  BY <2>3
<1>5. {x[1] : x \in Places(p)} = (IF Stored(p, status) THEN {at[p]} ELSE {})
  BY <1>3, <1>4, Zenon
<1>6. ASSUME NEW x \in Places(p), NEW y \in Places(p) PROVE x = y
  <2>1. PICK b \in Buffers : \E i \in DOMAIN content[b] : content[b][i] = p /\ x = <<b, i>>
    BY <1>1
  <2>2. PICK d \in Buffers : \E i \in DOMAIN content[d] : content[d][i] = p /\ y = <<d, i>>
    BY <1>1
  <2>3. b = d
    BY <1>2, <2>1, <2>2
  <2>4. PICK i \in DOMAIN content[b] : content[b][i] = p /\ x = <<b, i>>
    BY <2>1
  <2>5. PICK j \in DOMAIN content[b] : content[b][j] = p /\ y = <<b, j>>
    BY <2>2, <2>3
  <2>6. i = j
    BY <1>2, <2>4, <2>5
  <2> QED  BY <2>4, <2>5, <2>6
<1>7. Cardinality(Places(p)) = IF Places(p) = {} THEN 0 ELSE 1
  BY <1>6, Single
<1>8. Cardinality(Places(p)) <= 1
  BY <1>7
<1> QED  BY <1>5, <1>8

\* PacketsConserved is an invariant of every network: between TrySend and Receive
\* a packet is in exactly one buffer and has exactly one event, in the heap or in
\* a queue, and nothing is left of a message that has been received.
THEOREM PacketsAreConserved == Spec => []PacketsConserved
<1>1. ASSUME NetInv PROVE PacketsConserved
  <2>0. NetTypes /\ TrafficInv /\ nw \in Nets
    BY <1>1 DEF NetInv, NetTypes
  <2>1. Shape(agenda, queue, Buffers) /\ PlacesOK(content, at, status)
    BY <2>0 DEF TrafficInv, EventsOK
  <2>2. ASSUME NEW m \in Msgs, NEW p \in PacketsOf(m)
        PROVE  /\ {x[1] : x \in Places(p)} =
                    (IF status[m] = "sent" /\ nw.fix = 0 THEN {at[p]} ELSE {})
               /\ Cardinality(Places(p)) <= 1
               /\ Cardinality(Pending(p)) =
                    (IF status[m] = "sent" /\ p \notin assembled[m] THEN 1 ELSE 0)
    <3>1. p \in Packets /\ p[1] = m /\ p[2] # 0 /\ p \in Frames
      BY <2>0, PacketShape
    <3>2. Stored(p, status) <=> status[m] = "sent" /\ nw.fix = 0
      BY <3>1 DEF Stored
    <3>3. Expected(p, status, assembled) <=> status[m] = "sent" /\ p \notin assembled[m]
      BY <3>1 DEF Expected
    <3>4. Expected(p, status, assembled) <=> p \in Has(agenda, queue, Buffers)
      BY <2>0, <3>1 DEF TrafficInv, EventsOK
    <3>5. Cardinality(Pending(p)) = IF p \in Has(agenda, queue, Buffers) THEN 1 ELSE 0
      BY <2>1, PendingIs
    <3>6. /\ {x[1] : x \in Places(p)} = (IF Stored(p, status) THEN {at[p]} ELSE {})
          /\ Cardinality(Places(p)) <= 1
      BY <2>1, <3>1, PlacesIs
    <3>7. {x[1] : x \in Places(p)} =
                    (IF status[m] = "sent" /\ nw.fix = 0 THEN {at[p]} ELSE {})
      BY <3>2, <3>6
    <3> QED  BY <3>3, <3>4, <3>5, <3>6, <3>7
  <2>3. ASSUME NEW m \in Msgs
        PROVE  Cardinality(Pending(<<m, 0>>)) =
                    IF \/ status[m] = "trying"
                       \/ status[m] = "sent" /\ assembled[m] = PacketsOf(m)
                    THEN 1 ELSE 0
    <3>1. PICK f \in Frames : f = <<m, 0>>
      BY <2>0, PacketShape
    <3>2. f[1] = m /\ f[2] = 0
      BY <3>1
    <3>3. Expected(f, status, assembled) <=>
                \/ status[m] = "trying"
                \/ status[m] = "sent" /\ assembled[m] = PacketsOf(m)
      BY <3>2 DEF Expected
    <3>4. Expected(f, status, assembled) <=> f \in Has(agenda, queue, Buffers)
      BY <2>0 DEF TrafficInv, EventsOK
    <3>5. Cardinality(Pending(f)) = IF f \in Has(agenda, queue, Buffers) THEN 1 ELSE 0
      BY <2>1, PendingIs
    <3> QED  BY <3>1, <3>3, <3>4, <3>5
  <2> QED  BY <2>2, <2>3 DEF PacketsConserved
<1> QED  BY <1>1, Invariant, PTL
-----------------------------------------------------------------------------
(***************************************************************************)
(* The finished table.  RoutesInv is kept by the steps of the              *)
(* configuration; the traffic does not touch it.                           *)
(***************************************************************************)
\* The handlers leave the configuration alone, or panic.
Untouched ==
    /\ UNCHANGED <<nw, table, steps, walk, dfs, warned>>
    /\ phase = "ready" /\ phase' \in {"ready", "error"}

\* A handler that leaves the configuration alone.
LEMMA Settles ==
    ASSUME phase = "ready", unchangedNet
    PROVE  Untouched
  BY DEF unchangedNet, routingVars, Untouched

\* The same, for a handler that leaves the messages alone, too.
LEMMA SettlesMessages ==
    ASSUME phase = "ready", unchangedMsgs
    PROVE  Untouched
  BY Settles DEF unchangedMsgs

\* A panic ends the program.
LEMMA PanicEnds ==
    ASSUME phase = "ready", NEW why, Panics(why)
    PROVE  Untouched
  BY DEF Panics, Fail, Untouched

\* The transfer over a link or a bus does not touch the configuration.
LEMMA TransferTouches ==
    ASSUME NEW p, NEW b, phase = "ready", LinkTransfer(p, b) \/ BusTransfer(p, b)
    PROVE  Untouched
<1>1. ASSUME LinkTransfer(p, b) PROVE unchangedMsgs
  BY <1>1, Zenon DEF LinkTransfer
<1>2. ASSUME BusTransfer(p, b) PROVE unchangedMsgs \/ Panics("next_node_not_on_the_bus")
  BY <1>2, Zenon DEF BusTransfer
<1> QED BY <1>1, <1>2, SettlesMessages, PanicEnds

\* Neither do the handlers of packets.
LEMMA HandlersTouch ==
    ASSUME NEW p, OutputBuffer(p) \/ InputBuffer(p) \/ ReceivePacket(p)
    PROVE  Untouched
<1>1. phase = "ready"
  BY DEF OutputBuffer, InputBuffer, ReceivePacket, Runs
<1>2. ASSUME OutputBuffer(p)
      PROVE  \/ unchangedMsgs \/ Panics("not_a_source_buffer")
             \/ LinkTransfer(p, at[p]) \/ BusTransfer(p, at[p])
  BY <1>2, Zenon DEF OutputBuffer
<1>3. ASSUME InputBuffer(p)
      PROVE  \/ unchangedMsgs \/ Panics("through_an_end_node") \/ Forward(p, at[p])
  BY <1>3, Zenon DEF InputBuffer
<1>4. ASSUME Forward(p, at[p]) PROVE unchangedMsgs \/ Panics("null_output_buffer")
  BY <1>4, Zenon DEF Forward
<1>5. ASSUME ReceivePacket(p)
      PROVE  \/ unchangedNet \/ Panics("assembled_twice")
             \/ Receive(p[1], assembled[p[1]] \cup {p})
  BY <1>5, Zenon DEF ReceivePacket
<1>6. ASSUME NEW m, NEW ps, Receive(m, ps) PROVE unchangedNet \/ Panics("packet_has_not_arrived")
  BY <1>6, Zenon DEF Receive
<1> QED BY <1>1, <1>2, <1>3, <1>4, <1>5, <1>6, TransferTouches, Settles, SettlesMessages, PanicEnds

\* Neither do the clients.
LEMMA ClientsTouch ==
    ASSUME NEW m, ClientSends(m) \/ ClientRetries(m) \/ ClientReceives(m)
    PROVE  Untouched
<1>1. phase = "ready"
  BY DEF ClientSends, ClientRetries, ClientReceives, Runs
<1>2. ASSUME NEW ag, TrySend(m, ag)
      PROVE  unchangedNet \/ Panics("no_route") \/ Panics("message_too_big")
  BY <1>2, Zenon DEF TrySend
<1>3. ASSUME NEW ps, Receive(m, ps) PROVE unchangedNet \/ Panics("packet_has_not_arrived")
  BY <1>3, Zenon DEF Receive
<1> QED BY <1>1, <1>2, <1>3, Settles, PanicEnds DEF ClientSends, ClientRetries, ClientReceives

\* Nothing but Configure touches the configuration.
LEMMA TrafficTouches ==
    ASSUME Step \/ (\E m \in Msgs : ClientSends(m)) \/ Finished
    PROVE  Untouched
<1>1. ASSUME Tick PROVE phase = "ready" /\ unchangedNet
  BY <1>1 DEF Tick
<1>2. ASSUME Finished PROVE phase = "ready" /\ unchangedNet
  BY <1>2 DEF Finished, vars, unchangedNet
<1> QED BY <1>1, <1>2, HandlersTouch, ClientsTouch, Settles DEF Step

\* RoutesInv is inductive.
LEMMA RoutesStep ==
    ASSUME RoutesInv, [Next]_vars
    PROVE  RoutesInv'
<1>1. CASE RoutingNext
  BY <1>1, ConfigureKeeps
<1>2. ASSUME UNCHANGED vars PROVE RoutesInv'
  <2>1. SameOrError
    BY <1>2 DEF vars, routingVars, SameOrError
  <2> QED BY <2>1, RoutesIdle
<1>3. ASSUME Untouched PROVE RoutesInv'
  <2>1. SameOrError
    BY <1>3 DEF Untouched, SameOrError
  <2> QED BY <2>1, RoutesIdle
<1> QED BY <1>1, <1>2, <1>3, TrafficTouches DEF Next, Configure

\* RoutesInv holds in every state.
LEMMA RoutesInvariant == Spec => []RoutesInv
<1>1. Init => RoutesInv
  BY InitialRoutes DEF Init
<1>2. RoutesInv /\ [Next]_vars => RoutesInv'
  BY RoutesStep
<1> QED BY <1>1, <1>2, PTL DEF Spec

\* RoutesShortest is a property of every network: when Floyd-Warshall has
\* finished, following the table leads along a shortest route, or the entry is
\* empty and there is none, whatever the connections and the order of the nodes.
THEOREM RoutesAreShortest == Spec => RoutesShortest
<1>1. ASSUME RoutesInv, [Next]_vars, phase = "hops", phase' = "search"
      PROVE  Shortest(nw, table')
  <2>1. FloydWarshallHops
    <3>1. ~ UNCHANGED vars
      BY <1>1 DEF vars, routingVars
    <3>2. ~ Untouched
      BY <1>1 DEF Untouched
    <3>3. RoutingNext
      BY <1>1, <3>1, <3>2, TrafficTouches DEF Next, Configure
    <3> QED BY <1>1, <3>3 DEF RoutingNext, FloydWarshallCosts, UpdateRoute, CostStart, UpdateCost,
                              Search
  <2>2. nw \in Nets /\ Complete(table')
    BY <1>1, <2>1, HopsStep DEF RoutesInv
  <2> QED BY <2>2, DoneIsShortest DEF Complete
<1>2. RoutesInv /\ [Next]_vars =>
            [phase = "hops" /\ phase' = "search" => Shortest(nw, table')]_routingVars
  BY <1>1
<1> QED BY <1>2, RoutesInvariant, PTL DEF Spec, RoutesShortest

\* CycleWarned is a property of every network: the search warns when the
\* buffers that packets of end nodes hold one after the other form a circle, and
\* never without a cycle in the table.
THEOREM CyclesAreWarned == Spec => CycleWarned
<1>1. ASSUME RoutesInv, [Next]_vars, phase # "ready", phase' = "ready"
      PROVE  /\ Cyclic(Dependencies(nw, table)) => warned'
             /\ warned' => Cyclic(Edges(nw, table))
  <2>1. Search
    <3>1. ~ UNCHANGED vars
      BY <1>1 DEF vars, routingVars
    <3>2. ~ Untouched
      BY <1>1 DEF Untouched
    <3>3. RoutingNext
      BY <1>1, <3>1, <3>2, TrafficTouches DEF Next, Configure
    <3> QED BY <1>1, <3>3 DEF RoutingNext, FloydWarshallCosts, FloydWarshallHops, UpdateRoute,
                              CostStart, UpdateCost, NextEntry, Fail
  <2>2. /\ nw \in Nets /\ TableOK(table) /\ warned = FALSE
        /\ DfsInv(dfs, Edges(nw, table), Vertices(nw, table))
    BY <1>1, <2>1 DEF RoutesInv, Search
  <2>3. SearchEnds(Edges(nw, table))
    <3>1. \/ SearchesOn(Edges(nw, table), Vertices(nw, table))
          \/ SearchEnds(Edges(nw, table))
          \/ phase' = "error" /\ warned' = warned /\ dfs' = dfs
      BY <2>1, <2>2, SearchStep
    <3> QED BY <1>1, <3>1 DEF SearchesOn
  <2>4. Dependencies(nw, table) \subseteq Edges(nw, table)
    BY <2>2, DependenciesAreEdges
  <2> QED BY <2>2, <2>3, <2>4 DEF SearchEnds
<1>2. RoutesInv /\ [Next]_vars =>
            [phase # "ready" /\ phase' = "ready" =>
                /\ Cyclic(Dependencies(nw, table)) => warned'
                /\ warned' => Cyclic(Edges(nw, table))]_routingVars
  BY <1>1
<1> QED BY <1>2, RoutesInvariant, PTL DEF Spec, CycleWarned
-----------------------------------------------------------------------------
(***************************************************************************)
(* No handler panics.  The configuration has to be sound for that; the     *)
(* code expects this of it without a check.                                *)
(***************************************************************************)
To(p) == nw.msgs[p[1]].dst

\* Table t leads message m on in the nodes R, from its source to its destination:
\* each of them has an output buffer for it that ends at the next node, and no
\* end node lies in between.
Onward(n, t, i, dst, R) ==
    LET b == t[i][dst].buffer
        next == t[i][dst].next
    IN  /\ b \in OutBuffersOf(n, i)
        /\ next \in R /\ next \notin n.ends \ {dst}
        /\ IF Conn(n, b).link THEN BufferNode(n, <<"in", b[2], b[3]>>) = next
                              ELSE Leads(n, b, next)

Guides(n, t, m, R) ==
    LET dst == n.msgs[m].dst
    IN  /\ n.msgs[m].src \in R \ {dst}
        /\ \A i \in R \ {dst} : Onward(n, t, i, dst, R)

\* Every message fits in the buffers and has a route.
Sound ==
    \A m \in Msgs : /\ Required(m) <= nw.room
                    /\ \E R \in SUBSET nw.nodes : Guides(nw, table, m, R)

\* Buffer b is on the route R of packet p.
InPlace(p, b, R) ==
    /\ b \in Buffers /\ BufferNode(nw, b) \in R
    /\ b \in OutBuffers(nw) => /\ BufferNode(nw, b) # To(p)
                               /\ table[BufferNode(nw, b)][To(p)].buffer = b
    /\ b \in InBuffers(nw) => BufferNode(nw, b) \notin nw.ends \ {To(p)}

\* What event ev of packet p says about the buffer b of the packet.
FitsEvent(ev, p, b) ==
    /\ ev = "output" => b \in OutBuffers(nw)
    /\ ev = "receive" => BufferNode(nw, b) = To(p)

OnRoute(p, R, kinds, a, as) ==
    /\ InPlace(p, a[p], R)
    /\ \A ev : <<p, ev>> \in kinds => FitsEvent(ev, p, a[p])
    /\ p \in as[p[1]] => BufferNode(nw, a[p]) = To(p)

\* The packets are on the routes of their messages.  Nothing is sent before the
\* network is configured.
RouteInv ==
    /\ phase \notin {"ready", "error"} => \A m \in Msgs : status[m] = "idle"
    /\ \A p \in Packets, R \in SUBSET nw.nodes :
            Stored(p, status) /\ Guides(nw, table, p[1], R) =>
                OnRoute(p, R, AllKinds(agenda, queue, Buffers), at, assembled)

\* Packet p is where it was and has no new event.
Stays(p) ==
    /\ Stored(p, status) /\ at'[p] = at[p]
    /\ \A ev : <<p, ev>> \in AllKinds(agenda', queue', Buffers) =>
                    <<p, ev>> \in AllKinds(agenda, queue, Buffers)
    /\ p \in assembled'[p[1]] => p \in assembled[p[1]]

\* Packet p is on its route in the next state.
Arrives(p) ==
    \A R \in SUBSET nw.nodes : Guides(nw, table, p[1], R) =>
        OnRoute(p, R, AllKinds(agenda', queue', Buffers), at', assembled')

\* What has to be shown of every handler.
Fine == RouteInv' /\ (Sound => failed' = failed)

\* A packet that is on its route in b when its event ev runs is on its route in d
\* with its new event ev2.
Follows(p, b, d, ev, ev2) ==
    \A R \in SUBSET nw.nodes :
        Guides(nw, table, p[1], R) /\ InPlace(p, b, R) /\ FitsEvent(ev, p, b) =>
            InPlace(p, d, R) /\ FitsEvent(ev2, p, d)

LEMMA RouteKept ==
    ASSUME NetInv, RouteInv, nw' = nw, table' = table, phase' \in {"ready", "error"},
           \A p \in Packets : Stored(p, status') => Stays(p) \/ Arrives(p)
    PROVE  RouteInv'
<1>1. /\ Packets' = Packets /\ Buffers' = Buffers
      /\ \A p, st : Stored(p, st)' <=> st'[p[1]] = "sent" /\ nw.fix = 0
  BY SameNet DEF Stored
<1>2. ASSUME NEW p \in Packets, NEW R \in SUBSET nw.nodes, Stored(p, status'),
             Guides(nw, table, p[1], R)
      PROVE  OnRoute(p, R, AllKinds(agenda', queue', Buffers), at', assembled')
  <2>1. CASE Stays(p)
    <3>1. OnRoute(p, R, AllKinds(agenda, queue, Buffers), at, assembled)
      BY <1>2, <2>1 DEF RouteInv, Stays
    <3> QED BY <2>1, <3>1 DEF OnRoute, Stays
  <2>2. CASE Arrives(p)
    BY <1>2, <2>2 DEF Arrives
  <2> QED BY <1>2, <2>1, <2>2
<1>3. ASSUME NEW p \in Packets, NEW R \in SUBSET nw.nodes,
             status'[p[1]] = "sent" /\ nw.fix = 0, Guides(nw', table', p[1], R)
      PROVE  OnRoute(p, R, AllKinds(agenda, queue, Buffers), at, assembled)'
  <2>1. Stored(p, status') /\ Guides(nw, table, p[1], R)
    BY <1>3 DEF Stored
  <2>2. OnRoute(p, R, AllKinds(agenda', queue', Buffers), at', assembled')
    BY <1>2, <2>1
  <2>3. OnRoute(p, R, AllKinds(agenda, queue, Buffers), at, assembled)' <=>
        OnRoute(p, R, AllKinds(agenda', queue', Buffers), at', assembled')
    BY <1>1 DEF OnRoute, InPlace, FitsEvent, To
  <2> QED BY <2>2, <2>3
<1>4. \A p \in Packets', R \in (SUBSET nw.nodes)' :
            Stored(p, status)' /\ Guides(nw', table', p[1], R) =>
                OnRoute(p, R, AllKinds(agenda, queue, Buffers), at, assembled)'
  BY <1>1, <1>3 DEF Stored
<1> QED BY <1>4 DEF RouteInv

\* A handler that leaves the packets where they are and posts no new events.
LEMMA RouteSame ==
    ASSUME NetInv, RouteInv, nw' = nw, table' = table, phase' \in {"ready", "error"},
           at' = at, Unsent,
           AllKinds(agenda', queue', Buffers) \subseteq AllKinds(agenda, queue, Buffers)
    PROVE  RouteInv'
<1>1. \A p \in Packets : Stored(p, status') => Stays(p)
  BY DEF Stays, Unsent, Stored
<1> QED BY <1>1, RouteKept

\* The packet of a handler is on its route.
LEMMA HasRoute ==
    ASSUME NetInv, RouteInv, Sound, NEW p \in Packets, Stored(p, status)
    PROVE  \E R \in SUBSET nw.nodes :
                /\ Guides(nw, table, p[1], R)
                /\ OnRoute(p, R, AllKinds(agenda, queue, Buffers), at, assembled)
<1>1. p[1] \in Msgs
  BY PacketShape DEF NetInv, NetTypes
<1>2. PICK R \in SUBSET nw.nodes : Guides(nw, table, p[1], R)
  BY <1>1 DEF Sound
<1> QED BY <1>2 DEF RouteInv

\* A panic that soundness excludes.
LEMMA PanicFine ==
    ASSUME NetInv, RouteInv, NEW why, Panics(why), ~ Sound
    PROVE  Fine
<1>1. /\ nw' = nw /\ table' = table /\ phase' = "error" /\ at' = at /\ Unsent
      /\ agenda' = agenda /\ queue' = queue
  BY DEF Panics, Fail, traffic, Unsent
<1>2. RouteInv'
  BY <1>1, RouteSame
<1> QED BY <1>2 DEF Fine

\* Nothing of the configuration changes.
LEMMA SettledFine ==
    ASSUME phase = "ready", unchangedNet
    PROVE  /\ nw' = nw /\ table' = table /\ phase' \in {"ready", "error"} /\ failed' = failed
           /\ Configured
  BY DEF unchangedNet, routingVars, Configured

\* The event that runs is scheduled again or suspended.
LEMMA AgainFine ==
    ASSUME NetInv, RouteInv, phase = "ready", NEW f, NEW ev, Runs(f, ev),
           at' = at, unchangedMsgs,
           \/ \E d \in Nat : Again(d) /\ queue' = queue
           \/ ev \in {"retry", "output", "input"} /\ \E b \in Buffers : WaitOn(b)
    PROVE  Fine
<1>0. NetTypes /\ Shape(agenda, queue, Buffers)
  BY DEF NetInv, TrafficInv, EventsOK
<1>1. /\ nw' = nw /\ table' = table /\ phase' \in {"ready", "error"} /\ failed' = failed
      /\ Unsent
  BY SettledFine DEF unchangedMsgs, Unsent
<1>2. /\ Others \in Seq(Events) /\ f \in Frames
      /\ Shape(Others, queue, Buffers)
      /\ f \notin Has(Others, queue, Buffers)
      /\ AllKinds(Others, queue, Buffers) \subseteq AllKinds(agenda, queue, Buffers)
      /\ <<f, ev>> \in AllKinds(agenda, queue, Buffers)
      /\ ev \in {"retry", "output", "input", "receive", "arrived"}
  BY <1>0, RunEffect
<1>3. AllKinds(agenda', queue', Buffers) \subseteq AllKinds(agenda, queue, Buffers)
  <2>1. CASE \E d \in Nat : Again(d) /\ queue' = queue
    <3>1. PICK d \in Nat : Again(d) /\ queue' = queue
      BY <2>1
    <3> DEFINE x == [frame |-> f, ev |-> ev, t |-> d]
    <3>2. x \in Events /\ x.frame = f /\ x.ev = ev /\ agenda' = Append(Others, x)
      BY <1>2, <3>1 DEF Events, Post, Again, Runs
    <3> HIDE DEF x
    <3>3. Posted(Others, x, queue, Buffers, Events)
      BY <1>2, <3>2, PostEffect
    <3> QED BY <1>2, <3>1, <3>2, <3>3 DEF Posted
  <2>2. CASE ev \in {"retry", "output", "input"} /\ \E b \in Buffers : WaitOn(b)
    <3>1. PICK b \in Buffers : WaitOn(b)
      BY <2>2
    <3> DEFINE x == [frame |-> f, ev |-> ev]
    <3>2. x \in Waiters /\ x.frame = f /\ x.ev = ev /\ agenda' = Others /\ Suspends(b, x)
      BY <1>2, <2>2, <3>1 DEF Waiters, WaitOn, Runs, Suspends
    <3> HIDE DEF x
    <3>3. PutToSleep(Others, b, x)
      BY <1>0, <1>2, <3>2, SleepEffect
    <3> QED BY <1>2, <3>2, <3>3 DEF PutToSleep
  <2> QED BY <2>1, <2>2
<1>4. RouteInv'
  BY <1>1, <1>3, RouteSame
<1> QED BY <1>1, <1>4 DEF Fine

\* Packet p moves to the next buffer d of its route.
LEMMA MovedFine ==
    ASSUME NetInv, RouteInv, phase = "ready",
           NEW p \in Packets, NEW ev \in {"output", "input"}, Runs(p, ev),
           NEW b, b = at[p], NEW d \in Buffers,
           NEW ev2 \in {"output", "input"},
           NEW width \in Nat \ {0}, NEW resources, Move(p, b, d, resources, ev2, width),
           unchangedMsgs,
           Follows(p, b, d, ev, ev2)
    PROVE  Fine
<1>0. NetTypes /\ TrafficInv /\ nw \in Nets /\ Shape(agenda, queue, Buffers)
  BY DEF NetInv, NetTypes, TrafficInv, EventsOK
<1>1. /\ nw' = nw /\ table' = table /\ phase' \in {"ready", "error"} /\ failed' = failed
      /\ Unsent
  BY SettledFine DEF unchangedMsgs, Unsent
<1>2. nw.fix = 0 /\ b \in Buffers /\ p[1] \in Msgs
  BY PacketRuns
<1>3. /\ <<p, ev>> \in AllKinds(agenda, queue, Buffers)
      /\ Has(agenda, queue, Buffers) = Has(Others, queue, Buffers) \cup {p}
  BY <1>0, RunEffect
<1>4. p \notin assembled[p[1]] /\ Stored(p, status)
  BY <1>2, <1>3, SleeperStored
<1> DEFINE l == Latency(p, width)
<1>5. l \in Nat
  BY <1>0, LatencyType
<1>6. Leaves(p, b, ev2, l) /\ at' = [at EXCEPT ![p] = d]
  BY DEF Move, Leaves
<1> HIDE DEF l
<1>7. \A x \in AllKinds(agenda', queue', Buffers) :
                \/ x = <<p, ev2>>
                \/ x \in AllKinds(agenda, queue, Buffers) /\ x[1] # p /\ x[1] \in Frames
  BY <1>2, <1>5, <1>6, MoveEvents
<1>8. at'[p] = d /\ \A q \in Packets : q # p => at'[q] = at[q]
  BY <1>0, <1>6 DEF NetTypes
<1>9. Arrives(p)
  <2> SUFFICES ASSUME NEW R \in SUBSET nw.nodes, Guides(nw, table, p[1], R)
               PROVE  OnRoute(p, R, AllKinds(agenda', queue', Buffers), at', assembled')
    BY DEF Arrives
  <2>1. OnRoute(p, R, AllKinds(agenda, queue, Buffers), at, assembled)
    BY <1>4 DEF RouteInv
  <2>2. InPlace(p, b, R) /\ FitsEvent(ev, p, b)
    BY <1>3, <2>1 DEF OnRoute
  <2>3. InPlace(p, d, R) /\ FitsEvent(ev2, p, d)
    BY <2>2 DEF Follows
  <2>4. ASSUME NEW e, <<p, e>> \in AllKinds(agenda', queue', Buffers)
        PROVE  FitsEvent(e, p, d)
    <3>1. e = ev2
      BY <1>7, <2>4
    <3> QED BY <2>3, <3>1
  <2>5. p \notin assembled'[p[1]]
    BY <1>1, <1>4 DEF Unsent
  <2> QED BY <1>8, <2>3, <2>4, <2>5 DEF OnRoute
<1>10. ASSUME NEW q \in Packets, q # p, Stored(q, status') PROVE Stays(q)
  <2>1. \A e : <<q, e>> \in AllKinds(agenda', queue', Buffers) =>
                    <<q, e>> \in AllKinds(agenda, queue, Buffers)
    BY <1>7, <1>10
  <2> QED BY <1>1, <1>8, <1>10, <2>1 DEF Stays, Unsent, Stored
<1>11. RouteInv'
  BY <1>1, <1>9, <1>10, RouteKept
<1> QED BY <1>1, <1>11 DEF Fine

\* The output buffer that holds packet p, on the route R, leads on.
LEMMA OutputRoute ==
    ASSUME nw \in Nets, NEW p \in Packets, NEW b, NEW R \in SUBSET nw.nodes,
           Guides(nw, table, p[1], R), InPlace(p, b, R), FitsEvent("output", p, b)
    PROVE  /\ b \in OutBuffers(nw) /\ BufferNode(nw, b) \in R \ {To(p)}
           /\ LET next == table[BufferNode(nw, b)][To(p)].next
              IN  /\ next \in R /\ next \notin nw.ends \ {To(p)}
                  /\ IF Conn(nw, b).link THEN BufferNode(nw, <<"in", b[2], b[3]>>) = next
                                         ELSE Leads(nw, b, next)
<1>1. b \in OutBuffers(nw) /\ BufferNode(nw, b) \in R \ {To(p)}
  BY DEF FitsEvent, InPlace
<1>2. table[BufferNode(nw, b)][To(p)].buffer = b
  BY <1>1 DEF InPlace
<1>3. Onward(nw, table, BufferNode(nw, b), To(p), R)
  BY <1>1 DEF Guides, To
<1> QED BY <1>1, <1>2, <1>3 DEF Onward

LEMMA LinkTransferFine ==
    ASSUME NetInv, RouteInv, phase = "ready", NEW p \in Packets, Runs(p, "output"),
           NEW b, b = at[p], b[1] = "out", IsHead(p, b), Conn(nw, b).link, LinkTransfer(p, b)
    PROVE  Fine
<1> DEFINE c == b[2]
           d == <<"in", c, b[3]>>
<1>0. NetTypes /\ nw \in Nets
  BY DEF NetInv, NetTypes
<1>1. PICK ev \in {"output", "input"} : ev = "output"
  OBVIOUS
<1>2. PICK ev2 \in {"output", "input"} : ev2 = "input"
  OBVIOUS
<1>3. Runs(p, ev)
  BY <1>1
<1>4. b \in OutBuffers(nw) /\ b \in Buffers
  BY <1>0, <1>3, PacketRuns, BufferShape DEF Buffers
<1>5. c \in DOMAIN nw.conns /\ d \in InBuffers(nw) /\ d \notin OutBuffers(nw) /\ d \in Buffers
  BY <1>0, <1>4, BufferShape DEF Buffers
<1>6. nw.bandwidth \in Nat \ {0} /\ busy[LinkOf(c)] \in Nat /\ busy[Write(d)] \in Nat
  BY <1>0, <1>5, MessageShape, ResourceTypes
<1>7. CASE /\ Again(busy[LinkOf(c)]) \/ Again(busy[Write(d)]) \/ Again(1)
           /\ UNCHANGED <<queue, content, at, busy>> /\ unchangedMsgs
  <2>1. PICK k \in Nat : Again(k)
    BY <1>6, <1>7
  <2> QED BY <1>3, <1>7, <2>1, AgainFine
<1>8. CASE WaitOn(d) /\ UNCHANGED <<content, at, busy>> /\ unchangedMsgs
  <2>1. WaitOn(d) /\ at' = at /\ unchangedMsgs
    BY <1>8
  <2> HIDE DEF d
  <2> QED BY <1>1, <1>3, <1>5, <2>1, AgainFine
<1>9. CASE Move(p, b, d, {LinkOf(c)}, "input", nw.bandwidth) /\ unchangedMsgs
  <2>1. Follows(p, b, d, ev, ev2)
    <3> SUFFICES ASSUME NEW R \in SUBSET nw.nodes, Guides(nw, table, p[1], R),
                        InPlace(p, b, R), FitsEvent(ev, p, b)
                 PROVE  InPlace(p, d, R) /\ FitsEvent(ev2, p, d)
      BY DEF Follows
    <3>1. BufferNode(nw, d) \in R /\ BufferNode(nw, d) \notin nw.ends \ {To(p)}
      BY <1>0, <1>1, OutputRoute
    <3> QED BY <1>2, <1>5, <3>1 DEF InPlace, FitsEvent
  <2>2. Move(p, b, d, {LinkOf(c)}, ev2, nw.bandwidth) /\ unchangedMsgs
    BY <1>2, <1>9
  <2> HIDE DEF d
  <2> QED BY <1>3, <1>5, <1>6, <2>1, <2>2, MovedFine
<1> QED BY <1>7, <1>8, <1>9 DEF LinkTransfer

LEMMA BusTransferFine ==
    ASSUME NetInv, RouteInv, phase = "ready", NEW p \in Packets, Runs(p, "output"),
           NEW b, b = at[p], b[1] = "out", IsHead(p, b), ~ Conn(nw, b).link,
           BusTransfer(p, b)
    PROVE  Fine
<1> DEFINE c == b[2]
           next == table[BufferNode(nw, b)][nw.msgs[p[1]].dst].next
           ds == {x \in InBuffers(nw) : x[2] = c /\ BufferNode(nw, x) = next}
           d == FirstBuffer(ds)
           arb == BusArbitration(c, b)
<1>0. NetTypes /\ nw \in Nets /\ Shape(agenda, queue, Buffers)
  BY DEF NetInv, NetTypes, TrafficInv, EventsOK
<1>1. PICK ev \in {"output", "input"} : ev = "output"
  OBVIOUS
<1>2. PICK ev2 \in {"output", "input"} : ev2 = "input"
  OBVIOUS
<1>3. Runs(p, ev)
  BY <1>1
<1>4. b \in OutBuffers(nw) /\ b \in Buffers
  BY <1>0, <1>3, PacketRuns, BufferShape DEF Buffers
<1>5. ASSUME ds # {}
      PROVE  /\ d \in InBuffers(nw) /\ d \notin OutBuffers(nw) /\ d \in Buffers
             /\ BufferNode(nw, d) = next
  <2>1. ds \in SUBSET InBuffers(nw) /\ \A x \in ds : BufferNode(nw, x) = next
    OBVIOUS
  <2> HIDE DEF ds, next
  <2>2. d \in ds
    BY <1>0, <1>5, <2>1, BufferChoice
  <2> HIDE DEF d
  <2> QED  BY <1>0, <2>1, <2>2, BufferShape DEF Buffers
<1>6. ASSUME Sound PROVE ds # {}
  <2>1. nw.fix = 0 /\ <<p, ev>> \in AllKinds(agenda, queue, Buffers)
        /\ Has(agenda, queue, Buffers) = Has(Others, queue, Buffers) \cup {p}
    BY <1>0, <1>3, PacketRuns, RunEffect
  <2>2. Stored(p, status)
    BY <2>1, SleeperStored
  <2>3. PICK R \in SUBSET nw.nodes : /\ Guides(nw, table, p[1], R)
                /\ OnRoute(p, R, AllKinds(agenda, queue, Buffers), at, assembled)
    BY <1>6, <2>2, HasRoute
  <2>4. InPlace(p, b, R) /\ FitsEvent("output", p, b)
    BY <1>1, <2>1, <2>3 DEF OnRoute
  <2>5. Leads(nw, b, next)
    BY <1>0, <2>3, <2>4, OutputRoute DEF To
  <2> HIDE DEF next
  <2>6. PICK i \in DOMAIN nw.conns[c].dst : nw.conns[c].dst[i] = next
    BY <2>5 DEF Leads, Conn, Range
  <2> DEFINE x == <<"in", c, i>>
  <2>7. c \in DOMAIN nw.conns
    BY <1>0, <1>4, BufferShape
  <2>8. x \in InBuffers(nw)
    BY <2>7 DEF InBuffers
  <2>9. x[2] = c /\ BufferNode(nw, x) = next
    BY <2>6 DEF BufferNode, Conn
  <2> QED BY <2>8, <2>9
<1> HIDE DEF ds, d, arb
<1>7. nw.bandwidth \in Nat \ {0} /\ (ds # {} => busy[Write(d)] \in Nat)
  BY <1>0, <1>5, MessageShape, ResourceTypes
<1>8. CASE ds = {} /\ Panics("next_node_not_on_the_bus")
  BY <1>6, <1>8, PanicFine
<1>9. CASE /\ ds # {} /\ (Again(busy[Write(d)]) \/ Again(1))
           /\ UNCHANGED <<queue, content, at, busy>> /\ unchangedMsgs
  <2>1. PICK k \in Nat : Again(k)
    BY <1>7, <1>9
  <2> QED BY <1>3, <1>9, <2>1, AgainFine
<1>10. CASE ds # {} /\ WaitOn(d) /\ UNCHANGED <<content, at, busy>> /\ unchangedMsgs
  BY <1>1, <1>3, <1>5, <1>10, AgainFine
<1>11. CASE /\ ds # {} /\ Move(p, b, d, {LaneOf(c, arb.lane)}, "input", nw.bandwidth)
            /\ unchangedMsgs
  <2>1. Follows(p, b, d, ev, ev2)
    <3> SUFFICES ASSUME NEW R \in SUBSET nw.nodes, Guides(nw, table, p[1], R),
                        InPlace(p, b, R), FitsEvent(ev, p, b)
                 PROVE  InPlace(p, d, R) /\ FitsEvent(ev2, p, d)
      BY DEF Follows
    <3>1. next \in R /\ next \notin nw.ends \ {To(p)}
      BY <1>0, <1>1, OutputRoute DEF To
    <3> QED BY <1>2, <1>5, <1>11, <3>1 DEF InPlace, FitsEvent
  <2>2. Move(p, b, d, {LaneOf(c, arb.lane)}, ev2, nw.bandwidth) /\ unchangedMsgs
        /\ d \in Buffers
    BY <1>2, <1>5, <1>11
  <2> QED BY <1>3, <1>7, <2>1, <2>2, MovedFine
<1>12. \/ ds = {} /\ Panics("next_node_not_on_the_bus")
       \/ /\ ds # {} /\ (Again(busy[Write(d)]) \/ Again(1))
          /\ UNCHANGED <<queue, content, at, busy>> /\ unchangedMsgs
       \/ ds # {} /\ WaitOn(d) /\ UNCHANGED <<content, at, busy>> /\ unchangedMsgs
       \/ /\ ds # {} /\ Move(p, b, d, {LaneOf(c, arb.lane)}, "input", nw.bandwidth)
          /\ unchangedMsgs
  BY Zenon DEF BusTransfer, ds, d, arb
<1> QED BY <1>8, <1>9, <1>10, <1>11, <1>12

\* A packet whose output or input event runs is on its route.
LEMMA RunsOnRoute ==
    ASSUME NetInv, RouteInv, Sound, NEW p \in Packets, NEW ev \in {"output", "input"},
           Runs(p, ev)
    PROVE  \E R \in SUBSET nw.nodes :
                /\ Guides(nw, table, p[1], R)
                /\ InPlace(p, at[p], R) /\ FitsEvent(ev, p, at[p])
<1>0. NetTypes /\ Shape(agenda, queue, Buffers)
  BY DEF NetInv, TrafficInv, EventsOK
<1>1. /\ nw.fix = 0 /\ <<p, ev>> \in AllKinds(agenda, queue, Buffers)
      /\ Has(agenda, queue, Buffers) = Has(Others, queue, Buffers) \cup {p}
  BY <1>0, PacketRuns, RunEffect
<1>2. Stored(p, status)
  BY <1>1, SleeperStored
<1>3. PICK R \in SUBSET nw.nodes : /\ Guides(nw, table, p[1], R)
                /\ OnRoute(p, R, AllKinds(agenda, queue, Buffers), at, assembled)
  BY <1>2, HasRoute
<1> QED BY <1>1, <1>3 DEF OnRoute

LEMMA OutputBufferFine ==
    ASSUME NetInv, RouteInv, phase = "ready", NEW p \in Packets, OutputBuffer(p)
    PROVE  Fine
<1>1. PICK b : b = at[p]
  OBVIOUS
<1>2. PICK ev \in {"output", "input"} : ev = "output"
  OBVIOUS
<1>3. Runs(p, "output") /\ Runs(p, ev)
  BY <1>2 DEF OutputBuffer
<1>4. CASE b[1] # "out" /\ Panics("not_a_source_buffer")
  <2>1. ASSUME Sound PROVE FALSE
    <3>1. b \in OutBuffers(nw)
      BY <1>1, <1>2, <1>3, <2>1, RunsOnRoute DEF FitsEvent
    <3>2. b[1] = "out"
      BY <3>1, BufferShape DEF NetInv, NetTypes
    <3> QED BY <1>4, <3>2
  <2> QED BY <1>4, <2>1, PanicFine
<1>5. CASE WaitOn(b) /\ UNCHANGED <<content, at, busy, grant, last>> /\ unchangedMsgs
  <2>1. b \in Buffers
    BY <1>1, <1>3, PacketRuns
  <2> QED BY <1>2, <1>3, <1>5, <2>1, AgainFine
<1>6. CASE b[1] = "out" /\ IsHead(p, b) /\ Conn(nw, b).link /\ LinkTransfer(p, b)
  BY <1>1, <1>3, <1>6, LinkTransferFine
<1>7. CASE b[1] = "out" /\ IsHead(p, b) /\ ~ Conn(nw, b).link /\ BusTransfer(p, b)
  BY <1>1, <1>3, <1>7, BusTransferFine
<1> QED BY <1>1, <1>4, <1>5, <1>6, <1>7 DEF OutputBuffer

\* The input buffer that holds packet p, on the route R, leads on.
LEMMA InputRoute ==
    ASSUME nw \in Nets, NEW p \in Packets, NEW b \in InBuffers(nw), NEW R \in SUBSET nw.nodes,
           Guides(nw, table, p[1], R), InPlace(p, b, R), BufferNode(nw, b) # To(p)
    PROVE  LET o == table[BufferNode(nw, b)][To(p)].buffer
           IN  /\ BufferNode(nw, b) \notin nw.ends
               /\ o # NoBuffer /\ InPlace(p, o, R) /\ FitsEvent("output", p, o)
<1>1. PICK i, o : i = BufferNode(nw, b) /\ o = table[i][To(p)].buffer
  OBVIOUS
<1>2. i \in R \ {To(p)} /\ i \notin nw.ends
  BY <1>1 DEF InPlace
<1>3. Onward(nw, table, i, To(p), R)
  BY <1>2 DEF Guides, To
<1>4. o \in OutBuffers(nw) /\ BufferNode(nw, o) = i
  BY <1>1, <1>3 DEF Onward, OutBuffersOf
<1>5. o \in Buffers /\ o \notin InBuffers(nw) /\ o # NoBuffer
  BY <1>4, BufferShape DEF Buffers
<1>6. InPlace(p, o, R) /\ FitsEvent("output", p, o)
  BY <1>1, <1>2, <1>4, <1>5 DEF InPlace, FitsEvent
<1> QED BY <1>1, <1>2, <1>5, <1>6

LEMMA ForwardFine ==
    ASSUME NetInv, RouteInv, phase = "ready", NEW p \in Packets, Runs(p, "input"),
           NEW b, b = at[p], BufferNode(nw, b) # To(p), Forward(p, b)
    PROVE  Fine
<1> DEFINE node == BufferNode(nw, b)
           o == table[node][nw.msgs[p[1]].dst].buffer
<1>0. NetTypes /\ nw \in Nets
  BY DEF NetInv, NetTypes
<1>1. PICK ev \in {"output", "input"} : ev = "input"
  OBVIOUS
<1>2. PICK ev2 \in {"output", "input"} : ev2 = "output"
  OBVIOUS
<1>3. Runs(p, ev)
  BY <1>1
<1>4. b \in InBuffers(nw) /\ b \in Buffers /\ p[1] \in Msgs
  BY <1>1, <1>3, PacketRuns
<1>5. o # NoBuffer => o \in Buffers
  <2>1. node \in nw.nodes /\ nw.msgs[p[1]].dst \in nw.nodes
    BY <1>0, <1>4, BufferShape, MessageShape
  <2>2. GoodBuffer(node, o)
    BY <2>1, GoodRoute
  <2> QED  BY <2>2 DEF GoodBuffer
<1>6. \A R \in SUBSET nw.nodes :
            Guides(nw, table, p[1], R) /\ InPlace(p, b, R) =>
                o # NoBuffer /\ InPlace(p, o, R) /\ FitsEvent("output", p, o)
  BY <1>0, <1>4, InputRoute DEF To
<1> HIDE DEF node, o
<1>7. /\ nw.crossbar \in Nat \ {0} /\ busy[Read(b)] \in Nat
      /\ o # NoBuffer => busy[Write(o)] \in Nat
  BY <1>0, <1>4, <1>5, MessageShape, ResourceTypes
<1>8. CASE o = NoBuffer /\ Panics("null_output_buffer")
  <2>1. ~ Sound
    BY <1>3, <1>6, <1>8, RunsOnRoute
  <2> QED BY <1>8, <2>1, PanicFine
<1>9. CASE /\ Again(busy[Read(b)]) \/ (o # NoBuffer /\ Again(busy[Write(o)])) \/ Again(1)
           /\ UNCHANGED <<queue, content, at, busy>> /\ unchangedMsgs
  <2>1. PICK k \in Nat : Again(k)
    BY <1>7, <1>9
  <2> QED BY <1>3, <1>9, <2>1, AgainFine
<1>10. CASE /\ o # NoBuffer /\ WaitOn(o)
            /\ UNCHANGED <<content, at, busy>> /\ unchangedMsgs
  BY <1>1, <1>3, <1>5, <1>10, AgainFine
<1>11. CASE o # NoBuffer /\ Move(p, b, o, {}, "output", nw.crossbar) /\ unchangedMsgs
  <2>1. Move(p, b, o, {}, ev2, nw.crossbar) /\ unchangedMsgs /\ o \in Buffers
    BY <1>2, <1>5, <1>11
  <2>2. Follows(p, b, o, ev, ev2)
    BY <1>2, <1>6 DEF Follows
  <2> QED BY <1>3, <1>7, <2>1, <2>2, MovedFine
<1>12. \/ o = NoBuffer /\ Panics("null_output_buffer")
       \/ /\ Again(busy[Read(b)]) \/ (o # NoBuffer /\ Again(busy[Write(o)])) \/ Again(1)
          /\ UNCHANGED <<queue, content, at, busy>> /\ unchangedMsgs
       \/ /\ o # NoBuffer /\ WaitOn(o)
          /\ UNCHANGED <<content, at, busy>> /\ unchangedMsgs
       \/ o # NoBuffer /\ Move(p, b, o, {}, "output", nw.crossbar) /\ unchangedMsgs
  BY Zenon DEF Forward, node, o
<1> QED BY <1>8, <1>9, <1>10, <1>11, <1>12

LEMMA InputBufferFine ==
    ASSUME NetInv, RouteInv, phase = "ready", NEW p \in Packets, InputBuffer(p)
    PROVE  Fine
<1>0. NetTypes /\ nw \in Nets /\ Shape(agenda, queue, Buffers)
  BY DEF NetInv, NetTypes, TrafficInv, EventsOK
<1>1. PICK b : b = at[p]
  OBVIOUS
<1>2. PICK ev \in {"output", "input"} : ev = "input"
  OBVIOUS
<1>3. Runs(p, "input") /\ Runs(p, ev)
  BY <1>2 DEF InputBuffer
<1>4. b \in InBuffers(nw) /\ b \in Buffers /\ nw.fix = 0
  BY <1>1, <1>2, <1>3, PacketRuns
<1>5. CASE /\ BufferNode(nw, b) = To(p)
           /\ agenda' = Post(Others, p, "receive", 0)
           /\ UNCHANGED <<queue, content, at, busy, grant, last>> /\ unchangedMsgs
  <2>1. /\ nw' = nw /\ table' = table /\ phase' \in {"ready", "error"} /\ failed' = failed
        /\ Unsent
    BY <1>5, SettledFine DEF unchangedMsgs, Unsent
  <2>2. /\ Others \in Seq(Events) /\ p \in Frames
        /\ Shape(Others, queue, Buffers)
        /\ p \notin Has(Others, queue, Buffers)
        /\ Has(agenda, queue, Buffers) = Has(Others, queue, Buffers) \cup {p}
        /\ AllKinds(Others, queue, Buffers) \subseteq AllKinds(agenda, queue, Buffers)
    BY <1>0, <1>3, RunEffect
  <2> DEFINE x == [frame |-> p, ev |-> "receive", t |-> 0]
  <2>3. x \in Events /\ x.frame = p /\ x.ev = "receive" /\ agenda' = Append(Others, x)
    BY <1>5, <2>2 DEF Events, Post
  <2> HIDE DEF x
  <2>4. Posted(Others, x, queue, Buffers, Events)
    BY <2>2, <2>3, PostEffect
  <2>5. \A y \in AllKinds(agenda', queue', Buffers) :
            y \in AllKinds(agenda, queue, Buffers) \/ y = <<p, "receive">>
    BY <1>5, <2>2, <2>3, <2>4 DEF Posted
  <2>6. ASSUME NEW q \in Packets, Stored(q, status') PROVE Stays(q) \/ Arrives(q)
    <3>1. CASE q # p
      <4>1. \A e : <<q, e>> \in AllKinds(agenda', queue', Buffers) =>
                    <<q, e>> \in AllKinds(agenda, queue, Buffers)
        BY <2>5, <3>1
      <4> QED BY <1>5, <2>1, <2>6, <4>1 DEF Stays, Unsent
    <3>2. CASE q = p
      <4> SUFFICES ASSUME NEW R \in SUBSET nw.nodes, Guides(nw, table, p[1], R)
                   PROVE  OnRoute(p, R, AllKinds(agenda', queue', Buffers), at', assembled')
        BY <3>2 DEF Arrives
      <4>1. OnRoute(p, R, AllKinds(agenda, queue, Buffers), at, assembled)
        BY <2>1, <2>6, <3>2 DEF RouteInv, Unsent
      <4>2. ASSUME NEW e, <<p, e>> \in AllKinds(agenda', queue', Buffers)
            PROVE  FitsEvent(e, p, at[p])
        <5>1. <<p, e>> \in AllKinds(agenda, queue, Buffers) \/ e = "receive"
          BY <2>5, <4>2
        <5> QED BY <1>1, <1>5, <4>1, <5>1 DEF OnRoute, FitsEvent
      <4> QED BY <1>5, <2>1, <4>1, <4>2 DEF OnRoute, Unsent
    <3> QED BY <3>1, <3>2
  <2>7. RouteInv'
    BY <2>1, <2>6, RouteKept
  <2> QED BY <2>1, <2>7 DEF Fine
<1>6. CASE WaitOn(b) /\ UNCHANGED <<content, at, busy, grant, last>> /\ unchangedMsgs
  BY <1>2, <1>3, <1>4, <1>6, AgainFine
<1>7. CASE /\ BufferNode(nw, b) # To(p) /\ BufferNode(nw, b) \in nw.ends
           /\ Panics("through_an_end_node")
  <2>1. ~ Sound
    BY <1>0, <1>1, <1>3, <1>4, <1>7, InputRoute, RunsOnRoute
  <2> QED BY <1>7, <2>1, PanicFine
<1>8. CASE BufferNode(nw, b) # To(p) /\ Forward(p, b)
  BY <1>1, <1>3, <1>8, ForwardFine
<1> QED BY <1>1, <1>5, <1>6, <1>7, <1>8 DEF InputBuffer, To

\* A sender adds to the events of the others.
LEMMA SenderKinds ==
    ASSUME NetInv, NEW m \in Msgs, NEW ag, Sends(m, ag)
    PROVE  AllKinds(ag, queue, Buffers) \subseteq AllKinds(agenda, queue, Buffers)
<1>1. NetTypes /\ Shape(agenda, queue, Buffers)
  BY DEF NetInv, TrafficInv, EventsOK
<1>2. Runs(<<m, 0>>, "retry") =>
            AllKinds(Others, queue, Buffers) \subseteq AllKinds(agenda, queue, Buffers)
  BY <1>1, RunEffect
<1> QED BY <1>2 DEF Sends

\* A client that could not send has a retry event.
LEMMA TryingFine ==
    ASSUME NetInv, RouteInv, phase = "ready", NEW m \in Msgs, NEW ag, Sends(m, ag),
           AllKinds(agenda', queue', Buffers)
                = AllKinds(ag, queue, Buffers) \cup {<<<<m, 0>>, "retry">>},
           status' = [status EXCEPT ![m] = "trying"], assembled' = assembled, at' = at,
           unchangedNet
    PROVE  Fine
<1>1. /\ nw' = nw /\ table' = table /\ phase' \in {"ready", "error"} /\ failed' = failed
      /\ NetTypes /\ nw \in Nets
  BY SettledFine DEF NetInv, NetTypes
<1>2. ASSUME NEW q \in Packets, Stored(q, status') PROVE Stays(q)
  <2>1. q[1] \in Msgs /\ q[2] # 0
    BY <1>1, PacketShape
  <2>2. q[1] # m /\ status[q[1]] = status'[q[1]]
    BY <1>1, <1>2, <2>1 DEF Stored, NetTypes
  <2>3. \A ev : <<q, ev>> \in AllKinds(agenda', queue', Buffers) =>
                    <<q, ev>> \in AllKinds(agenda, queue, Buffers)
    BY <2>2, SenderKinds
  <2> QED BY <1>2, <2>2, <2>3 DEF Stays, Stored
<1>3. \A q \in Packets : Stored(q, status') => Stays(q) \/ Arrives(q)
  BY <1>2, Zenon
<1>4. RouteInv'
  BY <1>1, <1>3, RouteKept, Zenon
<1> QED BY <1>1, <1>4 DEF Fine

\* The route of message m starts at its source.
LEMMA RouteStarts ==
    ASSUME nw \in Nets, NEW m \in Msgs, NEW R \in SUBSET nw.nodes, Guides(nw, table, m, R)
    PROVE  LET b == table[nw.msgs[m].src][nw.msgs[m].dst].buffer
           IN  /\ b \in OutBuffers(nw) /\ b # NoBuffer
               /\ \A p \in PacketsOf(m) : InPlace(p, b, R)
<1>1. PICK i, d, b : i = nw.msgs[m].src /\ d = nw.msgs[m].dst /\ b = table[i][d].buffer
  OBVIOUS
<1>2. i \in R \ {d} /\ Onward(nw, table, i, d, R)
  BY <1>1 DEF Guides
<1>3. b \in OutBuffers(nw) /\ BufferNode(nw, b) = i
  BY <1>1, <1>2 DEF Onward, OutBuffersOf
<1>4. b \in Buffers /\ b \notin InBuffers(nw) /\ b # NoBuffer
  BY <1>3, BufferShape DEF Buffers
<1>5. \A p \in PacketsOf(m) : To(p) = d
  BY <1>1 DEF To, PacketsOf
<1>6. \A p \in PacketsOf(m) : InPlace(p, b, R)
  BY <1>1, <1>2, <1>3, <1>4, <1>5 DEF InPlace
<1> QED BY <1>1, <1>3, <1>4, <1>6

\* A message that is sent starts on its route.
LEMMA SentFine ==
    ASSUME NetInv, RouteInv, phase = "ready", NEW m \in Msgs, NEW ag, Sends(m, ag),
           NEW b, b = table[nw.msgs[m].src][nw.msgs[m].dst].buffer, Sent(m, b, ag),
           assembled' = assembled, unchangedNet
    PROVE  Fine
<1> DEFINE ps == [i \in 1 .. NumPackets(m) |-> <<m, i>>]
<1>1. /\ nw' = nw /\ table' = table /\ phase' \in {"ready", "error"} /\ failed' = failed
      /\ NetTypes /\ nw \in Nets
  BY SettledFine DEF NetInv, NetTypes
<1>2. /\ status' = [status EXCEPT ![m] = "sent"] /\ queue' = queue
      /\ agenda' = ag \o [i \in DOMAIN ps |->
                        [frame |-> ps[i],
                         ev |-> IF nw.fix > 0 THEN "receive" ELSE "output",
                         t |-> IF nw.fix > 0 THEN nw.fix ELSE 1]]
      /\ ~ (nw.fix > 0) => at' = [p \in Packets |-> IF p[1] = m THEN b ELSE at[p]]
  BY DEF Sent
<1>3. DOMAIN ps = 1 .. NumPackets(m) /\ \A i \in 1 .. NumPackets(m) : ps[i] = <<m, i>>
  OBVIOUS
<1> HIDE DEF ps
<1>4. CASE nw.fix > 0
  <2>1. \A q \in Packets : ~ Stored(q, status')
    BY <1>4 DEF Stored
  <2>2. RouteInv'
    BY <1>1, <2>1, RouteKept
  <2> QED BY <1>1, <2>2 DEF Fine
<1>5. CASE ~ (nw.fix > 0)
  <2>1. PICK es : es = MessageEvents(m, "output", 1)
    OBVIOUS
  <2>2. agenda' = ag \o es
    BY <1>2, <1>3, <1>5, <2>1 DEF MessageEvents
  <2>3. /\ es \in Seq(Events) /\ Once(es) /\ FramesOf(es) = PacketsOf(m)
        /\ \A x \in Kinds(es) : x[1] \in PacketsOf(m) /\ x[2] = "output"
    <3>1. PICK ev \in {"output", "receive"} : ev = "output"
      OBVIOUS
    <3>2. PICK d \in Nat : d = 1
      OBVIOUS
    <3> QED BY <1>1, <2>1, <3>1, <3>2, SentEvents
  <2>4. /\ ag \in Seq(Events) /\ Shape(ag, queue, Buffers)
        /\ status[m] \in {"idle", "trying"} /\ assembled[m] = {}
        /\ \A g \in Has(ag, queue, Buffers) : g \in Frames /\ g[1] # m
        /\ \A x \in AllKinds(ag, queue, Buffers) : x[1][1] # m
    BY Sender
  <2>5. \A p \in PacketsOf(m) : p \in Packets /\ p[1] = m
    BY <1>1, PacketShape
  <2>6. FramesOf(es) \cap Has(ag, queue, Buffers) = {}
    BY <2>3, <2>4, <2>5
  <2>7. AllKinds(agenda', queue', Buffers) = AllKinds(ag, queue, Buffers) \cup Kinds(es)
    <3>1. AllKinds(ag \o es, queue, Buffers) = AllKinds(ag, queue, Buffers) \cup Kinds(es)
      BY <2>3, <2>4, <2>6, PostAllEffect
    <3>2. queue' = queue
      BY <1>2
    <3> QED BY <2>2, <3>1, <3>2
  <2>8. ASSUME NEW q \in Packets, Stored(q, status') PROVE Stays(q) \/ Arrives(q)
    <3>1. q[1] \in Msgs /\ q \in PacketsOf(q[1])
      BY <1>1, PacketShape
    <3>2. CASE q[1] # m
      <4>1. status'[q[1]] = status[q[1]] /\ at'[q] = at[q]
        BY <1>1, <1>2, <1>5, <3>1, <3>2 DEF NetTypes
      <4>2. \A ev : <<q, ev>> \in AllKinds(agenda', queue', Buffers) =>
                    <<q, ev>> \in AllKinds(agenda, queue, Buffers)
        BY <2>3, <2>5, <2>7, <3>2, SenderKinds
      <4> QED BY <2>8, <4>1, <4>2 DEF Stays, Stored
    <3>3. CASE q[1] = m
      <4> SUFFICES ASSUME NEW R \in SUBSET nw.nodes, Guides(nw, table, q[1], R)
                   PROVE  OnRoute(q, R, AllKinds(agenda', queue', Buffers), at', assembled')
        BY DEF Arrives
      <4>1. b \in OutBuffers(nw) /\ InPlace(q, b, R)
        BY <1>1, <3>1, <3>3, RouteStarts
      <4>2. at'[q] = b
        BY <1>2, <1>5, <3>3
      <4>3. ASSUME NEW ev, <<q, ev>> \in AllKinds(agenda', queue', Buffers)
            PROVE  FitsEvent(ev, q, b)
        <5>1. <<q, ev>> \notin AllKinds(ag, queue, Buffers)
          BY <2>4, <3>3
        <5>2. ev = "output"
          BY <2>3, <2>7, <4>3, <5>1
        <5> QED BY <4>1, <5>2 DEF FitsEvent
      <4>4. q \notin assembled'[q[1]]
        BY <2>4, <3>3
      <4> QED BY <4>1, <4>2, <4>3, <4>4 DEF OnRoute
    <3> QED BY <3>2, <3>3
  <2>9. RouteInv'
    BY <1>1, <2>8, RouteKept
  <2> QED BY <1>1, <2>9 DEF Fine
<1> QED BY <1>4, <1>5

LEMMA TrySendFine ==
    ASSUME NetInv, RouteInv, phase = "ready", NEW m \in Msgs, NEW ag, Sends(m, ag),
           TrySend(m, ag)
    PROVE  Fine
<1> DEFINE b == table[nw.msgs[m].src][nw.msgs[m].dst].buffer
           me == [frame |-> <<m, 0>>, ev |-> "retry"]
<1>0. NetTypes /\ nw \in Nets
  BY DEF NetInv, NetTypes
<1>1. b # NoBuffer => b \in Buffers
  <2>1. nw.msgs[m].src \in nw.nodes /\ nw.msgs[m].dst \in nw.nodes
    BY <1>0, MessageShape
  <2>2. GoodBuffer(nw.msgs[m].src, b)
    BY <2>1, GoodRoute
  <2> QED BY <2>2 DEF GoodBuffer
<1>2. /\ ag \in Seq(Events) /\ Shape(ag, queue, Buffers)
      /\ <<m, 0>> \in Frames /\ <<m, 0>> \notin Has(ag, queue, Buffers)
  BY Sender
<1>3. CASE b = NoBuffer /\ Panics("no_route")
  <2>1. ASSUME Sound PROVE FALSE
    <3>1. PICK R \in SUBSET nw.nodes : Guides(nw, table, m, R)
      BY <2>1 DEF Sound
    <3> QED BY <1>0, <1>3, <3>1, RouteStarts
  <2> HIDE DEF b
  <2> QED BY <1>3, <2>1, PanicFine
<1>4. CASE Required(m) > nw.room /\ Panics("message_too_big")
  <2>1. Required(m) \in Nat /\ nw.room \in Nat
    BY <1>0, MessageShape DEF Required
  <2>2. ~ Sound
    BY <1>4, <2>1 DEF Sound
  <2> QED BY <1>4, <2>2, PanicFine
<1>5. CASE /\ b # NoBuffer
           /\ agenda' = Post(ag, me.frame, me.ev, busy[Write(b)])
           /\ status' = [status EXCEPT ![m] = "trying"]
           /\ UNCHANGED <<queue, content, at, busy, order>>
           /\ UNCHANGED <<grant, last, assembled>> /\ unchangedNet
  <2>1. PICK d \in Nat : d = busy[Write(b)]
    BY <1>0, <1>1, <1>5, ResourceTypes
  <2>2. PICK x : x = [frame |-> <<m, 0>>, ev |-> "retry", t |-> d]
    BY Zenon
  <2>3. x \in Events /\ x.frame = <<m, 0>> /\ x.ev = "retry" /\ agenda' = Append(ag, x)
    BY <1>2, <1>5, <2>1, <2>2 DEF Events, Post
  <2>4. Posted(ag, x, queue, Buffers, Events)
    BY <1>2, <2>3, PostEffect
  <2>5. AllKinds(agenda', queue', Buffers)
            = AllKinds(ag, queue, Buffers) \cup {<<<<m, 0>>, "retry">>}
    BY <1>5, <2>3, <2>4 DEF Posted
  <2>6. status' = [status EXCEPT ![m] = "trying"] /\ assembled' = assembled /\ at' = at
    BY <1>5
  <2>7. unchangedNet
    BY <1>5
  <2> HIDE DEF b, me
  <2> QED BY <2>5, <2>6, <2>7, TryingFine, Zenon
<1>6. CASE /\ b # NoBuffer
           /\ queue' = [queue EXCEPT ![b] = Append(@, me)]
           /\ agenda' = ag
           /\ status' = [status EXCEPT ![m] = "trying"]
           /\ UNCHANGED <<content, at, busy, order>>
           /\ UNCHANGED <<grant, last, assembled>> /\ unchangedNet
  <2>1. PICK x : x = me
    BY Zenon
  <2>2. PICK d \in Buffers : d = b
    BY <1>1, <1>6
  <2>3. x \in Waiters /\ x.frame = <<m, 0>> /\ x.ev = "retry" /\ Suspends(d, x)
    BY <1>2, <1>6, <2>1, <2>2 DEF Waiters, Suspends
  <2>4. PutToSleep(ag, d, x)
    BY <1>0, <1>2, <2>3, SleepEffect
  <2>5. AllKinds(agenda', queue', Buffers)
            = AllKinds(ag, queue, Buffers) \cup {<<<<m, 0>>, "retry">>}
    BY <1>6, <2>3, <2>4 DEF PutToSleep
  <2>6. status' = [status EXCEPT ![m] = "trying"] /\ assembled' = assembled /\ at' = at
    BY <1>6
  <2>7. unchangedNet
    BY <1>6
  <2> HIDE DEF b, me
  <2> QED BY <2>5, <2>6, <2>7, TryingFine, Zenon
<1>7. CASE /\ Sent(m, b, ag)
           /\ UNCHANGED <<grant, last, assembled>> /\ unchangedNet
  <2>1. assembled' = assembled /\ unchangedNet
    BY <1>7
  <2>2. PICK d : d = b
    OBVIOUS
  <2>3. d = table[nw.msgs[m].src][nw.msgs[m].dst].buffer /\ Sent(m, d, ag)
    BY <1>7, <2>2
  <2> HIDE DEF b, me
  <2> QED BY <2>1, <2>3, SentFine
<1> QED BY <1>3, <1>4, <1>5, <1>6, <1>7 DEF TrySend

\* The packets of a message that is complete have arrived.
LEMMA HasArrived ==
    ASSUME NetInv, RouteInv, Sound, NEW m \in Msgs, NEW f, NEW ev, Runs(f, ev), OnlyLeft(f, m),
           \A p \in PacketsOf(m) : p \in assembled[m] \/ (p = f /\ ev = "receive"),
           nw.fix = 0, NEW p \in PacketsOf(m)
    PROVE  /\ at[p] \in Buffers /\ at[p] # NoBuffer
           /\ BufferNode(nw, at[p]) = nw.msgs[m].dst
           /\ Contains(content[at[p]], p)
<1>0. NetTypes /\ TrafficInv /\ nw \in Nets /\ Shape(agenda, queue, Buffers)
  BY DEF NetInv, NetTypes, TrafficInv, EventsOK
<1>1. p \in Packets /\ p[1] = m /\ To(p) = nw.msgs[m].dst
  BY <1>0, PacketShape DEF To
<1>2. Stored(p, status)
  BY <1>1 DEF OnlyLeft, Stored
<1>3. PICK R \in SUBSET nw.nodes : /\ Guides(nw, table, p[1], R)
                /\ OnRoute(p, R, AllKinds(agenda, queue, Buffers), at, assembled)
  BY <1>1, <1>2, HasRoute
<1>4. <<f, ev>> \in AllKinds(agenda, queue, Buffers)
  BY <1>0, RunEffect
<1>5. BufferNode(nw, at[p]) = To(p)
  <2>1. CASE p \in assembled[m]
    BY <1>1, <1>3, <2>1 DEF OnRoute
  <2>2. CASE p = f /\ ev = "receive"
    BY <1>3, <1>4, <2>2 DEF OnRoute, FitsEvent
  <2> QED BY <2>1, <2>2
<1>6. at[p] \in Buffers /\ p \in Range(content[at[p]])
  BY <1>0, <1>1, <1>2 DEF TrafficInv, PlacesOK
<1>7. at[p] # NoBuffer
  BY <1>0, <1>6, BufferShape
<1>8. content[at[p]] \in Seq(Packets)
  BY <1>6, BufferFacts
<1>9. Contains(content[at[p]], p)
  BY <1>6, <1>8 DEF Range, Contains
<1> QED BY <1>1, <1>5, <1>6, <1>7, <1>9

\* What is left when message m is received.
LEMMA ReceiptFine ==
    ASSUME NetInv, RouteInv, phase = "ready", NEW m \in Msgs, NEW f, NEW ev, Runs(f, ev),
           Completes(m), \A p \in Packets : p[1] # m => at'[p] = at[p],
           nw.fix = 0 => AllKinds(agenda', queue', Buffers) \subseteq AllKinds(Others, queue, Buffers),
           unchangedNet
    PROVE  Fine
<1>0. NetTypes /\ nw \in Nets /\ Shape(agenda, queue, Buffers)
  BY DEF NetInv, NetTypes, TrafficInv, EventsOK
<1>1. nw' = nw /\ table' = table /\ phase' \in {"ready", "error"} /\ failed' = failed
  BY SettledFine
<1>2. AllKinds(Others, queue, Buffers) \subseteq AllKinds(agenda, queue, Buffers)
  BY <1>0, RunEffect
<1>3. /\ status'[m] = "received" /\ \A k \in Msgs : k # m => status'[k] = status[k]
      /\ \A k \in Msgs : k # m => assembled'[k] = assembled[k]
  BY <1>0 DEF NetTypes, Completes
<1>4. ASSUME NEW q \in Packets, Stored(q, status') PROVE Stays(q)
  <2>1. q[1] \in Msgs
    BY <1>0, PacketShape
  <2>2. q[1] # m /\ nw.fix = 0
    BY <1>3, <1>4 DEF Stored
  <2>3. \A e : <<q, e>> \in AllKinds(agenda', queue', Buffers) =>
                    <<q, e>> \in AllKinds(agenda, queue, Buffers)
    BY <1>2, <2>2
  <2> QED BY <1>3, <1>4, <2>1, <2>2, <2>3 DEF Stays, Stored
<1>5. \A q \in Packets : Stored(q, status') => Stays(q) \/ Arrives(q)
  BY <1>4, Zenon
<1>6. RouteInv'
  BY <1>1, <1>5, RouteKept, Zenon
<1> QED BY <1>1, <1>6 DEF Fine

LEMMA ReceivedFine ==
    ASSUME NetInv, RouteInv, phase = "ready", NEW m \in Msgs, NEW f, NEW ev, Runs(f, ev),
           OnlyLeft(f, m),
           \A p \in PacketsOf(m) : p \in assembled[m] \/ (p = f /\ ev = "receive"),
           Receive(m, PacketsOf(m))
    PROVE  Fine
<1> DEFINE homes == [i \in 1 .. NumPackets(m) |-> at[<<m, i>>]]
           arrived == nw.fix > 0 \/ \A i \in DOMAIN homes :
                        /\ homes[i] # NoBuffer
                        /\ BufferNode(nw, homes[i]) = nw.msgs[m].dst
                        /\ Contains(content[homes[i]], <<m, i>>)
<1>0. NetTypes /\ nw \in Nets /\ Shape(agenda, queue, Buffers)
  BY DEF NetInv, NetTypes, TrafficInv, EventsOK
<1>1. NumPackets(m) \in Nat /\ \A i \in 1 .. NumPackets(m) : <<m, i>> \in PacketsOf(m)
  BY <1>0, MessageShape DEF PacketsOf
<1>2. CASE ~ arrived /\ Panics("packet_has_not_arrived")
  <2>1. ASSUME Sound, nw.fix = 0 PROVE arrived
    <3>1. \A i \in 1 .. NumPackets(m) :
                /\ at[<<m, i>>] # NoBuffer
                /\ BufferNode(nw, at[<<m, i>>]) = nw.msgs[m].dst
                /\ Contains(content[at[<<m, i>>]], <<m, i>>)
      BY <1>1, <2>1, HasArrived
    <3> QED BY <3>1
  <2>2. nw.fix = 0 \/ nw.fix > 0
    BY <1>0, MessageShape
  <2>3. ~ Sound
    BY <1>2, <2>1, <2>2
  <2> HIDE DEF arrived, homes
  <2> QED BY <1>2, <2>3, PanicFine
<1>3. CASE /\ Completes(m) /\ nw.fix > 0
           /\ agenda' = Others /\ UNCHANGED <<content, at, queue>>
           /\ UNCHANGED <<busy, grant, last, order>> /\ unchangedNet
  BY <1>3, ReceiptFine
<1>4. CASE /\ arrived /\ Completes(m) /\ ~ (nw.fix > 0) /\ Clears(m, homes)
           /\ UNCHANGED <<busy, grant, last, order>> /\ unchangedNet
  <2>1. \A i \in 1 .. NumPackets(m) : homes[i] \in Buffers
    <3>1. \A i \in 1 .. NumPackets(m) : <<m, i>> \in Packets /\ homes[i] # NoBuffer
      BY <1>0, <1>1, <1>4, PacketShape
    <3> QED BY <1>0, <3>1 DEF NetTypes
  <2>2. homes \in Seq(Buffers)
    <3>1. homes \in [1 .. NumPackets(m) -> Buffers]
      BY <2>1
    <3> HIDE DEF homes
    <3> QED BY <1>1, <3>1
  <2>3. Clears(m, homes)
    BY <1>4
  <2> HIDE DEF homes
  <2>4. Others \in Seq(Events) /\ Shape(Others, queue, Buffers)
    BY <1>0, RunEffect
  <2>5. WokenUp(Others, homes)
    BY <1>0, <2>2, <2>3, <2>4, WakeStep DEF Clears
  <2>6. AllKinds(agenda', queue', Buffers) \subseteq AllKinds(Others, queue, Buffers)
    BY <2>3, <2>5 DEF WokenUp, Clears
  <2>7. \A p \in Packets : p[1] # m => at'[p] = at[p]
    BY <2>3 DEF Clears
  <2> QED BY <1>4, <2>6, <2>7, ReceiptFine
<1>5. \/ ~ arrived /\ Panics("packet_has_not_arrived")
      \/ /\ Completes(m) /\ nw.fix > 0
         /\ agenda' = Others /\ UNCHANGED <<content, at, queue>>
         /\ UNCHANGED <<busy, grant, last, order>> /\ unchangedNet
      \/ /\ arrived /\ Completes(m) /\ ~ (nw.fix > 0) /\ Clears(m, homes)
         /\ UNCHANGED <<busy, grant, last, order>> /\ unchangedNet
  <2> HIDE DEF arrived
  <2> QED BY DEF Receive, Completes, Clears, Emptied, homes, arrived
<1> HIDE DEF arrived, homes
<1> QED BY <1>2, <1>3, <1>4, <1>5

\* A packet is assembled where it has arrived.
LEMMA CollectedFine ==
    ASSUME NetInv, RouteInv, phase = "ready", NEW p \in Packets, Runs(p, "receive"),
           p \notin assembled[p[1]], Collects(p), queue' = queue, status' = status, at' = at,
           unchangedNet
    PROVE  Fine
<1>0. NetTypes /\ nw \in Nets /\ Shape(agenda, queue, Buffers)
  BY DEF NetInv, NetTypes, TrafficInv, EventsOK
<1>1. nw' = nw /\ table' = table /\ phase' \in {"ready", "error"} /\ failed' = failed
  BY SettledFine
<1>2. /\ AllKinds(Others, queue, Buffers) \subseteq AllKinds(agenda, queue, Buffers)
      /\ <<p, "receive">> \in AllKinds(agenda, queue, Buffers)
  BY <1>0, RunEffect
<1>3. /\ p \notin Has(Others, queue, Buffers)
      /\ \A y : y \in AllKinds(agenda', queue, Buffers) =>
                    y \in AllKinds(Others, queue, Buffers) \/ y = <<<<p[1], 0>>, "arrived">>
      /\ assembled'[p[1]] = assembled[p[1]] \cup {p}
      /\ \A k \in Msgs : k # p[1] => assembled'[k] = assembled[k]
  BY CollectEffect
<1>4. ASSUME NEW q \in Packets, Stored(q, status') PROVE Stays(q) \/ Arrives(q)
  <2>1. q[1] \in Msgs /\ q[2] # 0
    BY <1>0, PacketShape
  <2>2. ASSUME NEW e, <<q, e>> \in AllKinds(agenda', queue, Buffers)
        PROVE  /\ <<q, e>> \in AllKinds(Others, queue, Buffers)
               /\ <<q, e>> \in AllKinds(agenda, queue, Buffers)
    <3>1. <<q, e>> # <<<<p[1], 0>>, "arrived">>
      BY <2>1
    <3> QED BY <1>2, <1>3, <2>2, <3>1
  <2>3. CASE q # p
    <3>1. q \in assembled'[q[1]] => q \in assembled[q[1]]
      BY <1>3, <2>1, <2>3
    <3> QED BY <1>4, <2>2, <3>1 DEF Stays
  <2>4. CASE q = p
    <3> SUFFICES ASSUME NEW R \in SUBSET nw.nodes, Guides(nw, table, p[1], R)
                 PROVE  OnRoute(p, R, AllKinds(agenda', queue', Buffers), at', assembled')
      BY <2>4 DEF Arrives
    <3>1. OnRoute(p, R, AllKinds(agenda, queue, Buffers), at, assembled)
      BY <1>4, <2>4 DEF RouteInv
    <3>2. \A e : <<p, e>> \notin AllKinds(agenda', queue, Buffers)
      <4>1. \A e : <<p, e>> \in AllKinds(Others, queue, Buffers) =>
                        <<p, e>>[1] \in Has(Others, queue, Buffers)
        BY HasIs
      <4> QED BY <1>3, <2>2, <2>4, <4>1
    <3>3. BufferNode(nw, at[p]) = To(p)
      BY <1>2, <3>1 DEF OnRoute, FitsEvent
    <3> QED BY <3>1, <3>2, <3>3 DEF OnRoute
  <2> QED BY <2>3, <2>4
<1>5. RouteInv'
  BY <1>1, <1>4, RouteKept
<1> QED BY <1>1, <1>5 DEF Fine

LEMMA ReceivePacketFine ==
    ASSUME NetInv, RouteInv, phase = "ready", NEW p \in Packets, ReceivePacket(p)
    PROVE  Fine
<1> DEFINE m == p[1]
<1>0. NetTypes /\ TrafficInv /\ Shape(agenda, queue, Buffers) /\ Runs(p, "receive")
  BY DEF NetInv, TrafficInv, EventsOK, ReceivePacket
<1>1. CASE p \in assembled[m] /\ Panics("assembled_twice")
  <2>1. p \in Frames /\ Has(agenda, queue, Buffers) = Has(Others, queue, Buffers) \cup {p}
    BY <1>0, RunEffect
  <2>2. Expected(p, status, assembled)
    BY <1>0, <2>1 DEF TrafficInv, EventsOK
  <2>3. p[2] # 0
    BY <1>0, PacketShape DEF NetTypes
  <2> QED BY <1>1, <2>2, <2>3 DEF Expected
<1>2. CASE p \notin assembled[m] /\ Assemble(p) /\ Receive(m, assembled[m] \cup {p})
  <2>1. m \in Msgs /\ assembled[m] \cup {p} = PacketsOf(m) /\ OnlyLeft(p, m)
    BY <1>0, <1>2, LastPacket
  <2>2. PICK ev : ev = "receive"
    BY Zenon
  <2>3. \A q \in PacketsOf(m) : q \in assembled[m] \/ (q = p /\ ev = "receive")
    BY <2>1, <2>2
  <2>4. Receive(m, PacketsOf(m)) /\ Runs(p, ev)
    BY <1>0, <1>2, <2>1, <2>2
  <2> HIDE DEF m
  <2> QED BY <2>1, <2>3, <2>4, ReceivedFine
<1>3. CASE /\ p \notin assembled[m]
           /\ Collects(p)
           /\ UNCHANGED <<queue, content, at, busy, grant, last>>
           /\ UNCHANGED <<status, order>> /\ unchangedNet
  BY <1>0, <1>3, CollectedFine
<1> QED BY <1>1, <1>2, <1>3 DEF ReceivePacket, Collects

LEMMA ClientReceivesFine ==
    ASSUME NetInv, RouteInv, phase = "ready", NEW m \in Msgs, ClientReceives(m)
    PROVE  Fine
<1>1. PICK f, ev : f = <<m, 0>> /\ ev = "arrived"
  BY Zenon
<1>2. Runs(f, ev) /\ Receive(m, assembled[m])
  BY <1>1 DEF ClientReceives
<1>3. assembled[m] = PacketsOf(m) /\ OnlyLeft(f, m)
  BY <1>1, <1>2, ClientHasAll
<1>4. \A p \in PacketsOf(m) : p \in assembled[m] \/ (p = f /\ ev = "receive")
  BY <1>3
<1> QED BY <1>2, <1>3, <1>4, ReceivedFine

LEMMA TickFine ==
    ASSUME NetInv, RouteInv, Tick
    PROVE  Fine
<1>1. /\ phase = "ready" /\ unchangedNet /\ at' = at /\ queue' = queue /\ Unsent
      /\ agenda' = [i \in DOMAIN agenda |-> [agenda[i] EXCEPT !.t = @ - 1]]
  BY DEF Tick, Unsent
<1>2. nw' = nw /\ table' = table /\ phase' \in {"ready", "error"} /\ failed' = failed
  BY <1>1, SettledFine
<1>3. agenda \in Seq(Events)
  BY DEF NetInv, NetTypes
<1>4. \A i \in DOMAIN agenda : /\ agenda'[i].frame = agenda[i].frame
                               /\ agenda'[i].ev = agenda[i].ev
  <2> SUFFICES ASSUME NEW i \in DOMAIN agenda
               PROVE  agenda'[i].frame = agenda[i].frame /\ agenda'[i].ev = agenda[i].ev
    OBVIOUS
  <2>1. agenda[i] \in Events /\ agenda'[i] = [agenda[i] EXCEPT !.t = @ - 1]
    BY <1>1, <1>3
  <2> QED BY <2>1 DEF Events
<1>5. DOMAIN agenda' = DOMAIN agenda
  BY <1>1
<1>6. Kinds(agenda') = Kinds(agenda)
  <2>1. \A i \in DOMAIN agenda : <<agenda'[i].frame, agenda'[i].ev>> = <<agenda[i].frame, agenda[i].ev>>
    BY <1>4
  <2> QED BY <1>5, <2>1, Zenon DEF Kinds
<1>7. AllKinds(agenda', queue', Buffers) \subseteq AllKinds(agenda, queue, Buffers)
  BY <1>1, <1>6 DEF AllKinds
<1>8. RouteInv'
  BY <1>1, <1>2, <1>7, RouteSame
<1> QED BY <1>2, <1>8 DEF Fine

\* Every step of the traffic.
LEMMA TrafficFine ==
    ASSUME NetInv, RouteInv, Step \/ (\E m \in Msgs : ClientSends(m)) \/ Finished
    PROVE  Fine
<1>1. phase = "ready"
  BY TrafficTouches DEF Untouched
<1>2. ASSUME NEW p \in Packets, OutputBuffer(p) \/ InputBuffer(p) \/ ReceivePacket(p)
      PROVE  Fine
  BY <1>1, <1>2, OutputBufferFine, InputBufferFine, ReceivePacketFine
<1>3. ASSUME NEW m \in Msgs, ClientRetries(m) PROVE Fine
  <2>1. PICK ag : ag = Others
    BY Zenon
  <2>2. Sends(m, ag) /\ TrySend(m, ag)
    BY <1>3, <2>1 DEF ClientRetries, Sends
  <2> QED BY <1>1, <2>2, TrySendFine
<1>4. ASSUME NEW m \in Msgs, ClientSends(m) PROVE Fine
  <2>1. PICK ag : ag = agenda
    BY Zenon
  <2>2. Sends(m, ag) /\ TrySend(m, ag)
    BY <1>4, <2>1 DEF ClientSends, Sends
  <2> QED BY <1>1, <2>2, TrySendFine
<1>5. ASSUME NEW m \in Msgs, ClientReceives(m) PROVE Fine
  BY <1>1, <1>5, ClientReceivesFine
<1>6. CASE Tick
  BY <1>6, TickFine
<1>7. CASE Finished
  <2>1. /\ nw' = nw /\ table' = table /\ phase' \in {"ready", "error"} /\ failed' = failed
        /\ at' = at /\ Unsent /\ agenda' = agenda /\ queue' = queue
    BY <1>1, <1>7 DEF Finished, vars, routingVars, traffic, Unsent
  <2>2. RouteInv'
    BY <2>1, RouteSame
  <2> QED BY <2>1, <2>2 DEF Fine
<1> QED BY <1>2, <1>3, <1>4, <1>5, <1>6, <1>7 DEF Step

(***************************************************************************)
(* RouteInv is inductive.                                                  *)
(***************************************************************************)
\* Nothing is under way.
LEMMA IdleRoute ==
    ASSUME NetInv, nw' = nw, \A m \in Msgs : status'[m] = "idle"
    PROVE  RouteInv'
<1>1. /\ Msgs' = Msgs /\ Packets' = Packets
      /\ \A p \in Packets : p[1] \in Msgs
  BY SameNet, PacketShape DEF NetInv, NetTypes
<1>2. ASSUME NEW p \in Packets PROVE ~ Stored(p, status)'
  <2>1. status'[p[1]] = "idle"
    BY <1>1, <1>2
  <2> QED BY <2>1 DEF Stored
<1>3. \A m \in Msgs' : status'[m] = "idle"
  BY <1>1
<1> QED BY <1>1, <1>2, <1>3 DEF RouteInv

\* The phases of the configuration.
LEMMA Configuring ==
    ASSUME RoutingNext
    PROVE  phase \in {"start", "hops", "cost", "search"}
  BY DEF RoutingNext, FloydWarshallCosts, FloydWarshallHops, UpdateRoute, CostStart, UpdateCost,
         Search

\* Every step keeps the packets on their routes.
LEMMA RouteStep ==
    ASSUME NetInv, RouteInv, [Next]_vars
    PROVE  RouteInv'
<1>1. CASE Configure
  <2>1. phase \in {"start", "hops", "cost", "search"} /\ nw' = nw /\ status' = status
    BY <1>1, Configuring, RoutingStep DEF Configure, traffic, NetInv, NetTypes
  <2>2. \A m \in Msgs : status'[m] = "idle"
    BY <2>1 DEF RouteInv
  <2> QED BY <2>1, <2>2, IdleRoute
<1>2. CASE UNCHANGED vars
  <2>1. /\ nw' = nw /\ table' = table /\ phase' = phase /\ at' = at /\ Unsent
        /\ agenda' = agenda /\ queue' = queue
    BY <1>2 DEF vars, routingVars, traffic, Unsent
  <2>2. CASE phase \in {"ready", "error"}
    BY <2>1, <2>2, RouteSame
  <2>3. CASE phase \notin {"ready", "error"}
    <3>1. \A m \in Msgs : status'[m] = "idle"
      BY <2>1, <2>3 DEF RouteInv, Unsent
    <3> QED BY <2>1, <3>1, IdleRoute
  <2> QED BY <2>2, <2>3
<1>3. CASE Step \/ (\E m \in Msgs : ClientSends(m)) \/ Finished
  BY <1>3, TrafficFine DEF Fine
<1> QED BY <1>1, <1>2, <1>3 DEF Next

\* RouteInv holds in every state.
LEMMA RouteInvariant == Spec => []RouteInv
<1>1. Init => RouteInv
  <2> SUFFICES ASSUME Init PROVE RouteInv
    OBVIOUS
  <2>1. phase = "start" /\ \A m \in Msgs : status[m] = "idle"
    BY DEF Init, RoutingInit, TrafficInit
  <2>2. \A p \in Packets : p[1] \in Msgs
    BY InitiallyOK, PacketShape DEF NetInv, NetTypes
  <2>3. \A p \in Packets : ~ Stored(p, status)
    BY <2>1, <2>2 DEF Stored
  <2> QED BY <2>1, <2>3 DEF RouteInv
<1>2. NetInv /\ RouteInv /\ [Next]_vars => RouteInv'
  BY RouteStep
<1> QED BY <1>1, <1>2, Invariant, PTL DEF Spec
-----------------------------------------------------------------------------
(***************************************************************************)
(* The theorems about panics.                                              *)
(***************************************************************************)
\* No error of the configuration was reported.
Accepted == failed \cap {"route_refused", "no_vertex"} = {}

\* Nothing has failed before the table is finished, or later if it is sound.
FailInv ==
    /\ phase \notin {"ready", "error"} => failed = {}
    /\ Accepted /\ Sound => failed = {}

\* What soundness is about does not change.
LEMMA SoundKept ==
    ASSUME nw' = nw, table' = table
    PROVE  Sound' <=> Sound
  BY SameNet DEF Sound

\* The configuration can fail in two ways.
LEMMA ConfigureFails ==
    ASSUME RoutingNext
    PROVE  \/ failed' = failed
           \/ UpdateRoute /\ phase' = "error" /\ failed' = failed \cup {"route_refused"}
           \/ /\ phase = "search" /\ phase' = "error" /\ failed' = failed \cup {"no_vertex"}
              /\ \E e \in Edges(nw, table) : ~ {e[1], e[2]} \subseteq Vertices(nw, table)
<1>1. ASSUME Search
      PROVE  \/ failed' = failed
             \/ /\ phase = "search" /\ phase' = "error" /\ failed' = failed \cup {"no_vertex"}
                /\ \E e \in Edges(nw, table) : ~ {e[1], e[2]} \subseteq Vertices(nw, table)
  BY <1>1, Zenon DEF Search, Fail
<1>2. ASSUME UpdateRoute
      PROVE  \/ failed' = failed
             \/ phase' = "error" /\ failed' = failed \cup {"route_refused"}
  BY <1>2 DEF UpdateRoute, Fail
<1> QED BY <1>1, <1>2 DEF RoutingNext, FloydWarshallCosts, FloydWarshallHops, CostStart, UpdateCost

\* A step of the configuration fails with an error of the configuration, and a
\* handler does not fail when the table is sound.
LEMMA FailStep ==
    ASSUME NetInv, RouteInv, FailInv, [Next]_vars
    PROVE  FailInv'
<1>1. CASE Configure
  <2>1. phase \in {"start", "hops", "cost", "search"} /\ failed = {}
    BY <1>1, Configuring DEF Configure, FailInv
  <2>2. \/ failed' = {}
        \/ phase' = "error" /\ failed' = {"route_refused"}
        \/ phase' = "error" /\ failed' = {"no_vertex"}
    BY <1>1, <2>1, ConfigureFails DEF Configure
  <2> QED BY <2>2 DEF FailInv, Accepted
<1>2. CASE UNCHANGED vars
  <2>1. phase' = phase /\ failed' = failed /\ nw' = nw /\ table' = table
    BY <1>2 DEF vars, routingVars
  <2> QED BY <2>1, SoundKept DEF FailInv, Accepted
<1>3. CASE Step \/ (\E m \in Msgs : ClientSends(m)) \/ Finished
  <2>1. nw' = nw /\ table' = table /\ phase' \in {"ready", "error"}
    BY <1>3, TrafficTouches DEF Untouched
  <2>2. Sound => failed' = failed
    BY <1>3, TrafficFine DEF Fine
  <2> QED BY <2>1, <2>2, SoundKept DEF FailInv, Accepted
<1> QED BY <1>1, <1>2, <1>3 DEF Next

\* With a sound table no handler panics or reports an error: a route exists
\* wherever a packet comes to, no packet passes through an end node, the next node
\* is on the bus, no message is too big for its buffer, and Receive finds every
\* packet of its message at the destination.  This covers the networks with a
\* Routes section, which RoutableNeverPanics leaves out.
THEOREM SoundNeverPanics == Spec => [](Accepted /\ Sound => NoPanic)
<1>1. Init => FailInv
  BY DEF Init, RoutingInit, FailInv
<1>2. NetInv /\ RouteInv /\ FailInv /\ [Next]_vars => FailInv'
  BY FailStep
<1>3. FailInv => (Accepted /\ Sound => NoPanic)
  BY DEF FailInv, NoPanic
<1> QED BY <1>1, <1>2, <1>3, Invariant, RouteInvariant, PTL DEF Spec

\* Networks with automatic routes for which the table is sound: the virtual
\* channels of a link end at one node, a message fits in a buffer, has another node
\* to go to and a way there, and a hop to an end node and another one from it are
\* never shorter than the direct way.
Routable ==
    /\ ~ nw.manual
    /\ \A c \in DOMAIN nw.conns : nw.conns[c].link =>
            \A k, l \in DOMAIN nw.conns[c].dst : nw.conns[c].dst[k] = nw.conns[c].dst[l]
    /\ \A m \in Msgs : /\ Required(m) <= nw.room
                       /\ nw.msgs[m].src # nw.msgs[m].dst
                       /\ nw.msgs[m].dst \in Reached(nw, nw.msgs[m].src)[Dimension(nw)]
    /\ \A i, j \in nw.nodes, e \in nw.ends : Hop(i, e) /\ Hop(e, j) /\ i # j => Hop(i, j)

\* No shortest route leads through an end node.
LEMMA NotThroughEnds ==
    ASSUME nw \in Nets, Routable, NEW t, Complete(t),
           NEW i \in nw.nodes, NEW j \in nw.nodes, i # j, t[i][j].cost < Dimension(nw)
    PROVE  /\ t[i][j].next \in nw.nodes /\ t[i][j].next \notin nw.ends \ {j}
           /\ t[t[i][j].next][j].cost < Dimension(nw)
           /\ t[i][j].buffer \in Via(i, t[i][j].next)
<1> DEFINE D == Dimension(nw)
           e == t[i][j].next
<1>0. D \in Nat
  BY NodeFacts
<1>1. /\ e \in nw.nodes /\ Hop(i, e) /\ t[e][j].cost + 1 <= t[i][j].cost
      /\ t[i][j].buffer \in Via(i, e)
  BY DEF Complete, HopDone
<1>2. /\ \A a, c \in nw.nodes : /\ t[a][c].cost \in Nat
                                /\ Hop(a, c) => t[a][c].cost = 1
      /\ \A a, c, k \in nw.nodes : t[a][c].cost <= t[a][k].cost + t[k][c].cost
  BY DistanceFacts DEF Complete, RoutesOK
<1> HIDE DEF D
<1>3. t[e][j].cost < D
  <2>1. t[e][j].cost \in Nat /\ t[i][j].cost \in Nat
    BY <1>1, <1>2
  <2>2. t[i][j].cost < D
    BY DEF D
  <2> QED BY <1>0, <1>1, <2>1, <2>2
<1>4. ASSUME e \in nw.ends, e # j PROVE FALSE
  <2> DEFINE k == t[e][j].next
  <2>1. k \in nw.nodes /\ Hop(e, k) /\ t[k][j].cost + 1 <= t[e][j].cost
    BY <1>1, <1>3, <1>4 DEF Complete, HopDone, D
  <2>2. t[k][j].cost \in Nat /\ t[e][j].cost \in Nat /\ t[i][j].cost \in Nat
    <3>1. \A a \in nw.nodes : t[a][j].cost \in Nat
      BY <1>2
    <3> HIDE DEF k, e
    <3> QED BY <1>1, <2>1, <3>1
  <2> HIDE DEF k, e
  <2>3. t[k][j].cost + 2 <= t[i][j].cost /\ i # k
    BY <1>1, <2>1, <2>2
  <2>4. Hop(i, k)
    BY <1>1, <1>4, <2>1, <2>3 DEF Routable
  <2>5. t[i][k].cost = 1 /\ t[i][j].cost <= t[i][k].cost + t[k][j].cost
    BY <1>2, <2>1, <2>4
  <2> QED BY <2>2, <2>3, <2>5
<1> QED BY <1>1, <1>3, <1>4 DEF D

\* A link leads to the node of its input buffer.
LEMMA LinkEnd ==
    ASSUME nw \in Nets, Routable, NEW i, NEW j, NEW b \in Via(i, j), Conn(nw, b).link
    PROVE  BufferNode(nw, <<"in", b[2], b[3]>>) = j
<1>1. b \in OutBuffers(nw) /\ Leads(nw, b, j)
  BY ViaIs
<1>2. b[2] \in DOMAIN nw.conns /\ <<"in", b[2], b[3]>> \in InBuffers(nw)
  BY <1>1, BufferShape
<1>3. PICK d \in InBuffers(nw) : d = <<"in", b[2], b[3]>>
  BY <1>2
<1>4. d[1] = "in" /\ d[2] = b[2] /\ d[3] = b[3] /\ d[3] \in DOMAIN nw.conns[d[2]].dst
  BY <1>3, BufferShape
<1>5. BufferNode(nw, d) = nw.conns[b[2]].dst[b[3]]
  BY <1>4 DEF BufferNode, Conn
<1>6. PICK l \in DOMAIN nw.conns[b[2]].dst : j = nw.conns[b[2]].dst[l]
  BY <1>1 DEF Leads, Range, Conn
<1>7. nw.conns[b[2]].dst[b[3]] = nw.conns[b[2]].dst[l]
  BY <1>2, <1>4, <1>6 DEF Routable, Conn
<1> QED BY <1>3, <1>5, <1>6, <1>7

\* The finished table of such a network is sound.
LEMMA RoutableIsSound ==
    ASSUME nw \in Nets, Routable, Complete(table)
    PROVE  Sound
<1> SUFFICES ASSUME NEW m \in Msgs PROVE \E R \in SUBSET nw.nodes : Guides(nw, table, m, R)
  BY DEF Sound, Routable
<1> DEFINE D == Dimension(nw)
           src == nw.msgs[m].src
           dst == nw.msgs[m].dst
           R == {i \in nw.nodes : table[i][dst].cost < D} \ (nw.ends \ {src, dst})
<1>0. D \in Nat /\ src \in nw.nodes /\ dst \in nw.nodes /\ src # dst
  BY NodeFacts, MessageShape DEF Routable
<1>1. table[src][dst].cost < D
  <2>1. dst \in Reached(nw, src)[D] /\ D \in 0 .. D
    BY <1>0 DEF Routable
  <2>2. PICK y \in 0 .. D : WalkOf(src, dst, y)
    BY <1>0, <2>1, ReachedIs
  <2>3. y \in Nat
    BY <1>0
  <2> QED BY <1>0, <2>2, <2>3 DEF Complete, RoutesOK, DistanceOK
<1>2. src \in R \ {dst}
  BY <1>0, <1>1
<1>3. ASSUME NEW i \in R \ {dst} PROVE Onward(nw, table, i, dst, R)
  <2> DEFINE b == table[i][dst].buffer
             next == table[i][dst].next
  <2>1. /\ next \in nw.nodes /\ next \notin nw.ends \ {dst} /\ table[next][dst].cost < D
        /\ b \in Via(i, next)
    BY <1>0, <1>3, NotThroughEnds
  <2>2. b \in OutBuffersOf(nw, i) /\ Leads(nw, b, next)
    BY <2>1 DEF Via
  <2>3. Conn(nw, b).link => BufferNode(nw, <<"in", b[2], b[3]>>) = next
    BY <2>1, LinkEnd
  <2>4. next \in R
    BY <2>1
  <2> HIDE DEF R
  <2> QED BY <2>1, <2>2, <2>3, <2>4, Zenon DEF Onward
<1>4. Guides(nw, table, m, R)
  <2> HIDE DEF R
  <2> QED BY <1>2, <1>3 DEF Guides
<1> QED BY <1>4

\* Every buffer that an edge of the finished table joins is a vertex, so the search
\* for cycles does not fail.
LEMMA EdgesJoinVertices ==
    ASSUME nw \in Nets, NEW t, Complete(t), NEW e \in Edges(nw, t)
    PROVE  {e[1], e[2]} \subseteq Vertices(nw, t)
<1> DEFINE D == Dimension(nw)
<1>0. D \in Nat
  BY NodeFacts
<1>1. TableOK(t) /\ NextOK(t) /\ DistanceOK(t)
  BY DEF Complete, RoutesOK
<1>2. ASSUME NEW i \in nw.nodes, NEW j \in nw.nodes, t[i][j].buffer # NoBuffer
      PROVE  t[i][j].next \in nw.nodes /\ t[i][j].buffer \in Vertices(nw, t)
  <2>1. t[i][j].cost \notin {0, D}
    BY <1>1, <1>2 DEF NextOK
  <2>2. t[i][j].cost \in Nat /\ t[i][j].cost <= D /\ i # j
    <3>1. t[i][j].cost \in Nat /\ (t[i][j].cost = 0 <=> i = j)
      BY <1>1, DistanceFacts
    <3> QED BY <1>1, <2>1, <3>1 DEF DistanceOK
  <2>3. t[i][j].cost < D
    <3> HIDE DEF D
    <3> QED BY <1>0, <2>1, <2>2
  <2>4. t[i][j].next \in nw.nodes /\ t[i][j].buffer \in Via(i, t[i][j].next)
    BY <2>2, <2>3 DEF Complete, HopDone
  <2>5. t[i][j].buffer \in OutBuffers(nw) /\ BufferNode(nw, t[i][j].buffer) = i
    BY <2>4, ViaIs
  <2> QED BY <2>4, <2>5 DEF Vertices
<1>3. PICK i \in nw.nodes, j \in nw.nodes :
            /\ t[i][j].buffer # NoBuffer /\ t[t[i][j].next][j].buffer # NoBuffer
            /\ e = <<t[i][j].buffer, t[t[i][j].next][j].buffer>>
  BY DEF Edges
<1> QED BY <1>2, <1>3

\* The invariant of these networks.
RoutableInv == Routable => failed = {}

\* It is a property of the configuration.
LEMMA RoutableKept ==
    ASSUME nw' = nw
    PROVE  Routable' <=> Routable
<1>1. \A i, j : Hop(i, j)' <=> Hop(i, j)
  BY DEF Hop, Via
<1> QED BY <1>1, SameNet DEF Routable

\* Neither the configuration nor a handler fails.
LEMMA RoutableStep ==
    ASSUME NetInv, RoutesInv, RouteInv, RoutableInv, [Next]_vars
    PROVE  RoutableInv'
<1>1. CASE Configure
  <2>1. nw' = nw
    BY <1>1, RoutingStep DEF Configure, NetInv, NetTypes
  <2>2. ASSUME UpdateRoute PROVE ~ Routable
    BY <2>2 DEF UpdateRoute, Routable
  <2>3. ASSUME phase = "search", Routable
        PROVE  \A e \in Edges(nw, table) : {e[1], e[2]} \subseteq Vertices(nw, table)
    <3>1. nw \in Nets /\ Complete(table)
      BY <2>3 DEF RoutesInv, Routable
    <3> QED BY <3>1, EdgesJoinVertices
  <2>4. Routable => failed' = failed
    BY <1>1, <2>2, <2>3, ConfigureFails DEF Configure
  <2> QED BY <2>1, <2>4, RoutableKept DEF RoutableInv
<1>2. CASE UNCHANGED vars
  <2>1. failed' = failed /\ nw' = nw
    BY <1>2 DEF vars, routingVars
  <2> QED BY <2>1, RoutableKept DEF RoutableInv
<1>3. CASE Step \/ (\E m \in Msgs : ClientSends(m)) \/ Finished
  <2>1. nw' = nw /\ phase = "ready"
    BY <1>3, TrafficTouches DEF Untouched
  <2>2. Routable => Sound
    BY <2>1, RoutableIsSound DEF RoutesInv, Routable
  <2>3. Sound => failed' = failed
    BY <1>3, TrafficFine DEF Fine
  <2> QED BY <2>1, <2>2, <2>3, RoutableKept DEF RoutableInv
<1> QED BY <1>1, <1>2, <1>3 DEF Next

\* A network with automatic routes never reports an error, from its configuration
\* to the last message, if the messages fit in the buffers, their destinations can
\* be reached and no route needs an end node on its way.  The code expects this of a
\* configuration and finds out only when a packet does not get through.
THEOREM RoutableNeverPanics == Spec => [](Routable => NoPanic)
<1>1. Init => RoutableInv
  BY DEF Init, RoutingInit, RoutableInv
<1>2. NetInv /\ RoutesInv /\ RouteInv /\ RoutableInv /\ [Next]_vars => RoutableInv'
  BY RoutableStep
<1>3. RoutableInv => (Routable => NoPanic)
  BY DEF RoutableInv, NoPanic
<1> QED BY <1>1, <1>2, <1>3, Invariant, RoutesInvariant, RouteInvariant, PTL DEF Spec
=============================================================================
