------------------------- MODULE RoutingTable_proof -------------------------
(***************************************************************************)
(* Proofs about the configuration of a network, for every topology: the    *)
(* automatic routes are the shortest ones, and the search for cycles finds *)
(* one when there is one.                                                  *)
(***************************************************************************)
EXTENDS Network, SeqLemmas, TLAPS

(***************************************************************************)
(* Buffers.                                                                *)
(***************************************************************************)
LEMMA BufferShape ==
    ASSUME nw \in Nets
    PROVE  /\ \A b \in OutBuffers(nw) :
                /\ b[1] = "out" /\ b = <<b[1], b[2], b[3]>> /\ b \notin InBuffers(nw)
                /\ b[2] \in DOMAIN nw.conns /\ b[3] \in DOMAIN nw.conns[b[2]].src
                /\ b[2] \in Nat /\ b[3] \in Nat
                /\ BufferNode(nw, b) \in nw.nodes
                /\ Conn(nw, b).link => <<"in", b[2], b[3]>> \in InBuffers(nw)
           /\ \A b \in InBuffers(nw) :
                /\ b[1] = "in" /\ b = <<b[1], b[2], b[3]>> /\ b \notin OutBuffers(nw)
                /\ b[2] \in DOMAIN nw.conns /\ b[3] \in DOMAIN nw.conns[b[2]].dst
                /\ b[2] \in Nat /\ b[3] \in Nat
                /\ BufferNode(nw, b) \in nw.nodes
           /\ \A b \in Buffers : b # NoBuffer
<1> DEFINE R == [link : BOOLEAN, src : Seq(nw.nodes), dst : Seq(nw.nodes)]
<1>1. nw.conns \in Seq(R)
  BY NetAssumption
<1>2. \A c \in DOMAIN nw.conns : nw.conns[c].link => Len(nw.conns[c].src) = Len(nw.conns[c].dst)
  BY NetAssumption
<1>3. ASSUME NEW c \in DOMAIN nw.conns
      PROVE  /\ c \in Nat /\ nw.conns[c].src \in Seq(nw.nodes) /\ nw.conns[c].dst \in Seq(nw.nodes)
  <2>1. nw.conns[c] \in R /\ c \in Nat
    <3> HIDE DEF R
    <3> QED  BY <1>1
  <2> QED  BY <2>1
<1>4. ASSUME NEW b \in OutBuffers(nw)
      PROVE  /\ b[1] = "out" /\ b = <<b[1], b[2], b[3]>>
             /\ b[2] \in DOMAIN nw.conns /\ b[3] \in DOMAIN nw.conns[b[2]].src
             /\ b # NoBuffer
  <2>1. PICK c \in DOMAIN nw.conns : b \in {<<"out", c, i>> : i \in DOMAIN nw.conns[c].src}
    BY Zenon DEF OutBuffers
  <2>2. PICK i \in DOMAIN nw.conns[c].src : b = <<"out", c, i>>
    BY <2>1
  <2>3. b[1] = "out" /\ b[2] = c /\ b[3] = i /\ b # <<>>
    BY <2>2
  <2> QED  BY <2>2, <2>3 DEF NoBuffer
<1>5. ASSUME NEW b \in InBuffers(nw)
      PROVE  /\ b[1] = "in" /\ b = <<b[1], b[2], b[3]>>
             /\ b[2] \in DOMAIN nw.conns /\ b[3] \in DOMAIN nw.conns[b[2]].dst
             /\ b # NoBuffer
  <2>1. PICK c \in DOMAIN nw.conns : b \in {<<"in", c, i>> : i \in DOMAIN nw.conns[c].dst}
    BY Zenon DEF InBuffers
  <2>2. PICK i \in DOMAIN nw.conns[c].dst : b = <<"in", c, i>>
    BY <2>1
  <2>3. b[1] = "in" /\ b[2] = c /\ b[3] = i /\ b # <<>>
    BY <2>2
  <2> QED  BY <2>2, <2>3 DEF NoBuffer
<1>6. \A b \in OutBuffers(nw) : b \notin InBuffers(nw)
  BY <1>4, <1>5
<1>7. ASSUME NEW b \in OutBuffers(nw)
      PROVE  /\ b[2] \in Nat /\ b[3] \in Nat
             /\ BufferNode(nw, b) \in nw.nodes
             /\ Conn(nw, b).link => <<"in", b[2], b[3]>> \in InBuffers(nw)
  <2> DEFINE c == b[2]
             i == b[3]
  <2>1. /\ c \in DOMAIN nw.conns /\ c \in Nat /\ i \in DOMAIN nw.conns[c].src
        /\ nw.conns[c].src \in Seq(nw.nodes) /\ nw.conns[c].dst \in Seq(nw.nodes)
        /\ nw.conns[c].link => Len(nw.conns[c].src) = Len(nw.conns[c].dst)
    BY <1>2, <1>3, <1>4
  <2>2. b[1] = "out"
    BY <1>4
  <2>3. Conn(nw, b) = nw.conns[c] /\ BufferNode(nw, b) = nw.conns[c].src[i]
    BY <2>2 DEF Conn, BufferNode
  <2> HIDE DEF c, i
  <2>4. i \in Nat /\ nw.conns[c].src[i] \in nw.nodes
    BY <2>1
  <2>5. ASSUME nw.conns[c].link PROVE <<"in", c, i>> \in InBuffers(nw)
    <3>1. i \in DOMAIN nw.conns[c].dst
      BY <2>1, <2>5
    <3>2. <<"in", c, i>> \in {<<"in", c, k>> : k \in DOMAIN nw.conns[c].dst}
      BY <3>1, Zenon
    <3> QED  BY <2>1, <3>2, Zenon DEF InBuffers
  <2> QED  BY <2>1, <2>3, <2>4, <2>5 DEF c, i
<1>8. ASSUME NEW b \in InBuffers(nw)
      PROVE  b[2] \in Nat /\ b[3] \in Nat /\ BufferNode(nw, b) \in nw.nodes
  <2> DEFINE c == b[2]
             i == b[3]
  <2>1. /\ c \in DOMAIN nw.conns /\ c \in Nat /\ i \in DOMAIN nw.conns[c].dst
        /\ nw.conns[c].dst \in Seq(nw.nodes)
    BY <1>3, <1>5
  <2>2. b[1] # "out"
    BY <1>5
  <2>3. BufferNode(nw, b) = nw.conns[c].dst[i]
    BY <2>2 DEF Conn, BufferNode
  <2> HIDE DEF c, i
  <2>4. i \in Nat /\ nw.conns[c].dst[i] \in nw.nodes
    BY <2>1
  <2> QED  BY <2>1, <2>3, <2>4 DEF c, i
<1> QED  BY <1>4, <1>5, <1>6, <1>7, <1>8, Zenon DEF Buffers
\* Two output buffers, or two input buffers, differ in their connection or
\* index.
LEMMA BuffersDiffer ==
    ASSUME nw \in Nets, NEW b, NEW d, b # d,
           \/ b \in OutBuffers(nw) /\ d \in OutBuffers(nw)
           \/ b \in InBuffers(nw) /\ d \in InBuffers(nw)
    PROVE  b[2] # d[2] \/ b[3] # d[3]
<1>1. CASE b \in OutBuffers(nw) /\ d \in OutBuffers(nw)
  <2>1. b[1] = "out" /\ b = <<b[1], b[2], b[3]>>
    BY <1>1, BufferShape
  <2>2. d[1] = "out" /\ d = <<d[1], d[2], d[3]>>
    BY <1>1, BufferShape
  <2> QED  BY <2>1, <2>2, Zenon
<1>2. CASE b \in InBuffers(nw) /\ d \in InBuffers(nw)
  <2>1. b[1] = "in" /\ b = <<b[1], b[2], b[3]>>
    BY <1>2, BufferShape
  <2>2. d[1] = "in" /\ d = <<d[1], d[2], d[3]>>
    BY <1>2, BufferShape
  <2> QED  BY <2>1, <2>2, Zenon
<1> QED  BY <1>1, <1>2

\* The search for the first or the last one of some buffers finds it.
LEMMA BufferChoice ==
    ASSUME nw \in Nets, NEW bs, bs # {},
           bs \in SUBSET OutBuffers(nw) \/ bs \in SUBSET InBuffers(nw)
    PROVE  FirstBuffer(bs) \in bs
<1>1. ASSUME NEW b \in bs, NEW d \in bs, b # d
      PROVE  b[2] # d[2] \/ b[3] # d[3]
  BY <1>1, BuffersDiffer
<1>2. \A b \in bs : b[2] \in Nat /\ b[3] \in Nat
  BY BufferShape
<1> DEFINE f == [b \in bs |-> b[2]]
<1>3. PICK b \in bs : \A d \in bs : b[2] <= d[2]
  <2>1. f \in [bs -> Nat] /\ \A d \in bs : f[d] = d[2]
    BY <1>2
  <2> HIDE DEF f
  <2>2. \E b \in bs : \A d \in bs : f[b] <= f[d]
    BY <2>1, LeastExists
  <2> QED  BY <2>1, <2>2
<1> DEFINE T == {d \in bs : d[2] = b[2]}
           g == [d \in T |-> d[3]]
<1>4. PICK e \in T : \A d \in T : e[3] <= d[3]
  <2>1. g \in [T -> Nat] /\ T # {} /\ \A d \in T : g[d] = d[3]
    BY <1>2
  <2> HIDE DEF g, T
  <2>2. \E x \in T : \A d \in T : g[x] <= g[d]
    BY <2>1, LeastExists
  <2> QED  BY <2>1, <2>2
<1>5. \A d \in bs \ {e} : Before(e, d)
  <2> SUFFICES ASSUME NEW d \in bs, d # e PROVE e[2] < d[2] \/ (e[2] = d[2] /\ e[3] < d[3])
    BY DEF Before
  <2>1. e \in bs /\ e[2] = b[2] /\ b[2] <= d[2]
    BY <1>3
  <2>2. e[2] \in Nat /\ d[2] \in Nat /\ e[3] \in Nat /\ d[3] \in Nat
    BY <1>2, <2>1
  <2>3. d[2] = b[2] => e[3] <= d[3]
    BY <1>4
  <2>4. e[2] # d[2] \/ e[3] # d[3]
    BY <1>1, <2>1
  <2> QED  BY <2>1, <2>2, <2>3, <2>4
<1>6. \E x \in bs : \A d \in bs \ {x} : Before(x, d)
  BY <1>5
<1> QED  BY <1>6, Zenon DEF FirstBuffer

\* A set of output buffers has a last one.
LEMMA LastOutBuffer ==
    ASSUME nw \in Nets, NEW bs \in SUBSET OutBuffers(nw), bs # {}
    PROVE  LastBuffer(bs) \in bs
<1>1. ASSUME NEW b \in bs, NEW d \in bs, b # d
      PROVE  b[2] # d[2] \/ b[3] # d[3]
  BY <1>1, BuffersDiffer
<1>2. \A b \in bs : b[2] \in Nat /\ b[3] \in Nat
  BY BufferShape
<1> DEFINE R == [link : BOOLEAN, src : Seq(nw.nodes), dst : Seq(nw.nodes)]
<1>3. nw.conns \in Seq(R)
  BY NetAssumption
<1>4. PICK b \in bs : \A d \in bs : d[2] <= b[2]
  <2> DEFINE S == {d[2] : d \in bs}
  <2>1. \A d \in bs : d[2] \in DOMAIN nw.conns
    BY BufferShape
  <2>2. Len(nw.conns) \in Int /\ DOMAIN nw.conns = 1 .. Len(nw.conns)
    <3> HIDE DEF R
    <3> QED  BY <1>3
  <2>3. S \in SUBSET Int /\ S # {} /\ \A n \in S : n <= Len(nw.conns)
    BY <1>2, <2>1, <2>2
  <2> HIDE DEF S
  <2>4. PICK n \in S : \A m \in S : m <= n
    BY <2>2, <2>3, GreatestExists
  <2> USE DEF S
  <2> QED  BY <2>4
<1> DEFINE T == {d \in bs : d[2] = b[2]}
<1>5. PICK e \in T : \A d \in T : d[3] <= e[3]
  <2> DEFINE S == {d[3] : d \in T}
             q == nw.conns[b[2]].src
  <2>1. \A d \in T : d[3] \in DOMAIN q
    BY BufferShape
  <2>2. Len(q) \in Int /\ DOMAIN q = 1 .. Len(q)
    <3>1. b[2] \in DOMAIN nw.conns
      BY BufferShape
    <3>2. nw.conns[b[2]] \in R
      <4> HIDE DEF R
      <4> QED  BY <1>3, <3>1
    <3>3. q \in Seq(nw.nodes)
      BY <3>2
    <3> HIDE DEF q
    <3> QED  BY <3>3
  <2> HIDE DEF q
  <2>3. S \in SUBSET Int /\ S # {} /\ \A n \in S : n <= Len(q)
    BY <1>2, <2>1, <2>2
  <2> HIDE DEF S
  <2>4. PICK n \in S : \A m \in S : m <= n
    BY <2>2, <2>3, GreatestExists
  <2> USE DEF S
  <2> QED  BY <2>4
<1>6. \A d \in bs \ {e} : Before(d, e)
  <2> SUFFICES ASSUME NEW d \in bs, d # e PROVE d[2] < e[2] \/ (d[2] = e[2] /\ d[3] < e[3])
    BY DEF Before
  <2>1. e \in bs /\ e[2] = b[2] /\ d[2] <= b[2]
    BY <1>4
  <2>2. e[2] \in Nat /\ d[2] \in Nat /\ e[3] \in Nat /\ d[3] \in Nat
    BY <1>2, <2>1
  <2>3. d[2] = b[2] => d[3] <= e[3]
    BY <1>5
  <2>4. e[2] # d[2] \/ e[3] # d[3]
    BY <1>1, <2>1
  <2> QED  BY <2>1, <2>2, <2>3, <2>4
<1>7. \E x \in bs : \A d \in bs \ {x} : Before(d, x)
  BY <1>6
<1> QED  BY <1>7, Zenon DEF LastBuffer

-----------------------------------------------------------------------------
(***************************************************************************)
(* The search for a cycle, in a graph with vertices V and edges G.         *)
(***************************************************************************)
Verts(st) == {st[i].vertex : i \in DOMAIN st}
On(d) == Verts(d.stack)
Left(d) == d.visited \ On(d)
CyclicIn(G, F) == \E s \in SUBSET F : s # {} /\ \A v \in s : \E w \in s : <<v, w>> \in G
Following(G, v) == {e[2] : e \in {x \in G : x[1] = v}}
Item(v, todo) == [vertex |-> v, todo |-> todo]

\* The stack is a path of G.  What has been left leads only to what has been left,
\* and there is no cycle in it.
StackOK(st, G, V) ==
    /\ st \in Seq([vertex : V, todo : SUBSET V])
    /\ \A i, j \in DOMAIN st : st[i].vertex = st[j].vertex => i = j
    /\ \A i \in 1 .. Len(st) - 1 : <<st[i].vertex, st[i + 1].vertex>> \in G
    /\ \A i \in DOMAIN st : \A w \in st[i].todo : <<st[i].vertex, w>> \in G
TodoOK(st, G, F) ==
    \A i \in DOMAIN st : \A w : <<st[i].vertex, w>> \in G =>
        w \in st[i].todo \/ w \in F \/ (i < Len(st) /\ w = st[i + 1].vertex)
LeftOK(G, F) ==
    /\ \A v \in F : \A w : <<v, w>> \in G => w \in F
    /\ ~ CyclicIn(G, F)
DfsInv(d, G, V) ==
    /\ d = [visited |-> d.visited, stack |-> d.stack]
    /\ d.visited \subseteq V /\ On(d) \subseteq d.visited
    /\ StackOK(d.stack, G, V) /\ TodoOK(d.stack, G, Left(d)) /\ LeftOK(G, Left(d))
    /\ d.stack # <<>> => G \subseteq V \X V

\* The top of stack st takes vertex v from what it has left to try.
Takes(r, st, v, V) ==
    /\ r \in Seq([vertex : V, todo : SUBSET V]) /\ Len(r) = Len(st)
    /\ \A i \in DOMAIN st : r[i].vertex = st[i].vertex
    /\ \A i \in 1 .. Len(st) - 1 : r[i].todo = st[i].todo
    /\ st # <<>> => r[Len(st)].todo = st[Len(st)].todo \ {v}

\* Vertex v is pushed on the stack.
Pushes(z, st, v, G, V) ==
    /\ v \in V
    /\ st = <<>> \/ <<st[Len(st)].vertex, v>> \in G
    /\ \E r : Takes(r, st, v, V) /\ z = Append(r, Item(v, Following(G, v)))

\* A vertex that was never visited goes on top of the stack.
LEMMA StackPushed ==
    ASSUME NEW V, NEW G, G \subseteq V \X V, NEW F, NEW st, NEW v, v \notin F,
           StackOK(st, G, V), TodoOK(st, G, F), v \notin Verts(st),
           NEW z, Pushes(z, st, v, G, V)
    PROVE  StackOK(z, G, V) /\ TodoOK(z, G, F) /\ Verts(z) = Verts(st) \cup {v}
<1>b. v \in V /\ (st = <<>> \/ <<st[Len(st)].vertex, v>> \in G)
  BY DEF Pushes
<1>c. PICK r : Takes(r, st, v, V) /\ z = Append(r, Item(v, Following(G, v)))
  BY DEF Pushes
<1>a. /\ r \in Seq([vertex : V, todo : SUBSET V]) /\ Len(r) = Len(st)
      /\ G \in SUBSET (V \X V) /\ v \in V
      /\ st # <<>> => <<st[Len(st)].vertex, v>> \in G
      /\ \A i \in DOMAIN st : r[i].vertex = st[i].vertex
      /\ \A i \in 1 .. Len(st) - 1 : r[i].todo = st[i].todo
      /\ st # <<>> => r[Len(st)].todo = st[Len(st)].todo \ {v}
      /\ \A i \in DOMAIN st : st[i].vertex # v
  BY <1>b, <1>c DEF Takes, Verts
<1> USE <1>a DEF Verts
<1> DEFINE R == [vertex : V, todo : SUBSET V]
           x == Item(v, Following(G, v))
           n == Len(st)
           q == Append(r, x)
<1>1. /\ n \in Nat /\ st \in Seq(R) /\ DOMAIN st = 1 .. n /\ r \in Seq(R) /\ DOMAIN r = 1 .. n
      /\ st # <<>> <=> n # 0
  BY DEF StackOK
<1>2. x \in R /\ x.vertex = v /\ x.todo = Following(G, v)
  BY DEF Item, Following
<1>3. \A w : w \in Following(G, v) <=> <<v, w>> \in G
  BY DEF Following
<1>4. \A i \in 1 .. n : st[i] \in R /\ r[i] \in R
  <2> HIDE DEF R, n
  <2> QED BY <1>1
<1> HIDE DEF R, x, n
<1>5. /\ q \in Seq(R) /\ Len(q) = n + 1 /\ DOMAIN q = 1 .. n + 1
      /\ q[n + 1] = x /\ \A i \in 1 .. n : q[i] = r[i]
  BY <1>1, <1>2 DEF n
<1> HIDE DEF q
<1>6. \A i \in 1 .. n : q[i].vertex = st[i].vertex /\ st[i].vertex # v
  BY <1>1, <1>5
<1>7. q[n + 1].vertex = v /\ q[n + 1].todo = Following(G, v)
  BY <1>2, <1>5
<1>8. \A i, j \in DOMAIN q : q[i].vertex = q[j].vertex => i = j
  <2> SUFFICES ASSUME NEW i \in 1 .. n + 1, NEW j \in 1 .. n + 1, q[i].vertex = q[j].vertex
               PROVE  i = j
    BY <1>5
  <2>1. i = n + 1 \/ i \in 1 .. n
    BY <1>1
  <2>2. j = n + 1 \/ j \in 1 .. n
    BY <1>1
  <2>3. \A a, b \in 1 .. n : st[a].vertex = st[b].vertex => a = b
    BY <1>1 DEF StackOK
  <2>4. CASE i \in 1 .. n /\ j \in 1 .. n
    BY <1>6, <2>3, <2>4
  <2>5. CASE i = n + 1 /\ j \in 1 .. n
    BY <1>6, <1>7, <2>5
  <2>6. CASE i \in 1 .. n /\ j = n + 1
    BY <1>6, <1>7, <2>6
  <2> QED BY <2>1, <2>2, <2>4, <2>5, <2>6
<1>9. \A i \in 1 .. Len(q) - 1 : <<q[i].vertex, q[i + 1].vertex>> \in G
  <2> SUFFICES ASSUME NEW i \in 1 .. n PROVE <<q[i].vertex, q[i + 1].vertex>> \in G
    BY <1>1, <1>5
  <2>1. CASE i = n
    <3>1. n # 0 /\ <<st[n].vertex, v>> \in G
      BY <1>1, <2>1 DEF n
    <3> QED BY <1>6, <1>7, <2>1, <3>1
  <2>2. CASE i # n
    <3>1. i \in 1 .. n - 1 /\ i + 1 \in 1 .. n
      BY <1>1, <2>2
    <3>2. <<st[i].vertex, st[i + 1].vertex>> \in G
      BY <3>1 DEF StackOK, n
    <3> QED BY <1>6, <3>1, <3>2
  <2> QED BY <2>1, <2>2
<1>10. \A i \in 1 .. n : i # n => q[i].todo = st[i].todo
  <2> SUFFICES ASSUME NEW i \in 1 .. n, i # n PROVE q[i].todo = st[i].todo
    OBVIOUS
  <2>1. i \in 1 .. n - 1
    BY <1>1
  <2> QED BY <1>5, <2>1 DEF n
<1>11. n # 0 => q[n].todo = st[n].todo \ {v}
  <2>1. n # 0 => n \in 1 .. n
    BY <1>1
  <2> QED BY <1>1, <1>5, <2>1 DEF n
<1>12. \A i \in DOMAIN q : \A w \in q[i].todo : <<q[i].vertex, w>> \in G
  <2> SUFFICES ASSUME NEW i \in 1 .. n + 1, NEW w \in q[i].todo PROVE <<q[i].vertex, w>> \in G
    BY <1>5
  <2>1. CASE i = n + 1
    BY <1>3, <1>7, <2>1
  <2>2. CASE i \in 1 .. n
    <3>1. w \in st[i].todo
      BY <1>10, <1>11, <2>2
    <3>2. <<st[i].vertex, w>> \in G
      BY <1>1, <2>2, <3>1 DEF StackOK
    <3> QED BY <1>6, <2>2, <3>2
  <2> QED BY <1>1, <2>1, <2>2
<1>13. StackOK(q, G, V)
  BY <1>5, <1>8, <1>9, <1>12 DEF StackOK, R
<1>14. TodoOK(q, G, F)
  <2> SUFFICES ASSUME NEW i \in 1 .. n + 1, NEW w, <<q[i].vertex, w>> \in G
               PROVE  w \in q[i].todo \/ w \in F \/ (i < n + 1 /\ w = q[i + 1].vertex)
    BY <1>5 DEF TodoOK
  <2>1. CASE i = n + 1
    BY <1>3, <1>7, <2>1
  <2>2. CASE i \in 1 .. n
    <3>1. w \in st[i].todo \/ w \in F \/ (i < n /\ w = st[i + 1].vertex)
      BY <1>1, <1>6, <2>2 DEF TodoOK, n
    <3>2. CASE i = n
      BY <1>1, <1>7, <1>11, <2>2, <3>1, <3>2
    <3>3. CASE i # n
      <4>1. i + 1 \in 1 .. n /\ i < n + 1 /\ i < n
        BY <1>1, <2>2, <3>3
      <4> QED BY <1>6, <1>10, <2>2, <3>1, <3>3, <4>1
    <3> QED BY <3>2, <3>3
  <2> QED BY <1>1, <2>1, <2>2
<1>15. {q[i].vertex : i \in DOMAIN q} = {st[i].vertex : i \in DOMAIN st} \cup {v}
  <2>1. \A i \in 1 .. n + 1 : i = n + 1 \/ i \in 1 .. n
    BY <1>1
  <2>2. n + 1 \in 1 .. n + 1 /\ \A i \in 1 .. n : i \in 1 .. n + 1
    BY <1>1
  <2>3. {q[i].vertex : i \in DOMAIN q} \subseteq {st[i].vertex : i \in DOMAIN st} \cup {v}
    BY <1>1, <1>5, <1>6, <1>7, <2>1
  <2>4. \A i \in DOMAIN st : i \in DOMAIN q /\ q[i].vertex = st[i].vertex
    BY <1>1, <1>5, <1>6, <2>2
  <2>5. n + 1 \in DOMAIN q
    BY <1>5, <2>2
  <2>6. {st[i].vertex : i \in DOMAIN st} \subseteq {q[i].vertex : i \in DOMAIN q}
    BY <2>4
  <2>7. v \in {q[i].vertex : i \in DOMAIN q}
    BY <1>7, <2>5
  <2> QED BY <2>3, <2>6, <2>7, Zenon
<1>16. z = q
  BY <1>c DEF q, x
<1>17. Verts(q) = Verts(st) \cup {v}
  BY <1>15, Zenon
<1> HIDE DEF Verts, q
<1> QED BY <1>13, <1>14, <1>16, <1>17

\* The top of the stack has nothing left to try.
LEMMA StackPopped ==
    ASSUME NEW V, NEW G \in SUBSET (V \X V), NEW F, NEW st, st # <<>>,
           StackOK(st, G, V), TodoOK(st, G, F), LeftOK(G, F),
           st[Len(st)].todo = {}
    PROVE  LET q == Front(st)
               v == st[Len(st)].vertex
           IN  /\ StackOK(q, G, V) /\ TodoOK(q, G, F \cup {v}) /\ LeftOK(G, F \cup {v})
               /\ Verts(q) = Verts(st) \ {v} /\ v \in Verts(st)
<1> USE DEF Verts
<1> DEFINE R == [vertex : V, todo : SUBSET V]
           n == Len(st)
           q == Front(st)
           v == st[n].vertex
<1>1. st \in Seq(R) /\ n \in Nat \ {0} /\ DOMAIN st = 1 .. n
  BY DEF StackOK
<1>0. n \in Nat \ {0}
  BY <1>1
<1> HIDE DEF R
<1>2. q \in Seq(R) /\ Len(q) = n - 1 /\ DOMAIN q = 1 .. n - 1 /\ \A i \in 1 .. n - 1 : q[i] = st[i]
  <2>1. q = SubSeq(st, 1, n - 1)
    BY DEF Front
  <2> HIDE DEF q
  <2> QED BY <1>1, <2>1
<1> HIDE DEF q, v, n
<1>3. n \in 1 .. n /\ \A i \in 1 .. n - 1 : i \in 1 .. n /\ i # n
  BY <1>0
<1>4. \A i, j \in 1 .. n : st[i].vertex = st[j].vertex => i = j
  BY <1>1 DEF StackOK, n
<1>5. StackOK(q, G, V)
  <2>1. \A i \in 1 .. n - 1 - 1 : <<q[i].vertex, q[i + 1].vertex>> \in G
    <3> SUFFICES ASSUME NEW i \in 1 .. n - 1 - 1 PROVE <<q[i].vertex, q[i + 1].vertex>> \in G
      OBVIOUS
    <3>1. i \in 1 .. n - 1 /\ i + 1 \in 1 .. n - 1
      BY <1>0
    <3>2. <<st[i].vertex, st[i + 1].vertex>> \in G
      BY <3>1 DEF StackOK, n
    <3> QED BY <1>2, <3>1, <3>2
  <2>2. \A i \in DOMAIN st : \A w \in st[i].todo : <<st[i].vertex, w>> \in G
    BY DEF StackOK
  <2>3. \A i \in DOMAIN q : \A w \in q[i].todo : <<q[i].vertex, w>> \in G
    BY <1>1, <1>2, <1>3, <2>2
  <2>4. \A i, j \in DOMAIN q : q[i].vertex = q[j].vertex => i = j
    BY <1>2, <1>3, <1>4
  <2> QED BY <1>2, <2>1, <2>3, <2>4 DEF StackOK, R, n
<1>6. ASSUME NEW w, <<v, w>> \in G PROVE w \in F
  <2>1. w \in st[n].todo \/ w \in F \/ (n < n /\ w = st[n + 1].vertex)
    BY <1>1, <1>3, <1>6 DEF TodoOK, v, n
  <2> QED BY <1>1, <2>1
<1>7. TodoOK(q, G, F \cup {v})
  <2> SUFFICES ASSUME NEW i \in 1 .. n - 1, NEW w, <<q[i].vertex, w>> \in G
               PROVE  w \in q[i].todo \/ w \in F \cup {v} \/ (i < n - 1 /\ w = q[i + 1].vertex)
    BY <1>2 DEF TodoOK
  <2>0. i + 1 # n => i + 1 \in 1 .. n - 1 /\ i < n - 1
    BY <1>0
  <2>1. w \in st[i].todo \/ w \in F \/ (i < n /\ w = st[i + 1].vertex)
    BY <1>1, <1>2, <1>3 DEF TodoOK, n
  <2>2. CASE w = st[i + 1].vertex /\ i + 1 = n
    BY <2>2 DEF v
  <2>3. CASE w = st[i + 1].vertex /\ i + 1 # n
    <3>1. i + 1 \in 1 .. n - 1 /\ i < n - 1
      BY <2>0, <2>3
    <3> QED BY <1>2, <2>3, <3>1
  <2> QED BY <1>2, <2>1, <2>2, <2>3
<1>8. LeftOK(G, F \cup {v})
  <2>1. \A u \in F : \A w : <<u, w>> \in G => w \in F
    BY DEF LeftOK
  <2>2. \A u \in F \cup {v} : \A w : <<u, w>> \in G => w \in F
    BY <1>6, <2>1
  <2>3. ASSUME NEW s \in SUBSET (F \cup {v}), s # {}, \A u \in s : \E w \in s : <<u, w>> \in G
        PROVE  FALSE
    <3> DEFINE r == s \cap F
    <3>1. \A u \in s : \E w \in r : <<u, w>> \in G
      BY <2>2, <2>3
    <3>2. r # {} /\ r \in SUBSET F
      BY <2>3, <3>1
    <3>3. \A u \in r : \E w \in r : <<u, w>> \in G
      BY <3>1
    <3> HIDE DEF r
    <3> QED BY <3>2, <3>3 DEF LeftOK, CyclicIn
  <2> QED BY <2>2, <2>3 DEF LeftOK, CyclicIn
<1>9. {q[i].vertex : i \in DOMAIN q} = {st[i].vertex : i \in DOMAIN st} \ {v}
  <2>1. \A i \in 1 .. n - 1 : st[i].vertex # v
    BY <1>3, <1>4 DEF v
  <2>2. {q[i].vertex : i \in DOMAIN q} = {st[i].vertex : i \in 1 .. n - 1}
    BY <1>2
  <2>3. \A i \in 1 .. n : i = n \/ i \in 1 .. n - 1
    BY <1>0
  <2>4. {st[i].vertex : i \in 1 .. n} \ {v} \subseteq {st[i].vertex : i \in 1 .. n - 1}
    BY <2>3 DEF v
  <2>5. {st[i].vertex : i \in 1 .. n - 1} \subseteq {st[i].vertex : i \in 1 .. n} \ {v}
    BY <1>3, <2>1
  <2> QED BY <1>1, <2>2, <2>4, <2>5
<1>10. v \in {st[i].vertex : i \in DOMAIN st}
  BY <1>1, <1>3 DEF v
<1> QED BY <1>5, <1>7, <1>8, <1>9, <1>10 DEF q, v, n

\* The top of the stack tries a vertex that has been left.
LEMMA StackSkipped ==
    ASSUME NEW V, NEW G \in SUBSET (V \X V), NEW F, NEW st, st # <<>>,
           StackOK(st, G, V), TodoOK(st, G, F), NEW v \in F,
           NEW q, Takes(q, st, v, V)
    PROVE  StackOK(q, G, V) /\ TodoOK(q, G, F) /\ Verts(q) = Verts(st)
<1>a. /\ q \in Seq([vertex : V, todo : SUBSET V]) /\ Len(q) = Len(st)
      /\ \A i \in DOMAIN st : q[i].vertex = st[i].vertex
      /\ \A i \in 1 .. Len(st) - 1 : q[i].todo = st[i].todo
      /\ q[Len(st)].todo = st[Len(st)].todo \ {v}
  BY DEF Takes
<1> DEFINE R == [vertex : V, todo : SUBSET V]
           n == Len(st)
<1>1. st \in Seq(R) /\ n \in Nat \ {0} /\ DOMAIN st = 1 .. n /\ DOMAIN q = 1 .. n
  BY <1>a DEF StackOK
<1>2. \A i \in 1 .. n : i = n \/ i \in 1 .. n - 1
  <2>1. n \in Nat
    BY <1>1
  <2> HIDE DEF n
  <2> QED BY <2>1
<1> USE <1>a DEF Verts
<1>3. \A i \in 1 .. n : q[i].vertex = st[i].vertex
  BY <1>1
<1>4. \A i \in 1 .. n : q[i].todo \subseteq st[i].todo /\ st[i].todo \subseteq q[i].todo \cup {v}
  <2> SUFFICES ASSUME NEW i \in 1 .. n
               PROVE  q[i].todo \subseteq st[i].todo /\ st[i].todo \subseteq q[i].todo \cup {v}
    OBVIOUS
  <2>1. CASE i = n
    BY <2>1
  <2>2. CASE i \in 1 .. n - 1
    BY <2>2
  <2> QED BY <1>2, <2>1, <2>2
<1> HIDE DEF n, R
<1>5. StackOK(q, G, V)
  <2>1. \A i, j \in DOMAIN q : q[i].vertex = q[j].vertex => i = j
    BY <1>1, <1>3 DEF StackOK
  <2>2. \A i \in 1 .. n - 1 : <<q[i].vertex, q[i + 1].vertex>> \in G
    <3> SUFFICES ASSUME NEW i \in 1 .. n - 1 PROVE <<q[i].vertex, q[i + 1].vertex>> \in G
      OBVIOUS
    <3>1. i \in 1 .. n /\ i + 1 \in 1 .. n
      BY <1>1
    <3>2. <<st[i].vertex, st[i + 1].vertex>> \in G
      BY DEF StackOK, n
    <3> QED BY <1>3, <3>1, <3>2
  <2>3. \A i \in DOMAIN q : \A w \in q[i].todo : <<q[i].vertex, w>> \in G
    BY <1>1, <1>3, <1>4 DEF StackOK
  <2> QED BY <2>1, <2>2, <2>3 DEF StackOK, n
<1>6. TodoOK(q, G, F)
  <2> SUFFICES ASSUME NEW i \in 1 .. n, NEW w, <<q[i].vertex, w>> \in G
               PROVE  w \in q[i].todo \/ w \in F \/ (i < n /\ w = q[i + 1].vertex)
    BY <1>1 DEF TodoOK, n
  <2>1. w \in st[i].todo \/ w \in F \/ (i < n /\ w = st[i + 1].vertex)
    BY <1>1, <1>3 DEF TodoOK, n
  <2>2. i < n => i + 1 \in 1 .. n
    BY <1>1
  <2> QED BY <1>3, <1>4, <2>1, <2>2
<1>7. {q[i].vertex : i \in DOMAIN q} = {st[i].vertex : i \in DOMAIN st}
  BY <1>1, <1>3
<1> QED BY <1>5, <1>6, <1>7

\* The top of the stack leads to a vertex of the stack: there is a cycle.
LEMMA CycleOnStack ==
    ASSUME NEW V, NEW G, NEW st, st # <<>>, StackOK(st, G, V),
           NEW k \in DOMAIN st, st[k].vertex \in st[Len(st)].todo
    PROVE  Cyclic(G)
<1> DEFINE n == Len(st)
           s == {st[i].vertex : i \in k .. n}
<1>1. n \in Nat /\ DOMAIN st = 1 .. n /\ k \in 1 .. n
  BY DEF StackOK
<1>2. ASSUME NEW i \in k .. n PROVE \E w \in s : <<st[i].vertex, w>> \in G
  <2>1. CASE i = n
    <3>1. i \in DOMAIN st /\ k \in k .. n
      BY <1>1, <2>1
    <3>2. <<st[i].vertex, st[k].vertex>> \in G
      BY <2>1, <3>1 DEF StackOK
    <3> QED BY <3>1, <3>2
  <2>2. CASE i # n
    <3>1. i \in 1 .. n - 1 /\ i + 1 \in k .. n
      BY <1>1, <2>2
    <3>2. <<st[i].vertex, st[i + 1].vertex>> \in G
      BY <3>1 DEF StackOK
    <3> QED BY <3>1, <3>2
  <2> QED BY <2>1, <2>2
<1>3. \A v \in s : \E w \in s : <<v, w>> \in G
  BY <1>2
<1>4. s # {}
  <2>1. k \in k .. n
    BY <1>1
  <2> QED BY <2>1
<1> HIDE DEF s
<1>5. s \in SUBSET {e[1] : e \in G}
  <2> SUFFICES ASSUME NEW v \in s PROVE v \in {e[1] : e \in G}
    OBVIOUS
  <2>1. PICK w \in s : <<v, w>> \in G
    BY <1>3
  <2>2. <<v, w>>[1] = v
    OBVIOUS
  <2> QED BY <2>1, <2>2
<1> QED BY <1>3, <1>4, <1>5 DEF Cyclic

\* Everything has been left: there is no cycle.
LEMMA NoCycle ==
    ASSUME NEW V, NEW G \in SUBSET (V \X V), NEW F, V \subseteq F, LeftOK(G, F),
           NEW H \in SUBSET G
    PROVE  ~ Cyclic(H)
<1> SUFFICES ASSUME NEW s \in SUBSET {e[1] : e \in H}, s # {},
                    \A v \in s : \E w \in s : <<v, w>> \in H
             PROVE  FALSE
  BY DEF Cyclic
<1>1. s \in SUBSET F
  <2>1. \A e \in G : e[1] \in V
    OBVIOUS
  <2> QED BY <2>1
<1>2. \A v \in s : \E w \in s : <<v, w>> \in G
  OBVIOUS
<1> QED BY <1>1, <1>2 DEF LeftOK, CyclicIn
-----------------------------------------------------------------------------
(***************************************************************************)
(* The routing table at every point of the configuration.                  *)
(***************************************************************************)
Entries ==
    [cost : Nat, next : nw.nodes \cup {Null},
     buffer : OutBuffers(nw) \cup InBuffers(nw) \cup {NoBuffer}]
NoEntry == [cost |-> 0, next |-> Null, buffer |-> NoBuffer]

\* A node has no route to itself.
TableOK(t) ==
    /\ t \in [nw.nodes -> [nw.nodes -> Entries]]
    /\ \A i \in nw.nodes : t[i][i] = NoEntry

\* What the configuration says about the nodes.
LEMMA NodeFacts ==
    ASSUME nw \in Nets
    PROVE  /\ nw.nodes = 1 .. Dimension(nw) /\ Dimension(nw) \in Nat \ {0}
           /\ Null \notin nw.nodes /\ nw.nodes \subseteq Nat /\ nw.ends \subseteq nw.nodes
           /\ nw.conns \in Seq([link : BOOLEAN, src : Seq(nw.nodes), dst : Seq(nw.nodes)])
           /\ nw.steps \in Seq([from : nw.nodes, to : nw.nodes, next : nw.nodes, vc : Nat])
<1>1. /\ nw.nodes = 1 .. Dimension(nw) /\ Dimension(nw) \in Nat \ {0}
      /\ nw.ends \subseteq nw.nodes
      /\ nw.conns \in Seq([link : BOOLEAN, src : Seq(nw.nodes), dst : Seq(nw.nodes)])
      /\ nw.steps \in Seq([from : nw.nodes, to : nw.nodes, next : nw.nodes, vc : Nat])
  BY NetAssumption
<1> QED BY <1>1 DEF Null

\* A connection leads to nodes of the network.
LEMMA LeadsToNode ==
    ASSUME nw \in Nets, NEW b \in OutBuffers(nw), NEW j, Leads(nw, b, j)
    PROVE  j \in nw.nodes
<1> DEFINE R == [link : BOOLEAN, src : Seq(nw.nodes), dst : Seq(nw.nodes)]
           c == Conn(nw, b)
<1>1. nw.conns \in Seq(R) /\ b[2] \in DOMAIN nw.conns
  BY NodeFacts, BufferShape
<1>2. c \in R
  <2>1. nw.conns[b[2]] \in R
    <3> HIDE DEF R
    <3> QED BY <1>1
  <2> QED BY <2>1 DEF Conn
<1>3. c.dst \in Seq(nw.nodes) /\ j \in Range(c.dst)
  BY <1>2 DEF Leads
<1> QED BY <1>3 DEF Range

Replaces(u, t, i, j, e) == u = [t EXCEPT ![i][j] = e]

\* One entry of the table is replaced.
LEMMA NewEntry ==
    ASSUME nw \in Nets, NEW t, TableOK(t), NEW i, NEW j, NEW e,
           i \in nw.nodes /\ j \in nw.nodes => e \in Entries /\ (i = j => e = NoEntry),
           NEW u, Replaces(u, t, i, j, e)
    PROVE  /\ TableOK(u)
           /\ \A a, c \in nw.nodes : u[a][c] = IF a = i /\ c = j THEN e ELSE t[a][c]
<1>0. u = [t EXCEPT ![i][j] = e]
  BY DEF Replaces
<1>1. t \in [nw.nodes -> [nw.nodes -> Entries]] /\ \A a \in nw.nodes : t[a][a] = NoEntry
  BY DEF TableOK
<1>2. \A a \in nw.nodes : u[a] = IF a = i THEN [t[i] EXCEPT ![j] = e] ELSE t[a]
  BY <1>0, <1>1
<1>3. \A a \in nw.nodes : t[a] \in [nw.nodes -> Entries]
  BY <1>1
<1>4. DOMAIN u = nw.nodes /\ u = [a \in nw.nodes |-> u[a]]
  BY <1>0, <1>1
<1>5. \A a, c \in nw.nodes : u[a][c] = IF a = i /\ c = j THEN e ELSE t[a][c]
  BY <1>2, <1>3
<1>6. \A a \in nw.nodes : u[a] \in [nw.nodes -> Entries]
  <2> SUFFICES ASSUME NEW a \in nw.nodes PROVE u[a] \in [nw.nodes -> Entries]
    OBVIOUS
  <2>1. CASE a # i
    BY <1>2, <1>3, <2>1
  <2>2. CASE a = i
    <3>1. t[i] \in [nw.nodes -> Entries] /\ (j \in nw.nodes => e \in Entries)
      BY <1>3, <2>2
    <3>2. [t[i] EXCEPT ![j] = e] \in [nw.nodes -> Entries]
      BY <3>1
    <3> QED BY <1>2, <2>2, <3>2
  <2> QED BY <2>1, <2>2
<1>7. u \in [nw.nodes -> [nw.nodes -> Entries]]
  BY <1>4, <1>6
<1>8. \A a \in nw.nodes : u[a][a] = NoEntry
  BY <1>1, <1>5
<1> QED BY <1>5, <1>7, <1>8 DEF TableOK

\* The type of an entry.
LEMMA EntryIs ==
    ASSUME NEW t, TableOK(t), NEW i \in nw.nodes, NEW j \in nw.nodes
    PROVE  /\ t[i][j] \in Entries
           /\ t[i][j].cost \in Nat /\ t[i][j].next \in nw.nodes \cup {Null}
           /\ t[i][j].buffer \in OutBuffers(nw) \cup InBuffers(nw) \cup {NoBuffer}
           /\ t[i][j] = [cost |-> t[i][j].cost, next |-> t[i][j].next, buffer |-> t[i][j].buffer]
<1>1. t[i][j] \in Entries
  BY DEF TableOK
<1> QED BY <1>1 DEF Entries

\* The table that Initialize makes has its type.
LEMMA InitialTableOK ==
    ASSUME nw \in Nets
    PROVE  LET t == InitialTable(nw)
           IN  /\ TableOK(t)
               /\ \A i, j \in nw.nodes : t[i][j] = OneHop(nw, i, j)
<1> DEFINE t == InitialTable(nw)
<1>1. t = [i \in nw.nodes |-> [j \in nw.nodes |-> OneHop(nw, i, j)]]
  BY DEF InitialTable
<1>2. ASSUME NEW i \in nw.nodes, NEW j \in nw.nodes
      PROVE  OneHop(nw, i, j) \in Entries /\ (i = j => OneHop(nw, i, j) = NoEntry)
  <2> DEFINE via == {b \in OutBuffersOf(nw, i) : Leads(nw, b, j)}
  <2>1. via \in SUBSET OutBuffers(nw)
    BY DEF OutBuffersOf
  <2>2. via # {} => LastBuffer(via) \in OutBuffers(nw)
    <3> HIDE DEF via
    <3> QED BY <2>1, LastOutBuffer
  <2>3. OneHop(nw, i, j) = IF i # j /\ via # {}
            THEN [cost |-> 1, next |-> j, buffer |-> LastBuffer(via)]
            ELSE [cost |-> IF i = j THEN 0 ELSE Dimension(nw),
                  next |-> Null, buffer |-> NoBuffer]
    BY DEF OneHop
  <2> HIDE DEF via
  <2>4. Dimension(nw) \in Nat
    BY NodeFacts
  <2> QED BY <2>2, <2>3, <2>4 DEF Entries, NoEntry
<1>3. t \in [nw.nodes -> [nw.nodes -> Entries]] /\ \A i, j \in nw.nodes : t[i][j] = OneHop(nw, i, j)
  BY <1>1, <1>2
<1> QED BY <1>2, <1>3 DEF TableOK

\* A round of Floyd-Warshall keeps the type of the table.
LEMMA RelaxedOK ==
    ASSUME nw \in Nets, NEW t, TableOK(t), NEW k \in nw.nodes
    PROVE  LET u == RelaxAll(nw, t, k)
           IN  /\ TableOK(u)
               /\ \A i, j \in nw.nodes : u[i][j] = Relaxed(t, i, j, k)
<1> DEFINE u == RelaxAll(nw, t, k)
<1>1. u = [i \in nw.nodes |-> [j \in nw.nodes |-> Relaxed(t, i, j, k)]]
  BY DEF RelaxAll
<1>2. ASSUME NEW i \in nw.nodes, NEW j \in nw.nodes
      PROVE  Relaxed(t, i, j, k) \in Entries /\ (i = j => Relaxed(t, i, j, k) = NoEntry)
  <2>1. t[i][k].cost \in Nat /\ t[k][j].cost \in Nat
    BY EntryIs
  <2>2. PICK c : c = t[i][k].cost + t[k][j].cost
    OBVIOUS
  <2>3. c \in Nat
    BY <2>1, <2>2
  <2>4. Relaxed(t, i, j, k) = IF t[i][j].cost > c
            THEN [cost |-> c, next |-> k, buffer |-> t[i][j].buffer] ELSE t[i][j]
    BY <2>2 DEF Relaxed
  <2>5. /\ t[i][j] \in Entries
        /\ t[i][j].buffer \in OutBuffers(nw) \cup InBuffers(nw) \cup {NoBuffer}
    BY EntryIs
  <2>6. Relaxed(t, i, j, k) \in Entries
    BY <2>3, <2>4, <2>5 DEF Entries
  <2>7. ASSUME i = j PROVE Relaxed(t, i, j, k) = NoEntry
    <3>1. t[i][j] = NoEntry /\ t[i][j].cost = 0
      BY <2>7 DEF TableOK, NoEntry
    <3> QED BY <2>3, <2>4, <3>1
  <2> QED BY <2>6, <2>7
<1>3. u \in [nw.nodes -> [nw.nodes -> Entries]] /\ \A i, j \in nw.nodes : u[i][j] = Relaxed(t, i, j, k)
  BY <1>1, <1>2
<1> QED BY <1>2, <1>3 DEF TableOK

\* The second part of Floyd-Warshall changes one entry, to a neighbour's buffer.
Via(i, j) == {b \in OutBuffersOf(nw, i) : Leads(nw, b, j)}

\* The buffers of node i over which node j is one hop away.
LEMMA ViaIs ==
    ASSUME nw \in Nets, NEW i, NEW j, Via(i, j) # {}
    PROVE  /\ FirstBuffer(Via(i, j)) \in Via(i, j) /\ FirstBuffer(Via(i, j)) \in OutBuffers(nw)
           /\ j \in nw.nodes
           /\ \A b \in Via(i, j) : /\ b \in OutBuffers(nw) /\ BufferNode(nw, b) = i
                                   /\ Leads(nw, b, j)
<1>1. Via(i, j) \in SUBSET OutBuffers(nw)
  BY DEF Via, OutBuffersOf
<1>2. FirstBuffer(Via(i, j)) \in Via(i, j)
  BY <1>1, BufferChoice
<1>3. \A b \in Via(i, j) : b \in OutBuffers(nw) /\ BufferNode(nw, b) = i /\ Leads(nw, b, j)
  BY DEF Via, OutBuffersOf
<1> QED BY <1>2, <1>3, LeadsToNode

\* Setting the next hop of one entry leaves all others alone.
LEMMA HopOK ==
    ASSUME nw \in Nets, NEW t, TableOK(t), NEW i \in nw.nodes, NEW j \in nw.nodes
    PROVE  LET u == SetHop(nw, t, i, j)
               h == NextHop(nw, t, i, j)
               e == t[i][j]
           IN  /\ TableOK(u)
               /\ \A a, c \in nw.nodes : a # i \/ c # j => u[a][c] = t[a][c]
               /\ e.next = Null =>
                    u[i][j] = [cost |-> e.cost, next |-> Null, buffer |-> NoBuffer]
               /\ e.next # Null /\ Via(i, h) = {} => u[i][j] = e
               /\ e.next # Null /\ Via(i, h) # {} =>
                    u[i][j] = [cost |-> e.cost, next |-> h, buffer |-> FirstBuffer(Via(i, h))]
<1> DEFINE e == t[i][j]
           h == NextHop(nw, t, i, j)
           f == [cost |-> e.cost, next |-> Null, buffer |-> NoBuffer]
           g == [cost |-> e.cost, next |-> h, buffer |-> FirstBuffer(Via(i, h))]
           u == SetHop(nw, t, i, j)
<1>1. u = IF e.next = Null THEN [t EXCEPT ![i][j].buffer = NoBuffer]
          ELSE IF Via(i, h) = {} THEN t
          ELSE [t EXCEPT ![i][j].next = h, ![i][j].buffer = FirstBuffer(Via(i, h))]
  BY DEF SetHop, Via
<1>2. /\ e \in Entries /\ e.cost \in Nat
      /\ e = [cost |-> e.cost, next |-> e.next, buffer |-> e.buffer]
  BY EntryIs
<1>3. i = j => e = NoEntry
  BY DEF TableOK
<1>4. Via(i, h) # {} => h \in nw.nodes /\ FirstBuffer(Via(i, h)) \in OutBuffers(nw)
  BY ViaIs
<1> HIDE DEF h
<1>5. CASE e.next = Null
  <2>1. [e EXCEPT !.buffer = NoBuffer] = f
    BY <1>2, <1>5
  <2>2. u = [t EXCEPT ![i][j] = [e EXCEPT !.buffer = NoBuffer]]
    BY <1>1, <1>5
  <2>3. f \in Entries /\ (i = j => f = NoEntry)
    BY <1>2, <1>3 DEF Entries, NoEntry
  <2>4. Replaces(u, t, i, j, f)
    BY <2>1, <2>2 DEF Replaces
  <2> HIDE DEF f, e, u
  <2>5. TableOK(u) /\ \A a, c \in nw.nodes : u[a][c] = IF a = i /\ c = j THEN f ELSE t[a][c]
    BY <2>3, <2>4, NewEntry
  <2> QED BY <1>5, <2>5 DEF f, e, u, h
<1>6. CASE e.next # Null /\ Via(i, h) = {}
  <2>1. u = t
    BY <1>1, <1>6
  <2> QED BY <1>6, <2>1 DEF h
<1>7. CASE e.next # Null /\ Via(i, h) # {}
  <2>1. [e EXCEPT !.next = h, !.buffer = FirstBuffer(Via(i, h))] = g
    <3>1. PICK c, x, b : e = [cost |-> c, next |-> x, buffer |-> b]
      BY <1>2
    <3>2. g = [cost |-> c, next |-> h, buffer |-> FirstBuffer(Via(i, h))]
      BY <3>1
    <3>3. PICK d : d = FirstBuffer(Via(i, h))
      OBVIOUS
    <3>4. [[cost |-> c, next |-> x, buffer |-> b] EXCEPT !.next = h]
            = [cost |-> c, next |-> h, buffer |-> b]
      OBVIOUS
    <3>5. [[cost |-> c, next |-> h, buffer |-> b] EXCEPT !.buffer = d]
            = [cost |-> c, next |-> h, buffer |-> d]
      OBVIOUS
    <3> HIDE DEF e, g
    <3>6. [e EXCEPT !.next = h, !.buffer = d] = [[e EXCEPT !.next = h] EXCEPT !.buffer = d]
      OBVIOUS
    <3> QED BY <3>1, <3>2, <3>3, <3>4, <3>5, <3>6
  <2>2. u = [t EXCEPT ![i][j] = [e EXCEPT !.next = h, !.buffer = FirstBuffer(Via(i, h))]]
    BY <1>1, <1>7
  <2>3. g \in Entries
    BY <1>2, <1>4, <1>7 DEF Entries
  <2>4. Replaces(u, t, i, j, g)
    BY <2>1, <2>2 DEF Replaces
  <2>5. i # j
    BY <1>3, <1>7 DEF NoEntry
  <2> HIDE DEF f, g, e, u
  <2>6. TableOK(u) /\ \A a, c \in nw.nodes : u[a][c] = IF a = i /\ c = j THEN g ELSE t[a][c]
    <3>1. PICK d, v : d = g /\ v = u
      OBVIOUS
    <3>2. d \in Entries /\ Replaces(v, t, i, j, d)
      BY <2>3, <2>4, <3>1
    <3>3. TableOK(v) /\ \A a, c \in nw.nodes : v[a][c] = IF a = i /\ c = j THEN d ELSE t[a][c]
      <4>1. d \in Entries /\ (i = j => d = NoEntry)
        BY <2>5, <3>2
      <4>2. Replaces(v, t, i, j, d)
        BY <3>2
      <4> QED BY <4>1, <4>2, NewEntry
    <3> QED BY <3>1, <3>3
  <2> QED BY <1>7, <2>6 DEF g, e, u, h
<1> QED BY <1>5, <1>6, <1>7
-----------------------------------------------------------------------------
(***************************************************************************)
(* Walks from node to node.                                                *)
(***************************************************************************)
Hop(i, j) == i # j /\ Via(i, j) # {}
IsWalk(p, x) ==
    p \in [0 .. x -> nw.nodes] /\ \A y \in 0 .. x - 1 : Hop(p[y], p[y + 1])
WalkOf(i, j, x) == \E p : IsWalk(p, x) /\ p[0] = i /\ p[x] = j

\* The nodes between the first and the last one are at most k.
WalkWithin(i, j, x, k) ==
    \E p : IsWalk(p, x) /\ p[0] = i /\ p[x] = j /\ \A y \in 1 .. x - 1 : p[y] <= k

\* A walk of length zero stays where it is.
LEMMA NoWalkIs ==
    ASSUME NEW i, NEW j
    PROVE  /\ i \in nw.nodes => WalkOf(i, i, 0)
           /\ WalkOf(i, j, 0) => i = j
<1>1. ASSUME i \in nw.nodes PROVE WalkOf(i, i, 0)
  <2> DEFINE p == [y \in 0 .. 0 |-> i]
  <2>1. p \in [0 .. 0 -> nw.nodes] /\ p[0] = i /\ 0 .. 0 - 1 = {}
    BY <1>1
  <2> HIDE DEF p
  <2> QED BY <2>1 DEF WalkOf, IsWalk
<1> QED BY <1>1 DEF WalkOf

\* A hop is a walk of length one.
LEMMA OneHopWalk ==
    ASSUME NEW i \in nw.nodes, NEW j \in nw.nodes
    PROVE  Hop(i, j) <=> WalkOf(i, j, 1)
<1>1. ASSUME Hop(i, j) PROVE WalkOf(i, j, 1)
  <2> DEFINE p == [y \in 0 .. 1 |-> IF y = 0 THEN i ELSE j]
  <2>1. p \in [0 .. 1 -> nw.nodes] /\ p[0] = i /\ p[1] = j /\ \A y \in 0 .. 1 - 1 : y = 0 /\ y + 1 = 1
    OBVIOUS
  <2> HIDE DEF p
  <2> QED BY <1>1, <2>1 DEF WalkOf, IsWalk
<1>2. ASSUME WalkOf(i, j, 1) PROVE Hop(i, j)
  <2>1. PICK p : IsWalk(p, 1) /\ p[0] = i /\ p[1] = j
    BY <1>2 DEF WalkOf
  <2>2. 0 \in 0 .. 1 - 1 /\ 0 + 1 = 1
    OBVIOUS
  <2> QED BY <2>1, <2>2 DEF IsWalk
<1> QED BY <1>1, <1>2

\* Walks can be joined.
LEMMA WalkJoin ==
    ASSUME NEW i, NEW j, NEW k, NEW a \in Nat, NEW b \in Nat,
           WalkOf(i, k, a), WalkOf(k, j, b)
    PROVE  WalkOf(i, j, a + b)
<1>1. PICK p : IsWalk(p, a) /\ p[0] = i /\ p[a] = k
  BY DEF WalkOf
<1>2. PICK q : IsWalk(q, b) /\ q[0] = k /\ q[b] = j
  BY DEF WalkOf
<1> DEFINE r == [y \in 0 .. a + b |-> IF y <= a THEN p[y] ELSE q[y - a]]
<1>3. p \in [0 .. a -> nw.nodes] /\ \A y \in 0 .. a - 1 : Hop(p[y], p[y + 1])
  BY <1>1 DEF IsWalk
<1>4. q \in [0 .. b -> nw.nodes] /\ \A y \in 0 .. b - 1 : Hop(q[y], q[y + 1])
  BY <1>2 DEF IsWalk
<1>5. \A y \in 0 .. a + b : (y <= a => y \in 0 .. a) /\ (~ (y <= a) => y - a \in 0 .. b)
  OBVIOUS
<1>6. r \in [0 .. a + b -> nw.nodes]
  BY <1>3, <1>4, <1>5
<1>7. \A y \in 0 .. a : y \in 0 .. a + b /\ r[y] = p[y]
  OBVIOUS
<1>8. \A y \in 0 .. b : r[a + y] = q[y]
  <2> SUFFICES ASSUME NEW y \in 0 .. b PROVE r[a + y] = q[y]
    OBVIOUS
  <2>1. a + y \in 0 .. a + b /\ (a + y) - a = y
    OBVIOUS
  <2>2. CASE y = 0
    BY <1>1, <1>2, <2>1, <2>2
  <2>3. CASE y # 0
    <3>1. ~ (a + y <= a)
      BY <2>3
    <3> QED BY <2>1, <3>1
  <2> QED BY <2>2, <2>3
<1> HIDE DEF r
<1>9. ASSUME NEW y \in 0 .. a + b - 1
      PROVE  Hop(r[y], r[y + 1])
  <2>1. CASE y < a
    <3>1. y \in 0 .. a - 1 /\ y \in 0 .. a /\ y + 1 \in 0 .. a
      BY <2>1
    <3> QED BY <1>3, <1>7, <3>1
  <2>2. CASE ~ (y < a)
    <3> DEFINE z == y - a
    <3>1. z \in 0 .. b - 1 /\ z \in 0 .. b /\ z + 1 \in 0 .. b /\ y = a + z /\ y + 1 = a + (z + 1)
      BY <2>2
    <3> HIDE DEF z
    <3>2. r[y] = q[z] /\ r[y + 1] = q[z + 1]
      BY <1>8, <3>1
    <3> QED BY <1>4, <3>1, <3>2
  <2> QED BY <2>1, <2>2
<1>10. r[0] = i /\ r[a + b] = j
  <2>1. 0 \in 0 .. a /\ b \in 0 .. b
    OBVIOUS
  <2> QED BY <1>1, <1>2, <1>7, <1>8, <2>1
<1>11. IsWalk(r, a + b)
  BY <1>6, <1>9 DEF IsWalk
<1> QED BY <1>10, <1>11 DEF WalkOf

\* A part of a walk is a walk.
LEMMA WalkPart ==
    ASSUME NEW x \in Nat, NEW p, IsWalk(p, x), NEW a \in 0 .. x, NEW b \in a .. x, NEW k,
           \A y \in a + 1 .. b - 1 : p[y] <= k
    PROVE  WalkWithin(p[a], p[b], b - a, k)
<1> DEFINE q == [y \in 0 .. b - a |-> p[a + y]]
<1>1. p \in [0 .. x -> nw.nodes] /\ \A y \in 0 .. x - 1 : Hop(p[y], p[y + 1])
  BY DEF IsWalk
<1>2. \A y \in 0 .. b - a : a + y \in 0 .. x
  OBVIOUS
<1>3. q \in [0 .. b - a -> nw.nodes]
  BY <1>1, <1>2
<1>4. \A y \in 0 .. b - a : q[y] = p[a + y]
  OBVIOUS
<1>5. 0 \in 0 .. b - a /\ b - a \in 0 .. b - a /\ a + 0 = a /\ a + (b - a) = b
  OBVIOUS
<1> HIDE DEF q
<1>6. ASSUME NEW y \in 0 .. (b - a) - 1
      PROVE  Hop(q[y], q[y + 1])
  <2>1. /\ y \in 0 .. b - a /\ y + 1 \in 0 .. b - a
        /\ a + y \in 0 .. x - 1 /\ (a + y) + 1 = a + (y + 1)
    OBVIOUS
  <2> QED BY <1>1, <1>4, <2>1
<1>7. ASSUME NEW y \in 1 .. (b - a) - 1
      PROVE  q[y] <= k
  <2>1. y \in 0 .. b - a /\ a + y \in a + 1 .. b - 1
    OBVIOUS
  <2> QED BY <1>4, <2>1
<1>8. q[0] = p[a] /\ q[b - a] = p[b]
  BY <1>4, <1>5
<1>9. IsWalk(q, b - a)
  BY <1>3, <1>6 DEF IsWalk
<1> QED BY <1>7, <1>8, <1>9 DEF WalkWithin

\* A walk either avoids the node above k, or goes to it and comes from it.
LEMMA WalkSplit ==
    ASSUME NEW i, NEW j, NEW x \in Nat, NEW k \in Nat, nw \in Nets,
           WalkWithin(i, j, x, k + 1)
    PROVE  \/ WalkWithin(i, j, x, k)
           \/ \E a, b \in Nat : /\ a + b <= x
                                /\ WalkWithin(i, k + 1, a, k) /\ WalkWithin(k + 1, j, b, k)
<1>1. PICK p : IsWalk(p, x) /\ p[0] = i /\ p[x] = j /\ \A y \in 1 .. x - 1 : p[y] <= k + 1
  BY DEF WalkWithin
<1> DEFINE M == {y \in 1 .. x - 1 : p[y] = k + 1}
<1>2. \A y \in 1 .. x - 1 : p[y] \in Nat
  <2>1. p \in [0 .. x -> nw.nodes] /\ nw.nodes \subseteq Nat
    BY <1>1, NodeFacts DEF IsWalk
  <2>2. \A y \in 1 .. x - 1 : y \in 0 .. x
    OBVIOUS
  <2> QED BY <2>1, <2>2
<1>3. CASE M = {}
  <2>1. \A y \in 1 .. x - 1 : p[y] <= k
    <3> SUFFICES ASSUME NEW y \in 1 .. x - 1 PROVE p[y] <= k
      OBVIOUS
    <3>1. p[y] # k + 1 /\ p[y] <= k + 1 /\ p[y] \in Nat
      BY <1>1, <1>2, <1>3
    <3> QED BY <3>1
  <2> QED BY <1>1, <2>1 DEF WalkWithin
<1>4. CASE M # {}
  <2>1. M \in SUBSET Int /\ (\A y \in M : y <= x) /\ x \in Int
    OBVIOUS
  <2>2. PICK b \in M : \A y \in M : y <= b
    <3> HIDE DEF M
    <3> QED BY <1>4, <2>1, GreatestExists
  <2>3. PICK a \in M : \A y \in M : a <= y
    <3> DEFINE f == [y \in M |-> y]
    <3>1. f \in [M -> Nat] /\ \A y \in M : f[y] = y
      OBVIOUS
    <3> HIDE DEF f, M
    <3>2. \E y \in M : \A z \in M : f[y] <= f[z]
      BY <1>4, <3>1, LeastExists
    <3> QED BY <3>1, <3>2
  <2>4. a \in 1 .. x - 1 /\ b \in 1 .. x - 1 /\ a <= b /\ p[a] = k + 1 /\ p[b] = k + 1
    BY <2>2
  <2>5. \A y \in 1 .. x - 1 : y \notin M => p[y] <= k
    <3> SUFFICES ASSUME NEW y \in 1 .. x - 1, y \notin M PROVE p[y] <= k
      OBVIOUS
    <3>1. p[y] # k + 1 /\ p[y] <= k + 1 /\ p[y] \in Nat
      BY <1>1, <1>2
    <3> QED BY <3>1
  <2>6. \A y \in 0 + 1 .. a - 1 : y \in 1 .. x - 1 /\ y \notin M
    BY <2>3, <2>4
  <2>7. \A y \in b + 1 .. x - 1 : y \in 1 .. x - 1 /\ y \notin M
    BY <2>2, <2>4
  <2> HIDE DEF M
  <2>8. WalkWithin(p[0], p[a], a - 0, k)
    <3>1. 0 \in 0 .. x /\ a \in 0 .. x
      BY <2>4
    <3>2. \A y \in 0 + 1 .. a - 1 : p[y] <= k
      BY <2>5, <2>6
    <3> QED BY <1>1, <3>1, <3>2, WalkPart
  <2>9. WalkWithin(p[b], p[x], x - b, k)
    <3>1. b \in 0 .. x /\ x \in b .. x
      BY <2>4
    <3>2. \A y \in b + 1 .. x - 1 : p[y] <= k
      BY <2>5, <2>7
    <3> QED BY <1>1, <3>1, <3>2, WalkPart
  <2>10. a - 0 \in Nat /\ x - b \in Nat /\ (a - 0) + (x - b) <= x
    BY <2>4
  <2> QED BY <1>1, <2>4, <2>8, <2>9, <2>10
<1> QED BY <1>3, <1>4

\* A walk that visits as many nodes as there are visits one twice, so there is a
\* shorter one.
LEMMA WalkShorter ==
    ASSUME nw \in Nets, NEW i, NEW j, NEW x \in Nat, x >= Dimension(nw), WalkOf(i, j, x)
    PROVE  \E y \in 0 .. x - 1 : WalkOf(i, j, y)
<1>1. PICK p : IsWalk(p, x) /\ p[0] = i /\ p[x] = j
  BY DEF WalkOf
<1>2. /\ p \in [0 .. x -> nw.nodes] /\ nw.nodes = 1 .. Dimension(nw) /\ nw.nodes \subseteq Nat
      /\ Dimension(nw) \in Nat \ {0}
  BY <1>1, NodeFacts DEF IsWalk
<1>3. \E a, b \in 0 .. x : a # b /\ p[a] = p[b]
  <2>1. IsFiniteSet(0 .. x) /\ Cardinality(0 .. x) = x + 1
    <3>1. x - 0 + 1 = x + 1
      OBVIOUS
    <3> QED BY <3>1, FS_Interval
  <2>2. IsFiniteSet(nw.nodes) /\ Cardinality(nw.nodes) = Dimension(nw)
    <3>1. IsFiniteSet(1 .. Dimension(nw))
      BY <1>2, FS_Interval
    <3> QED BY <1>2, <3>1 DEF Dimension
  <2>3. Cardinality(nw.nodes) < Cardinality(0 .. x)
    BY <1>2, <2>1, <2>2
  <2> QED BY <1>2, <2>1, <2>2, <2>3, FS_PigeonHole
<1>4. PICK a, b \in 0 .. x : a < b /\ p[a] = p[b]
  <2>1. PICK a, b \in 0 .. x : a # b /\ p[a] = p[b]
    BY <1>3
  <2>2. a < b \/ b < a
    BY <2>1
  <2> QED BY <2>1, <2>2
<1>5. \A y \in 0 .. x : p[y] <= Dimension(nw)
  <2>1. \A y \in 0 .. x : p[y] \in 1 .. Dimension(nw)
    BY <1>2
  <2> QED BY <1>2, <2>1
<1>6. ASSUME NEW c \in 0 .. x, NEW d \in c .. x PROVE WalkOf(p[c], p[d], d - c)
  <2>1. \A y \in c + 1 .. d - 1 : y \in 0 .. x
    OBVIOUS
  <2>2. \A y \in c + 1 .. d - 1 : p[y] <= Dimension(nw)
    BY <1>5, <2>1
  <2>3. WalkWithin(p[c], p[d], d - c, Dimension(nw))
    BY <1>1, <2>2, WalkPart
  <2> QED BY <2>3 DEF WalkWithin, WalkOf
<1>7. WalkOf(p[0], p[a], a - 0)
  <2>1. 0 \in 0 .. x /\ a \in 0 .. x
    OBVIOUS
  <2> QED BY <1>6, <2>1
<1>8. WalkOf(p[b], p[x], x - b)
  <2>1. b \in 0 .. x /\ x \in b .. x
    OBVIOUS
  <2> QED BY <1>6, <2>1
<1>9. a - 0 \in Nat /\ x - b \in Nat /\ (a - 0) + (x - b) \in 0 .. x - 1
  BY <1>4
<1>10. WalkOf(i, j, (a - 0) + (x - b))
  BY <1>1, <1>4, <1>7, <1>8, <1>9, WalkJoin
<1> QED BY <1>9, <1>10

\* Reached has the ends of the walks of at most x hops.
LEMMA ReachedIs ==
    ASSUME nw \in Nets, NEW i \in nw.nodes, NEW j, NEW x \in 0 .. Dimension(nw)
    PROVE  j \in Reached(nw, i)[x] <=> \E y \in 0 .. x : WalkOf(i, j, y)
<1> DEFINE D == Dimension(nw)
           Wider(w) == w \cup UNION {Range(Conn(nw, b).dst) :
                            b \in {d \in OutBuffers(nw) : BufferNode(nw, d) \in w}}
           r == Reached(nw, i)
<1>0. D \in Nat /\ nw.nodes = 1 .. D
  BY NodeFacts
<1>1. ASSUME NEW w \in SUBSET nw.nodes
      PROVE  /\ Wider(w) \in SUBSET nw.nodes
             /\ \A m : m \in Wider(w) <=> m \in w \/ \E k \in w : Hop(k, m)
  <2> DEFINE B == {d \in OutBuffers(nw) : BufferNode(nw, d) \in w}
  <2>1. \A m : m \in Wider(w) <=> m \in w \/ \E b \in B : m \in Range(Conn(nw, b).dst)
    OBVIOUS
  <2>2. \A b \in B : \A m : m \in Range(Conn(nw, b).dst) <=> Leads(nw, b, m)
    BY DEF Leads
  <2>3. ASSUME NEW b \in B, NEW m, Leads(nw, b, m)
        PROVE  m \in nw.nodes /\ (m \in w \/ \E k \in w : Hop(k, m))
    <3>1. m \in nw.nodes
      BY <2>3, LeadsToNode
    <3>2. b \in Via(BufferNode(nw, b), m)
      BY <2>3 DEF Via, OutBuffersOf
    <3>3. CASE m = BufferNode(nw, b)
      BY <3>1, <3>3
    <3>4. CASE m # BufferNode(nw, b)
      <4>1. Hop(BufferNode(nw, b), m)
        BY <3>2, <3>4 DEF Hop
      <4> QED BY <3>1, <4>1
    <3> QED BY <3>3, <3>4
  <2>4. ASSUME NEW k \in w, NEW m, Hop(k, m)
        PROVE  \E b \in B : Leads(nw, b, m)
    BY <2>4 DEF Hop, Via, OutBuffersOf
  <2> HIDE DEF B, Wider
  <2>5. \A m : m \in Wider(w) => m \in nw.nodes
    BY <2>1, <2>2, <2>3
  <2>6. ASSUME NEW m PROVE m \in Wider(w) <=> m \in w \/ \E k \in w : Hop(k, m)
    BY <2>1, <2>2, <2>3, <2>4
  <2> QED BY <2>5, <2>6
<1>2. r[0] = {i} /\ (\A y \in 0 .. D : r[y] \in SUBSET nw.nodes)
      /\ \A y \in 1 .. D : r[y] = Wider(r[y - 1])
  <2> DEFINE g == [w \in SUBSET nw.nodes |-> Wider(w)]
             S == SUBSET nw.nodes
  <2>1. g \in [S -> S]
    BY <1>1
  <2>2. PICK t \in [0 .. D -> S] : t[0] = {i} /\ \A y \in 1 .. D : t[y] = g[t[y - 1]]
    <3>1. {i} \in S
      OBVIOUS
    <3>2. D \in Nat
      BY <1>0
    <3> HIDE DEF S, g, D
    <3>3. \E t : Iterated(t, D, S, {i}, g)
      BY <2>1, <3>1, <3>2, Iterates
    <3> QED BY <3>3 DEF Iterated
  <2>3. \A y \in 1 .. D : y - 1 \in 0 .. D
    BY <1>0
  <2>4. \A y \in 1 .. D : t[y] = Wider(t[y - 1])
    BY <2>2, <2>3
  <2> DEFINE E(f) == f = [y \in 0 .. D |-> IF y = 0 THEN {i} ELSE Wider(f[y - 1])]
  <2>5. E(t)
    <3>1. t = [y \in 0 .. D |-> t[y]]
      BY <2>2
    <3>2. \A y \in 0 .. D : t[y] = IF y = 0 THEN {i} ELSE Wider(t[y - 1])
      <4> SUFFICES ASSUME NEW y \in 0 .. D PROVE t[y] = IF y = 0 THEN {i} ELSE Wider(t[y - 1])
        OBVIOUS
      <4>1. y = 0 \/ y \in 1 .. D
        BY <1>0
      <4> HIDE DEF Wider
      <4> QED BY <2>2, <2>4, <4>1
    <3> HIDE DEF Wider
    <3> QED BY <3>1, <3>2
  <2>6. r = CHOOSE f : E(f)
    BY DEF Reached
  <2>7. E(r)
    <3> HIDE DEF E, r
    <3> QED BY <2>5, <2>6
  <2> HIDE DEF r, Wider
  <2>8. r[0] = {i} /\ \A y \in 1 .. D : r[y] = Wider(r[y - 1])
    <3>1. 0 \in 0 .. D /\ \A y \in 1 .. D : y \in 0 .. D /\ y # 0
      BY <1>0
    <3> QED BY <2>7, <3>1
  <2>9. \A y \in 0 .. D : r[y] \in SUBSET nw.nodes
    <3> DEFINE K == {y \in 0 .. D : r[y] \in SUBSET nw.nodes}
    <3>1. 0 \in K
      BY <1>0, <2>8
    <3>2. ASSUME NEW y \in 0 .. D - 1, y \in K PROVE y + 1 \in K
      <4>1. y + 1 \in 1 .. D /\ y + 1 \in 0 .. D /\ (y + 1) - 1 = y
        BY <1>0
      <4>2. r[y + 1] = Wider(r[y])
        BY <2>8, <4>1
      <4> QED BY <1>1, <3>2, <4>1, <4>2
    <3> HIDE DEF K
    <3>3. \A y \in 0 .. D : y \in K
      BY <1>0, <3>1, <3>2, UpTo
    <3> QED BY <3>3 DEF K
  <2> QED BY <2>8, <2>9
<1> HIDE DEF r, Wider, D
<1> DEFINE K == {y \in 0 .. D : \A m : m \in r[y] <=> \E z \in 0 .. y : WalkOf(i, m, z)}
<1>3. 0 \in K
  <2>1. ASSUME NEW m PROVE m \in r[0] <=> \E z \in 0 .. 0 : WalkOf(i, m, z)
    <3>1. \A z \in 0 .. 0 : z = 0
      OBVIOUS
    <3>2. 0 \in 0 .. 0
      OBVIOUS
    <3> QED BY <1>2, <3>1, <3>2, NoWalkIs
  <2> QED BY <1>0, <2>1
<1>4. ASSUME NEW y \in 0 .. D - 1, y \in K
      PROVE  y + 1 \in K
  <2>1. y + 1 \in 1 .. D /\ y + 1 \in 0 .. D /\ (y + 1) - 1 = y /\ y \in 0 .. D
    BY <1>0
  <2>2. \A m : m \in r[y + 1] <=> m \in r[y] \/ \E k \in r[y] : Hop(k, m)
    <3>1. r[y + 1] = Wider(r[y]) /\ r[y] \in SUBSET nw.nodes
      BY <1>2, <2>1
    <3> QED BY <1>1, <3>1
  <2>3. \A m : m \in r[y] <=> \E z \in 0 .. y : WalkOf(i, m, z)
    BY <1>4
  <2>4. \A z \in 0 .. y : z \in 0 .. y + 1 /\ z + 1 \in 0 .. y + 1 /\ z \in Nat /\ 1 \in Nat
    OBVIOUS
  <2>5. ASSUME NEW m, NEW k \in r[y], Hop(k, m)
        PROVE  \E z \in 0 .. y + 1 : WalkOf(i, m, z)
    <3>1. PICK z \in 0 .. y : WalkOf(i, k, z)
      BY <2>3
    <3>2. k \in nw.nodes /\ m \in nw.nodes
      <4>1. k \in nw.nodes
        BY <1>2, <2>1
      <4> QED BY <2>5, <4>1, ViaIs DEF Hop
    <3>3. WalkOf(k, m, 1)
      BY <2>5, <3>2, OneHopWalk
    <3>4. WalkOf(i, m, z + 1)
      BY <2>4, <3>1, <3>3, WalkJoin
    <3> QED BY <2>4, <3>4
  <2>6. ASSUME NEW m, NEW z \in 0 .. y + 1, WalkOf(i, m, z)
        PROVE  m \in r[y] \/ \E k \in r[y] : Hop(k, m)
    <3>1. CASE z \in 0 .. y
      BY <2>3, <2>6, <3>1
    <3>2. CASE z = y + 1
      <4>1. PICK p : IsWalk(p, y + 1) /\ p[0] = i /\ p[y + 1] = m
        BY <2>6, <3>2 DEF WalkOf
      <4>2. Hop(p[y], m)
        <5>1. y \in 0 .. (y + 1) - 1
          OBVIOUS
        <5> QED BY <4>1, <5>1 DEF IsWalk
      <4>3. WalkOf(i, p[y], y)
        <5>1. 0 \in 0 .. y + 1 /\ y \in 0 .. y + 1 /\ y - 0 = y /\ y + 1 \in Nat
          OBVIOUS
        <5>2. \A l \in 0 + 1 .. y - 1 : p[l] <= D
          <6>1. \A l \in 0 + 1 .. y - 1 : l \in 0 .. y + 1
            OBVIOUS
          <6>2. p \in [0 .. y + 1 -> 1 .. D]
            BY <1>0, <4>1 DEF IsWalk
          <6> QED BY <1>0, <6>1, <6>2
        <5>3. WalkWithin(p[0], p[y], y - 0, D)
          BY <4>1, <5>1, <5>2, WalkPart
        <5> QED BY <4>1, <5>1, <5>3 DEF WalkWithin, WalkOf
      <4>4. p[y] \in r[y]
        <5>1. y \in 0 .. y
          OBVIOUS
        <5> QED BY <2>3, <4>3, <5>1
      <4> QED BY <4>2, <4>4
    <3>3. z \in 0 .. y \/ z = y + 1
      OBVIOUS
    <3> QED BY <3>1, <3>2, <3>3
  <2>7. ASSUME NEW m PROVE m \in r[y + 1] <=> \E z \in 0 .. y + 1 : WalkOf(i, m, z)
    <3>1. m \in r[y] => \E z \in 0 .. y + 1 : WalkOf(i, m, z)
      BY <2>3, <2>4
    <3> QED BY <2>2, <2>5, <2>6, <3>1
  <2> QED BY <2>1, <2>7
<1> HIDE DEF K
<1>5. \A y \in 0 .. D : y \in K
  BY <1>0, <1>3, <1>4, UpTo
<1> QED BY <1>5 DEF K, D, r
-----------------------------------------------------------------------------
(***************************************************************************)
(* Floyd-Warshall: the costs are lengths of walks, and no walk through the *)
(* first k nodes is shorter.                                               *)
(***************************************************************************)
CostOK(t, k) ==
    \A i, j \in nw.nodes :
        /\ t[i][j].cost <= Dimension(nw)
        /\ t[i][j].cost < Dimension(nw) => WalkOf(i, j, t[i][j].cost)
        /\ \A x \in Nat : WalkWithin(i, j, x, k) => t[i][j].cost <= x

\* The next node of a route is closer to its end and not farther from its start.
NextOK(t) ==
    \A i, j \in nw.nodes :
        /\ t[i][j].cost \in {0, Dimension(nw)} =>
                t[i][j].next = Null /\ t[i][j].buffer = NoBuffer
        /\ t[i][j].cost \notin {0, Dimension(nw)} =>
                /\ t[i][j].next \in nw.nodes \ {i}
                /\ t[i][t[i][j].next].cost + t[t[i][j].next][j].cost <= t[i][j].cost
                /\ t[i][j].next = j => t[i][j].cost = 1

\* Only the way from a node to itself costs nothing.
LEMMA NoCost ==
    ASSUME nw \in Nets, NEW t, TableOK(t), NEW k, CostOK(t, k),
           NEW i \in nw.nodes, NEW j \in nw.nodes
    PROVE  t[i][j].cost = 0 <=> i = j
<1>1. Dimension(nw) \in Nat \ {0}
  BY NodeFacts
<1>2. t[i][j].cost = 0 => i = j
  BY <1>1, NoWalkIs DEF CostOK
<1>3. i = j => t[i][j].cost = 0
  BY DEF TableOK, NoEntry
<1> QED BY <1>2, <1>3

\* The costs before the first round are those of single hops.
LEMMA InitialCosts ==
    ASSUME nw \in Nets
    PROVE  CostOK(InitialTable(nw), 0) /\ NextOK(InitialTable(nw))
<1> DEFINE t == InitialTable(nw)
           D == Dimension(nw)
<1>0. D \in Nat \ {0} /\ nw.nodes = 1 .. D
  BY NodeFacts
<1>1. TableOK(t) /\ \A i, j \in nw.nodes : t[i][j] = OneHop(nw, i, j)
  BY InitialTableOK
<1> HIDE DEF t, D
<1>2. ASSUME NEW i \in nw.nodes, NEW j \in nw.nodes
      PROVE  /\ i = j => t[i][j].cost = 0 /\ t[i][j].next = Null /\ t[i][j].buffer = NoBuffer
             /\ Hop(i, j) => t[i][j].cost = 1 /\ t[i][j].next = j /\ D # 1
             /\ i # j /\ ~ Hop(i, j) =>
                    t[i][j].cost = D /\ t[i][j].next = Null /\ t[i][j].buffer = NoBuffer
  <2>1. t[i][j] = IF Hop(i, j)
                  THEN [cost |-> 1, next |-> j, buffer |-> LastBuffer(Via(i, j))]
                  ELSE [cost |-> IF i = j THEN 0 ELSE D, next |-> Null, buffer |-> NoBuffer]
    BY <1>1 DEF OneHop, Hop, Via, D
  <2>2. i # j => D # 1
    BY <1>0
  <2>3. Hop(i, j) => i # j
    BY DEF Hop
  <2> QED BY <2>1, <2>2, <2>3
<1>3. ASSUME NEW i \in nw.nodes, NEW j \in nw.nodes
      PROVE  /\ t[i][j].cost <= D
             /\ t[i][j].cost < D => WalkOf(i, j, t[i][j].cost)
             /\ \A x \in Nat : WalkWithin(i, j, x, 0) => t[i][j].cost <= x
  <2>1. t[i][j].cost <= D /\ t[i][j].cost \in Nat
    BY <1>0, <1>2
  <2>2. t[i][j].cost < D => WalkOf(i, j, t[i][j].cost)
    <3>1. CASE i = j
      BY <1>2, <3>1, NoWalkIs
    <3>2. CASE Hop(i, j)
      BY <1>2, <3>2, OneHopWalk
    <3>3. CASE i # j /\ ~ Hop(i, j)
      BY <1>0, <1>2, <3>3
    <3> QED BY <3>1, <3>2, <3>3
  <2>3. ASSUME NEW x \in Nat, WalkWithin(i, j, x, 0) PROVE t[i][j].cost <= x
    <3>1. PICK p : IsWalk(p, x) /\ p[0] = i /\ p[x] = j /\ \A y \in 1 .. x - 1 : p[y] <= 0
      BY <2>3 DEF WalkWithin
    <3>2. WalkOf(i, j, x)
      BY <3>1 DEF WalkOf
    <3>3. x = 0 \/ x = 1
      <4> SUFFICES ASSUME x # 0, x # 1 PROVE FALSE
        OBVIOUS
      <4>1. 1 \in 1 .. x - 1 /\ 1 \in 0 .. x
        OBVIOUS
      <4>2. p[1] <= 0
        BY <3>1, <4>1
      <4>3. p[1] \in nw.nodes
        BY <3>1, <4>1 DEF IsWalk
      <4> QED BY <1>0, <4>2, <4>3
    <3>4. CASE x = 0
      BY <1>2, <3>2, <3>4, NoWalkIs
    <3>5. CASE x = 1
      BY <1>2, <3>2, <3>5, OneHopWalk
    <3> QED BY <3>3, <3>4, <3>5
  <2> QED BY <2>1, <2>2, <2>3
<1>4. CostOK(t, 0)
  BY <1>3 DEF CostOK, D
<1>5. ASSUME NEW i \in nw.nodes, NEW j \in nw.nodes
      PROVE  /\ t[i][j].cost \in {0, D} => t[i][j].next = Null /\ t[i][j].buffer = NoBuffer
             /\ t[i][j].cost \notin {0, D} =>
                    /\ t[i][j].next \in nw.nodes \ {i}
                    /\ t[i][t[i][j].next].cost + t[t[i][j].next][j].cost <= t[i][j].cost
                    /\ t[i][j].next = j => t[i][j].cost = 1
  <2>1. CASE i = j
    BY <1>2, <2>1
  <2>2. CASE i # j /\ ~ Hop(i, j)
    BY <1>2, <2>2
  <2>3. CASE Hop(i, j)
    <3>1. t[i][j].cost = 1 /\ t[i][j].next = j /\ D # 1 /\ i # j
      BY <1>2, <2>3 DEF Hop
    <3>2. t[j][j].cost = 0
      BY <1>2
    <3> QED BY <3>1, <3>2
  <2> QED BY <2>1, <2>2, <2>3
<1>6. NextOK(t)
  BY <1>5 DEF NextOK, D
<1> QED BY <1>4, <1>6 DEF t

\* A round of the outer loop.
LEMMA RelaxCosts ==
    ASSUME nw \in Nets, NEW t, TableOK(t), NEW k \in 0 .. Dimension(nw) - 1,
           CostOK(t, k), NextOK(t)
    PROVE  /\ CostOK(RelaxAll(nw, t, k + 1), k + 1)
           /\ NextOK(RelaxAll(nw, t, k + 1))
<1> DEFINE D == Dimension(nw)
           K == k + 1
           u == RelaxAll(nw, t, k + 1)
<1>0. D \in Nat \ {0} /\ nw.nodes = 1 .. D /\ K \in nw.nodes /\ k \in Nat
  BY NodeFacts
<1>1. TableOK(u) /\ \A i, j \in nw.nodes : u[i][j] = Relaxed(t, i, j, K)
  BY <1>0, RelaxedOK
<1> HIDE DEF u
<1>2. \A i, j \in nw.nodes : t[i][j].cost \in Nat /\ u[i][j].cost \in Nat
  BY <1>1, EntryIs
<1>3. ASSUME NEW i \in nw.nodes, NEW j \in nw.nodes
      PROVE  /\ t[i][j].cost > t[i][K].cost + t[K][j].cost =>
                    /\ u[i][j].cost = t[i][K].cost + t[K][j].cost
                    /\ u[i][j].next = K
             /\ ~ (t[i][j].cost > t[i][K].cost + t[K][j].cost) => u[i][j] = t[i][j]
  <2>1. u[i][j] = IF t[i][j].cost > t[i][K].cost + t[K][j].cost
                  THEN [cost |-> t[i][K].cost + t[K][j].cost, next |-> K,
                        buffer |-> t[i][j].buffer] ELSE t[i][j]
    BY <1>1 DEF Relaxed
  <2> QED BY <2>1
<1> HIDE DEF D, K
<1>4. \A i, j \in nw.nodes : /\ u[i][j].cost <= t[i][j].cost
                             /\ u[i][j].cost <= t[i][K].cost + t[K][j].cost
  <2> SUFFICES ASSUME NEW i \in nw.nodes, NEW j \in nw.nodes
               PROVE  /\ u[i][j].cost <= t[i][j].cost
                      /\ u[i][j].cost <= t[i][K].cost + t[K][j].cost
    OBVIOUS
  <2>1. t[i][j].cost \in Nat /\ t[i][K].cost \in Nat /\ t[K][j].cost \in Nat
    BY <1>0, <1>2
  <2>2. CASE t[i][j].cost > t[i][K].cost + t[K][j].cost
    <3>1. u[i][j].cost = t[i][K].cost + t[K][j].cost
      BY <1>3, <2>2
    <3> QED BY <2>1, <2>2, <3>1
  <2>3. CASE ~ (t[i][j].cost > t[i][K].cost + t[K][j].cost)
    <3>1. u[i][j].cost = t[i][j].cost
      BY <1>3, <2>3
    <3> QED BY <2>1, <2>3, <3>1
  <2> QED BY <2>2, <2>3
<1>5. ASSUME NEW i \in nw.nodes, NEW j \in nw.nodes
      PROVE  /\ u[i][j].cost <= D
             /\ u[i][j].cost < D => WalkOf(i, j, u[i][j].cost)
             /\ \A x \in Nat : WalkWithin(i, j, x, K) => u[i][j].cost <= x
  <2>1. \A a, b \in nw.nodes : t[a][b].cost <= D /\ (t[a][b].cost < D => WalkOf(a, b, t[a][b].cost))
    BY DEF CostOK, D
  <2>2. u[i][j].cost <= D
    <3>1. u[i][j].cost <= t[i][j].cost /\ t[i][j].cost <= D
      BY <1>4, <2>1
    <3>2. u[i][j].cost \in Nat /\ t[i][j].cost \in Nat
      BY <1>2
    <3> QED BY <1>0, <3>1, <3>2
  <2>3. ASSUME u[i][j].cost < D PROVE WalkOf(i, j, u[i][j].cost)
    <3>1. CASE t[i][j].cost > t[i][K].cost + t[K][j].cost
      <4>1. /\ u[i][j].cost = t[i][K].cost + t[K][j].cost
            /\ t[i][K].cost \in Nat /\ t[K][j].cost \in Nat
            /\ t[i][K].cost < D /\ t[K][j].cost < D
        <5>1. t[i][j].cost \in Nat /\ t[i][K].cost \in Nat /\ t[K][j].cost \in Nat
          BY <1>0, <1>2
        <5>2. u[i][j].cost = t[i][K].cost + t[K][j].cost
          BY <1>3, <3>1
        <5> QED BY <1>0, <2>3, <5>1, <5>2
      <4>2. WalkOf(i, K, t[i][K].cost) /\ WalkOf(K, j, t[K][j].cost)
        BY <1>0, <2>1, <4>1
      <4> QED BY <4>1, <4>2, WalkJoin
    <3>2. CASE ~ (t[i][j].cost > t[i][K].cost + t[K][j].cost)
      BY <1>3, <2>1, <2>3, <3>2
    <3> QED BY <3>1, <3>2
  <2>4. ASSUME NEW x \in Nat, WalkWithin(i, j, x, K) PROVE u[i][j].cost <= x
    <3>1. \A a, b \in nw.nodes : \A y \in Nat : WalkWithin(a, b, y, k) => t[a][b].cost <= y
      BY DEF CostOK
    <3>2. CASE WalkWithin(i, j, x, k)
      <4>1. t[i][j].cost <= x
        BY <3>1, <3>2
      <4> QED BY <1>2, <1>4, <4>1
    <3>3. ASSUME NEW a \in Nat, NEW b \in Nat, a + b <= x,
                 WalkWithin(i, K, a, k), WalkWithin(K, j, b, k)
          PROVE  u[i][j].cost <= x
      <4>1. t[i][K].cost <= a /\ t[K][j].cost <= b
        BY <1>0, <3>1, <3>3
      <4>2. u[i][j].cost <= t[i][K].cost + t[K][j].cost
        BY <1>4
      <4>3. u[i][j].cost \in Nat /\ t[i][K].cost \in Nat /\ t[K][j].cost \in Nat
        BY <1>0, <1>2
      <4> QED BY <3>3, <4>1, <4>2, <4>3
    <3>4. \/ WalkWithin(i, j, x, k)
          \/ \E a, b \in Nat : a + b <= x /\ WalkWithin(i, K, a, k) /\ WalkWithin(K, j, b, k)
      BY <1>0, <2>4, WalkSplit DEF K
    <3> QED BY <3>2, <3>3, <3>4
  <2> QED BY <2>2, <2>3, <2>4
<1>6. CostOK(u, K)
  BY <1>5 DEF CostOK, D
<1>7. ASSUME NEW i \in nw.nodes, NEW j \in nw.nodes
      PROVE  /\ u[i][j].cost \in {0, D} => u[i][j].next = Null /\ u[i][j].buffer = NoBuffer
             /\ u[i][j].cost \notin {0, D} =>
                    /\ u[i][j].next \in nw.nodes \ {i}
                    /\ u[i][u[i][j].next].cost + u[u[i][j].next][j].cost <= u[i][j].cost
                    /\ u[i][j].next = j => u[i][j].cost = 1
  <2>1. CASE t[i][j].cost > t[i][K].cost + t[K][j].cost
    <3>1. u[i][j].cost = t[i][K].cost + t[K][j].cost /\ u[i][j].next = K
      BY <1>3, <2>1
    <3>2. /\ t[i][j].cost \in Nat /\ t[i][K].cost \in Nat /\ t[K][j].cost \in Nat
          /\ t[i][j].cost <= D
      BY <1>0, <1>2 DEF CostOK, D
    <3>3. K # i /\ K # j
      <4>1. K = i => t[i][K].cost = 0
        BY <1>0, NoCost
      <4>2. K = j => t[K][j].cost = 0
        BY <1>0, NoCost
      <4> QED BY <2>1, <3>2, <4>1, <4>2
    <3>4. t[i][K].cost # 0 /\ t[K][j].cost # 0
      BY <1>0, <3>3, NoCost
    <3>5. u[i][j].cost \notin {0, D}
      BY <1>0, <2>1, <3>1, <3>2, <3>4
    <3>6. u[i][K].cost + u[K][j].cost <= u[i][j].cost
      <4>1. u[i][K].cost <= t[i][K].cost /\ u[K][j].cost <= t[K][j].cost
        BY <1>0, <1>4
      <4>2. u[i][K].cost \in Nat /\ u[K][j].cost \in Nat
        BY <1>0, <1>2
      <4> QED BY <3>1, <3>2, <4>1, <4>2
    <3> QED BY <1>0, <3>1, <3>3, <3>5, <3>6
  <2>2. CASE ~ (t[i][j].cost > t[i][K].cost + t[K][j].cost)
    <3>1. u[i][j] = t[i][j]
      BY <1>3, <2>2
    <3>2. CASE t[i][j].cost \in {0, D}
      <4>1. t[i][j].next = Null /\ t[i][j].buffer = NoBuffer
        BY <3>2 DEF NextOK, D
      <4> QED BY <3>1, <3>2, <4>1
    <3>3. CASE t[i][j].cost \notin {0, D}
      <4>1. PICK h : h = t[i][j].next
        OBVIOUS
      <4>2. /\ h \in nw.nodes \ {i} /\ t[i][h].cost + t[h][j].cost <= t[i][j].cost
            /\ h = j => t[i][j].cost = 1
        BY <3>3, <4>1 DEF NextOK, D
      <4>3. u[i][h].cost <= t[i][h].cost /\ u[h][j].cost <= t[h][j].cost
        BY <1>4, <4>2
      <4>4. /\ u[i][h].cost \in Nat /\ u[h][j].cost \in Nat /\ t[i][h].cost \in Nat
            /\ t[h][j].cost \in Nat /\ t[i][j].cost \in Nat
        BY <1>2, <4>2
      <4>5. u[i][h].cost + u[h][j].cost <= t[i][j].cost
        BY <4>2, <4>3, <4>4
      <4> QED BY <3>1, <3>3, <4>1, <4>2, <4>5
    <3> QED BY <3>2, <3>3
  <2> QED BY <2>1, <2>2
<1>8. NextOK(u)
  BY <1>7 DEF NextOK, D
<1> QED BY <1>6, <1>8 DEF u, K

\* The costs are distances.
DistanceOK(t) ==
    \A i, j \in nw.nodes :
        /\ t[i][j].cost <= Dimension(nw)
        /\ t[i][j].cost < Dimension(nw) => WalkOf(i, j, t[i][j].cost)
        /\ \A x \in Nat : WalkOf(i, j, x) =>
                t[i][j].cost <= x /\ t[i][j].cost < Dimension(nw)

\* After the last round every cost is a distance.
LEMMA CostsExact ==
    ASSUME nw \in Nets, NEW t, TableOK(t), CostOK(t, Dimension(nw))
    PROVE  DistanceOK(t)
<1> DEFINE D == Dimension(nw)
<1>0. D \in Nat \ {0} /\ nw.nodes = 1 .. D
  BY NodeFacts
<1> SUFFICES ASSUME NEW i \in nw.nodes, NEW j \in nw.nodes, NEW x \in Nat, WalkOf(i, j, x)
             PROVE  t[i][j].cost <= x /\ t[i][j].cost < D
  BY DEF DistanceOK, CostOK
<1>1. t[i][j].cost \in Nat /\ t[i][j].cost <= D
  BY EntryIs DEF CostOK
<1> HIDE DEF D
<1>2. ASSUME NEW y \in Nat, WalkOf(i, j, y) PROVE t[i][j].cost <= y
  <2>1. PICK p : IsWalk(p, y) /\ p[0] = i /\ p[y] = j
    BY <1>2 DEF WalkOf
  <2>2. \A z \in 1 .. y - 1 : p[z] <= D
    <3> SUFFICES ASSUME NEW z \in 1 .. y - 1 PROVE p[z] <= D
      OBVIOUS
    <3>1. z \in 0 .. y
      OBVIOUS
    <3>2. p[z] \in 1 .. D
      BY <1>0, <2>1, <3>1 DEF IsWalk
    <3> QED BY <1>0, <3>2
  <2>3. WalkWithin(i, j, y, D)
    BY <2>1, <2>2 DEF WalkWithin
  <2> QED BY <2>3 DEF CostOK, D
<1>3. ASSUME t[i][j].cost = D PROVE FALSE
  <2> DEFINE S == {y \in Nat : WalkOf(i, j, y)}
             f == [y \in S |-> y]
  <2>1. f \in [S -> Nat] /\ S # {} /\ \A y \in S : f[y] = y
    OBVIOUS
  <2>2. PICK y \in S : \A z \in S : f[y] <= f[z]
    <3> HIDE DEF f, S
    <3> QED BY <2>1, LeastExists
  <2>3. y >= D
    BY <1>2, <1>3
  <2>4. PICK z \in 0 .. y - 1 : WalkOf(i, j, z)
    BY <2>3, WalkShorter DEF D
  <2>5. z \in S /\ z < y
    BY <2>4
  <2> QED BY <2>1, <2>2, <2>5
<1> QED BY <1>0, <1>1, <1>2, <1>3

\* What distances have in common: the triangle inequality, and when they are 0
\* or 1.
LEMMA DistanceFacts ==
    ASSUME nw \in Nets, NEW t, TableOK(t), DistanceOK(t)
    PROVE  /\ \A i, j \in nw.nodes :
                /\ t[i][j].cost \in Nat /\ t[i][j].cost <= Dimension(nw)
                /\ t[i][j].cost = 0 <=> i = j
                /\ Hop(i, j) => t[i][j].cost = 1 /\ 1 < Dimension(nw)
                /\ t[i][j].cost = 1 /\ t[i][j].cost < Dimension(nw) => Hop(i, j)
           /\ \A i, j, k \in nw.nodes : t[i][j].cost <= t[i][k].cost + t[k][j].cost
<1> DEFINE D == Dimension(nw)
<1>0. D \in Nat \ {0}
  BY NodeFacts
<1>1. ASSUME NEW i \in nw.nodes, NEW j \in nw.nodes
      PROVE  /\ t[i][j].cost \in Nat /\ t[i][j].cost <= D
             /\ t[i][j].cost = 0 <=> i = j
             /\ Hop(i, j) => t[i][j].cost = 1 /\ 1 < D
             /\ t[i][j].cost = 1 /\ t[i][j].cost < D => Hop(i, j)
  <2>1. t[i][j].cost \in Nat /\ t[i][j].cost <= D
    BY EntryIs DEF DistanceOK
  <2>2. t[i][j].cost = 0 <=> i = j
    <3>1. t[i][j].cost = 0 => i = j
      BY <1>0, NoWalkIs DEF DistanceOK
    <3>2. i = j => t[i][j].cost = 0
      BY DEF TableOK, NoEntry
    <3> QED BY <3>1, <3>2
  <2>3. ASSUME Hop(i, j) PROVE t[i][j].cost = 1 /\ 1 < D
    <3>1. WalkOf(i, j, 1) /\ i # j
      BY <2>3, OneHopWalk DEF Hop
    <3>2. t[i][j].cost <= 1 /\ t[i][j].cost < D
      BY <3>1 DEF DistanceOK
    <3> HIDE DEF D
    <3> QED BY <1>0, <2>1, <2>2, <3>1, <3>2
  <2>4. t[i][j].cost = 1 /\ t[i][j].cost < D => Hop(i, j)
    BY OneHopWalk DEF DistanceOK
  <2> QED BY <2>1, <2>2, <2>3, <2>4
<1>2. ASSUME NEW i \in nw.nodes, NEW j \in nw.nodes, NEW k \in nw.nodes
      PROVE  t[i][j].cost <= t[i][k].cost + t[k][j].cost
  <2>1. t[i][j].cost \in Nat /\ t[i][k].cost \in Nat /\ t[k][j].cost \in Nat /\ t[i][j].cost <= D
    BY <1>1
  <2>2. CASE t[i][k].cost < D /\ t[k][j].cost < D
    <3>1. WalkOf(i, k, t[i][k].cost) /\ WalkOf(k, j, t[k][j].cost)
      BY <2>2 DEF DistanceOK
    <3>2. WalkOf(i, j, t[i][k].cost + t[k][j].cost)
      BY <2>1, <3>1, WalkJoin
    <3>3. t[i][k].cost + t[k][j].cost \in Nat
      BY <2>1
    <3> QED BY <3>2, <3>3 DEF DistanceOK
  <2>3. CASE ~ (t[i][k].cost < D /\ t[k][j].cost < D)
    <3> HIDE DEF D
    <3> QED BY <1>0, <2>1, <2>3
  <2> QED BY <2>2, <2>3
<1> QED BY <1>1, <1>2 DEF D
-----------------------------------------------------------------------------
(***************************************************************************)
(* The second part: from the intermediate node of a route to its first hop.*)
(***************************************************************************)
RoutesOK(t) == TableOK(t) /\ DistanceOK(t) /\ NextOK(t)

HopDone(t, i, j) ==
    i # j /\ t[i][j].cost < Dimension(nw) =>
        /\ t[i][j].next \in nw.nodes /\ Hop(i, t[i][j].next)
        /\ t[t[i][j].next][j].cost + 1 <= t[i][j].cost
        /\ t[i][j].buffer \in Via(i, t[i][j].next)

\* Following the intermediate nodes back ends at a neighbour that is nearer to
\* the end.
LEMMA NextHopIs ==
    ASSUME nw \in Nets, NEW t, RoutesOK(t), NEW i \in nw.nodes, NEW j \in nw.nodes,
           t[i][j].cost \notin {0, Dimension(nw)}
    PROVE  LET h == NextHop(nw, t, i, j)
           IN  h \in nw.nodes /\ Hop(i, h) /\ t[i][h].cost = 1 /\ t[h][j].cost + 1 <= t[i][j].cost
<1> DEFINE D == Dimension(nw)
           S == {h \in nw.nodes \ {i} : t[i][h].cost + t[h][j].cost <= t[i][j].cost}
           Back(h) == IF t[i][h].cost <= 1 THEN h ELSE t[i][h].next
           g == [h \in S |-> Back(h)]
           a == t[i][j].next
<1>0. D \in Nat \ {0}
  BY NodeFacts
<1>1. TableOK(t) /\ DistanceOK(t) /\ NextOK(t)
  BY DEF RoutesOK
<1>2. \A b, c \in nw.nodes : /\ t[b][c].cost \in Nat /\ t[b][c].cost <= D
                             /\ t[b][c].cost = 0 <=> b = c
                             /\ t[b][c].cost = 1 /\ t[b][c].cost < D => Hop(b, c)
  BY <1>1, DistanceFacts
<1>3. \A b, c, k \in nw.nodes : t[b][c].cost <= t[b][k].cost + t[k][c].cost
  BY <1>1, DistanceFacts
<1>4. ASSUME NEW b \in nw.nodes, NEW c \in nw.nodes, t[b][c].cost \notin {0, D}
      PROVE  LET h == t[b][c].next
             IN  h \in nw.nodes \ {b} /\ t[b][h].cost + t[h][c].cost <= t[b][c].cost
                 /\ (h = c => t[b][c].cost = 1)
  BY <1>1, <1>4 DEF NextOK
<1>5. t[i][j].cost \notin {0, D}
  OBVIOUS
<1> HIDE DEF D
<1>6. a \in S
  BY <1>4, <1>5
<1>7. ASSUME NEW h \in S
      PROVE  /\ t[i][h].cost \in 1 .. D - 1
             /\ Back(h) \in S
             /\ t[i][h].cost > 1 => t[i][Back(h)].cost < t[i][h].cost
  <2>1. h \in nw.nodes /\ h # i /\ t[i][h].cost + t[h][j].cost <= t[i][j].cost
    OBVIOUS
  <2>2. /\ t[i][h].cost \in Nat /\ t[h][j].cost \in Nat /\ t[i][j].cost \in Nat
        /\ t[i][j].cost <= D /\ t[i][h].cost # 0
    BY <1>2, <2>1
  <2>3. t[i][h].cost \in 1 .. D - 1
    BY <1>0, <1>5, <2>1, <2>2
  <2>4. CASE t[i][h].cost <= 1
    BY <2>3, <2>4
  <2>5. CASE ~ (t[i][h].cost <= 1)
    <3>1. PICK f : f = t[i][h].next
      OBVIOUS
    <3>2. Back(h) = f
      BY <2>5, <3>1
    <3>3. t[i][h].cost \notin {0, D}
      BY <1>0, <2>3
    <3>4. f \in nw.nodes \ {i} /\ t[i][f].cost + t[f][h].cost <= t[i][h].cost
          /\ (f = h => t[i][h].cost = 1)
      BY <1>4, <2>1, <3>1, <3>3
    <3>5. f # h /\ t[f][h].cost # 0
      BY <1>2, <2>1, <2>5, <3>4
    <3>6. /\ t[i][f].cost \in Nat /\ t[f][h].cost \in Nat /\ t[f][j].cost \in Nat
          /\ t[f][j].cost <= t[f][h].cost + t[h][j].cost
      BY <1>2, <1>3, <2>1, <3>4
    <3>7. t[i][f].cost < t[i][h].cost
      BY <2>2, <3>4, <3>5, <3>6
    <3>8. t[i][f].cost + t[f][j].cost <= t[i][j].cost
      BY <2>1, <2>2, <3>4, <3>6
    <3> QED BY <2>3, <3>2, <3>4, <3>7, <3>8
  <2> QED BY <2>4, <2>5
<1> HIDE DEF Back
<1>8. g \in [S -> S] /\ \A h \in S : g[h] = Back(h)
  BY <1>7
<1> HIDE DEF g
<1>9. PICK q : Iterated(q, D, S, a, g)
  <2> HIDE DEF S, a
  <2> QED BY <1>0, <1>6, <1>8, Iterates
<1>10. q \in [0 .. D -> S] /\ q[0] = a /\ \A x \in 1 .. D : q[x] = Back(q[x - 1])
  <2>1. q \in [0 .. D -> S] /\ q[0] = a /\ \A x \in 1 .. D : q[x] = g[q[x - 1]]
    BY <1>9 DEF Iterated
  <2>2. \A x \in 1 .. D : x - 1 \in 0 .. D
    BY <1>0
  <2> HIDE DEF S, a
  <2> QED BY <1>8, <2>1, <2>2
<1> DEFINE E(f) == f = [x \in 0 .. D |-> IF x = 0 THEN a ELSE Back(f[x - 1])]
<1>11. E(q)
  <2>1. \A x \in 0 .. D : q[x] = IF x = 0 THEN a ELSE Back(q[x - 1])
    <3> SUFFICES ASSUME NEW x \in 0 .. D PROVE q[x] = IF x = 0 THEN a ELSE Back(q[x - 1])
      OBVIOUS
    <3>1. x = 0 \/ x \in 1 .. D
      BY <1>0
    <3> QED BY <1>10, <3>1
  <2>2. q = [x \in 0 .. D |-> q[x]]
    BY <1>10
  <2> HIDE DEF a
  <2> QED BY <2>1, <2>2
<1>12. ASSUME NEW f, E(f) PROVE f = q
  <2> DEFINE K == {x \in 0 .. D : f[x] = q[x]}
  <2>1. /\ DOMAIN f = 0 .. D /\ f = [x \in 0 .. D |-> f[x]]
        /\ \A x \in 0 .. D : f[x] = IF x = 0 THEN a ELSE Back(f[x - 1])
    BY <1>12
  <2>2. 0 \in K
    <3>1. 0 \in 0 .. D
      BY <1>0
    <3>2. f[0] = a
      BY <2>1, <3>1
    <3> HIDE DEF a
    <3> QED BY <1>10, <3>1, <3>2
  <2>3. ASSUME NEW x \in 0 .. D - 1, x \in K PROVE x + 1 \in K
    <3>1. x + 1 \in 1 .. D /\ x + 1 \in 0 .. D /\ x + 1 # 0 /\ (x + 1) - 1 = x
      BY <1>0
    <3>2. f[x + 1] = Back(f[x]) /\ q[x + 1] = Back(q[x]) /\ f[x] = q[x]
      BY <1>10, <2>1, <2>3, <3>1
    <3> QED BY <3>1, <3>2
  <2> HIDE DEF K
  <2>4. \A x \in 0 .. D : x \in K
    BY <1>0, <2>2, <2>3, UpTo
  <2>5. \A x \in 0 .. D : f[x] = q[x]
    BY <2>4 DEF K
  <2>6. q = [x \in 0 .. D |-> q[x]]
    BY <1>10
  <2> QED BY <2>1, <2>5, <2>6
<1>13. NextHop(nw, t, i, j) = q[D]
  <2>1. NextHop(nw, t, i, j) = (CHOOSE f : E(f))[D]
    BY DEF NextHop, Back, D
  <2> HIDE DEF E
  <2>2. (CHOOSE f : E(f)) = q
    BY <1>11, <1>12
  <2> QED BY <2>1, <2>2
<1> DEFINE K == {x \in 0 .. D : t[i][q[x]].cost <= 1 \/ t[i][q[x]].cost + x <= D - 1}
<1>14. 0 \in K
  <2>1. q[0] \in S /\ 0 \in 0 .. D
    BY <1>0, <1>10
  <2>2. t[i][q[0]].cost \in 1 .. D - 1
    BY <1>7, <2>1
  <2> QED BY <1>0, <2>1, <2>2
<1>15. ASSUME NEW x \in 0 .. D - 1, x \in K PROVE x + 1 \in K
  <2>1. x + 1 \in 1 .. D /\ x + 1 \in 0 .. D /\ x \in 0 .. D /\ (x + 1) - 1 = x
    BY <1>0
  <2>2. q[x + 1] = Back(q[x]) /\ q[x] \in S /\ q[x + 1] \in S
    BY <1>10, <2>1
  <2>3. t[i][q[x]].cost <= 1 \/ t[i][q[x]].cost + x <= D - 1
    BY <1>15
  <2>4. CASE t[i][q[x]].cost <= 1
    <3>1. q[x + 1] = q[x]
      BY <2>2, <2>4 DEF Back
    <3> QED BY <2>1, <2>4, <3>1
  <2>5. CASE ~ (t[i][q[x]].cost <= 1)
    <3>1. /\ t[i][q[x]].cost \in 1 .. D - 1 /\ t[i][q[x + 1]].cost \in 1 .. D - 1
          /\ t[i][q[x]].cost > 1 => t[i][q[x + 1]].cost < t[i][q[x]].cost
      BY <1>7, <2>2
    <3>2. t[i][q[x + 1]].cost + (x + 1) <= D - 1
      BY <1>0, <2>3, <2>5, <3>1
    <3> QED BY <2>1, <3>2
  <2> QED BY <2>4, <2>5
<1>16. D \in K
  <2>1. D \in 0 .. D
    BY <1>0
  <2> HIDE DEF K
  <2> QED BY <1>0, <1>14, <1>15, <2>1, UpTo
<1>17. q[D] \in S /\ t[i][q[D]].cost \in 1 .. D - 1
  <2>1. D \in 0 .. D
    BY <1>0
  <2>2. q[D] \in S
    BY <1>10, <2>1
  <2> QED BY <1>7, <2>2
<1>18. t[i][q[D]].cost = 1 /\ t[i][q[D]].cost < D
  BY <1>0, <1>16, <1>17
<1>19. q[D] \in nw.nodes /\ t[i][q[D]].cost + t[q[D]][j].cost <= t[i][j].cost
  BY <1>17
<1>20. Hop(i, q[D])
  BY <1>2, <1>18, <1>19
<1>21. t[q[D]][j].cost + 1 <= t[i][j].cost
  <2>1. t[q[D]][j].cost \in Nat
    BY <1>2, <1>19
  <2> QED BY <1>18, <1>19, <2>1
<1> QED BY <1>13, <1>18, <1>19, <1>20, <1>21

\* One entry gets its first hop; the costs stay, and the entries before it are done.
LEMMA HopStep ==
    ASSUME nw \in Nets, NEW t, RoutesOK(t), NEW i \in nw.nodes, NEW j \in nw.nodes
    PROVE  LET u == SetHop(nw, t, i, j)
           IN  /\ RoutesOK(u) /\ HopDone(u, i, j)
               /\ \A a, c \in nw.nodes : u[a][c].cost = t[a][c].cost
               /\ \A a, c \in nw.nodes : HopDone(t, a, c) => HopDone(u, a, c)
<1> DEFINE D == Dimension(nw)
           u == SetHop(nw, t, i, j)
           h == NextHop(nw, t, i, j)
           e == t[i][j]
<1>0. TableOK(t) /\ DistanceOK(t) /\ NextOK(t)
  BY DEF RoutesOK
<1>1. /\ TableOK(u)
      /\ \A a, c \in nw.nodes : a # i \/ c # j => u[a][c] = t[a][c]
      /\ e.next = Null => u[i][j] = [cost |-> e.cost, next |-> Null, buffer |-> NoBuffer]
      /\ e.next # Null /\ Via(i, h) = {} => u[i][j] = e
      /\ e.next # Null /\ Via(i, h) # {} =>
            u[i][j] = [cost |-> e.cost, next |-> h, buffer |-> FirstBuffer(Via(i, h))]
  BY <1>0, HopOK
<1>2. /\ e.cost \in {0, D} => e.next = Null /\ e.buffer = NoBuffer
      /\ e.cost \notin {0, D} => e.next \in nw.nodes
  BY <1>0 DEF NextOK
<1>3. Null \notin nw.nodes
  BY NodeFacts
<1>4. e.cost \notin {0, D} => /\ h \in nw.nodes /\ Hop(i, h) /\ Via(i, h) # {} /\ h # i
                              /\ t[i][h].cost = 1 /\ t[h][j].cost + 1 <= e.cost
                              /\ FirstBuffer(Via(i, h)) \in Via(i, h)
  <2> SUFFICES ASSUME e.cost \notin {0, D}
               PROVE  /\ h \in nw.nodes /\ Hop(i, h) /\ Via(i, h) # {} /\ h # i
                      /\ t[i][h].cost = 1 /\ t[h][j].cost + 1 <= e.cost
                      /\ FirstBuffer(Via(i, h)) \in Via(i, h)
    OBVIOUS
  <2>1. /\ h \in nw.nodes /\ Hop(i, h) /\ t[i][h].cost = 1 /\ t[h][j].cost + 1 <= e.cost
    BY NextHopIs
  <2>2. Via(i, h) # {} /\ h # i
    BY <2>1 DEF Hop
  <2> QED BY <2>1, <2>2, ViaIs
<1> HIDE DEF u, h, D
<1>5. /\ e.cost \in {0, D} => /\ u[i][j].next = Null /\ u[i][j].buffer = NoBuffer
                              /\ u[i][j].cost = e.cost
      /\ e.cost \notin {0, D} => /\ u[i][j].next = h /\ u[i][j].cost = e.cost
                                 /\ u[i][j].buffer = FirstBuffer(Via(i, h))
  BY <1>1, <1>2, <1>3, <1>4
<1>6. \A a, c \in nw.nodes : u[a][c].cost = t[a][c].cost
  BY <1>1, <1>5
<1>7. DistanceOK(u)
  BY <1>0, <1>6 DEF DistanceOK
<1>8. \A a, c \in nw.nodes : t[a][c].cost \in Nat /\ t[a][c].cost <= D
  BY <1>0, DistanceFacts DEF D
<1>9. ASSUME NEW a \in nw.nodes, NEW c \in nw.nodes
      PROVE  /\ u[a][c].cost \in {0, D} => u[a][c].next = Null /\ u[a][c].buffer = NoBuffer
             /\ u[a][c].cost \notin {0, D} =>
                    /\ u[a][c].next \in nw.nodes \ {a}
                    /\ u[a][u[a][c].next].cost + u[u[a][c].next][c].cost <= u[a][c].cost
                    /\ u[a][c].next = c => u[a][c].cost = 1
  <2>1. CASE a # i \/ c # j
    <3>1. u[a][c] = t[a][c]
      BY <1>1, <2>1
    <3>2. /\ t[a][c].cost \in {0, D} => t[a][c].next = Null /\ t[a][c].buffer = NoBuffer
          /\ t[a][c].cost \notin {0, D} =>
                /\ t[a][c].next \in nw.nodes \ {a}
                /\ t[a][t[a][c].next].cost + t[t[a][c].next][c].cost <= t[a][c].cost
                /\ t[a][c].next = c => t[a][c].cost = 1
      BY <1>0 DEF NextOK, D
    <3> QED BY <1>6, <3>1, <3>2
  <2>2. CASE a = i /\ c = j /\ e.cost \in {0, D}
    BY <1>5, <2>2
  <2>3. CASE a = i /\ c = j /\ e.cost \notin {0, D}
    <3>1. u[i][j].next = h /\ u[i][j].cost = e.cost /\ h \in nw.nodes \ {i}
      BY <1>4, <1>5, <2>3
    <3>2. u[i][h].cost = 1 /\ u[h][j].cost = t[h][j].cost /\ t[h][j].cost \in Nat
      BY <1>4, <1>6, <1>8, <2>3
    <3>3. u[i][h].cost + u[h][j].cost <= e.cost
      BY <1>4, <1>8, <2>3, <3>2
    <3>4. h = j => e.cost = 1
      BY <1>4, <2>3
    <3> QED BY <2>3, <3>1, <3>3, <3>4
  <2> QED BY <2>1, <2>2, <2>3
<1>10. NextOK(u)
  BY <1>9 DEF NextOK, D
<1>11. HopDone(u, i, j)
  <2> SUFFICES ASSUME i # j, u[i][j].cost < D
               PROVE  /\ u[i][j].next \in nw.nodes /\ Hop(i, u[i][j].next)
                      /\ u[u[i][j].next][j].cost + 1 <= u[i][j].cost
                      /\ u[i][j].buffer \in Via(i, u[i][j].next)
    BY DEF HopDone, D
  <2>1. e.cost # 0
    BY <1>0, DistanceFacts
  <2>2. e.cost # D
    BY <1>6, <1>8
  <2>3. /\ u[i][j].next = h /\ u[i][j].cost = e.cost
        /\ u[i][j].buffer = FirstBuffer(Via(i, h))
    BY <1>5, <2>1, <2>2
  <2>4. /\ h \in nw.nodes /\ Hop(i, h) /\ t[h][j].cost + 1 <= e.cost
        /\ FirstBuffer(Via(i, h)) \in Via(i, h)
    BY <1>4, <2>1, <2>2
  <2>5. u[h][j].cost = t[h][j].cost
    BY <1>6, <2>4
  <2> QED BY <2>3, <2>4, <2>5
<1>12. ASSUME NEW a \in nw.nodes, NEW c \in nw.nodes, HopDone(t, a, c)
       PROVE  HopDone(u, a, c)
  <2>1. CASE a = i /\ c = j
    BY <1>11, <2>1
  <2>2. CASE a # i \/ c # j
    <3>1. u[a][c] = t[a][c]
      BY <1>1, <2>2
    <3>2. ASSUME a # c, u[a][c].cost < D
          PROVE  /\ u[a][c].next \in nw.nodes /\ Hop(a, u[a][c].next)
                 /\ u[u[a][c].next][c].cost + 1 <= u[a][c].cost
                 /\ u[a][c].buffer \in Via(a, u[a][c].next)
      <4>1. /\ t[a][c].next \in nw.nodes /\ Hop(a, t[a][c].next)
            /\ t[t[a][c].next][c].cost + 1 <= t[a][c].cost
            /\ t[a][c].buffer \in Via(a, t[a][c].next)
        BY <1>12, <3>1, <3>2 DEF HopDone, D
      <4> QED BY <1>6, <3>1, <4>1
    <3> QED BY <3>2 DEF HopDone, D
  <2> QED BY <2>1, <2>2
<1> QED BY <1>1, <1>6, <1>7, <1>10, <1>11, <1>12 DEF RoutesOK, u

\* The route of the finished table, node by node.
LEMMA PathIs ==
    ASSUME nw \in Nets, NEW t, TableOK(t), NEW i \in nw.nodes, NEW j \in nw.nodes
    PROVE  LET p == Path(nw, t, i, j)
           IN  /\ p[0] = i /\ p \in [0 .. Dimension(nw) -> nw.nodes]
               /\ \A x \in 1 .. Dimension(nw) :
                    p[x] = IF p[x - 1] = j \/ t[p[x - 1]][j].next = Null THEN p[x - 1]
                           ELSE t[p[x - 1]][j].next
<1> DEFINE D == Dimension(nw)
           Ahead(k) == IF k = j \/ t[k][j].next = Null THEN k ELSE t[k][j].next
           S == nw.nodes
           g == [k \in S |-> Ahead(k)]
<1>0. D \in Nat \ {0}
  BY NodeFacts
<1> HIDE DEF D
<1>1. \A k \in S : Ahead(k) \in S
  <2>1. \A k \in S : t[k][j].next \in nw.nodes \cup {Null}
    BY EntryIs
  <2> QED BY <2>1
<1> HIDE DEF Ahead
<1>2. g \in [S -> S] /\ \A k \in S : g[k] = Ahead(k)
  BY <1>1
<1> HIDE DEF g
<1>3. PICK q : Iterated(q, D, S, i, g)
  <2> HIDE DEF S
  <2>1. i \in S
    BY DEF S
  <2> QED BY <1>0, <1>2, <2>1, Iterates
<1>4. q \in [0 .. D -> S] /\ q[0] = i /\ \A x \in 1 .. D : q[x] = Ahead(q[x - 1])
  <2>1. q \in [0 .. D -> S] /\ q[0] = i /\ \A x \in 1 .. D : q[x] = g[q[x - 1]]
    BY <1>3 DEF Iterated
  <2>2. \A x \in 1 .. D : x - 1 \in 0 .. D
    BY <1>0
  <2> HIDE DEF S
  <2> QED BY <1>2, <2>1, <2>2
<1> DEFINE E(f) == f = [x \in 0 .. D |-> IF x = 0 THEN i ELSE Ahead(f[x - 1])]
<1>5. E(q)
  <2>1. \A x \in 0 .. D : q[x] = IF x = 0 THEN i ELSE Ahead(q[x - 1])
    <3> SUFFICES ASSUME NEW x \in 0 .. D PROVE q[x] = IF x = 0 THEN i ELSE Ahead(q[x - 1])
      OBVIOUS
    <3>1. x = 0 \/ x \in 1 .. D
      BY <1>0
    <3> QED BY <1>4, <3>1
  <2>2. q = [x \in 0 .. D |-> q[x]]
    BY <1>4
  <2> QED BY <2>1, <2>2
<1>6. ASSUME NEW f, E(f) PROVE f = q
  <2> DEFINE K == {x \in 0 .. D : f[x] = q[x]}
  <2>1. /\ f = [x \in 0 .. D |-> f[x]]
        /\ \A x \in 0 .. D : f[x] = IF x = 0 THEN i ELSE Ahead(f[x - 1])
    BY <1>6
  <2>2. 0 \in K
    <3>1. 0 \in 0 .. D
      BY <1>0
    <3> QED BY <1>4, <2>1, <3>1
  <2>3. ASSUME NEW x \in 0 .. D - 1, x \in K PROVE x + 1 \in K
    <3>1. x + 1 \in 1 .. D /\ x + 1 \in 0 .. D /\ x + 1 # 0 /\ (x + 1) - 1 = x
      BY <1>0
    <3>2. f[x + 1] = Ahead(f[x]) /\ q[x + 1] = Ahead(q[x]) /\ f[x] = q[x]
      BY <1>4, <2>1, <2>3, <3>1
    <3> QED BY <3>1, <3>2
  <2> HIDE DEF K
  <2>4. \A x \in 0 .. D : x \in K
    BY <1>0, <2>2, <2>3, UpTo
  <2>5. \A x \in 0 .. D : f[x] = q[x]
    BY <2>4 DEF K
  <2>6. q = [x \in 0 .. D |-> q[x]]
    BY <1>4
  <2> QED BY <2>1, <2>5, <2>6
<1>7. Path(nw, t, i, j) = q
  <2>1. Path(nw, t, i, j) = (CHOOSE f : E(f))
    BY DEF Path, Ahead, D
  <2> HIDE DEF E
  <2>2. (CHOOSE f : E(f)) = q
    BY <1>5, <1>6
  <2> QED BY <2>1, <2>2
<1> QED BY <1>4, <1>7 DEF Ahead, D

\* When every entry has its first hop, the table is as RoutesShortest says.
LEMMA DoneIsShortest ==
    ASSUME nw \in Nets, NEW t, RoutesOK(t), \A i, j \in nw.nodes : HopDone(t, i, j)
    PROVE  Shortest(nw, t)
<1> DEFINE D == Dimension(nw)
<1>0. D \in Nat \ {0}
  BY NodeFacts
<1>1. TableOK(t) /\ DistanceOK(t) /\ NextOK(t)
  BY DEF RoutesOK
<1>2. \A a, c \in nw.nodes : /\ t[a][c].cost \in Nat /\ t[a][c].cost <= D
                             /\ t[a][c].cost = 0 <=> a = c
  BY <1>1, DistanceFacts
<1> SUFFICES
      ASSUME NEW i \in nw.nodes, NEW j \in nw.nodes
      PROVE  /\ j \notin Reached(nw, i)[D] => t[i][j].next = Null /\ t[i][j].buffer = NoBuffer
             /\ j \in Reached(nw, i)[D] =>
                  /\ j \in Reached(nw, i)[t[i][j].cost]
                  /\ \A x \in 0 .. t[i][j].cost - 1 : j \notin Reached(nw, i)[x]
                  /\ Path(nw, t, i, j)[t[i][j].cost] = j
                  /\ i # j => /\ BufferNode(nw, t[i][j].buffer) = i
                              /\ Leads(nw, t[i][j].buffer, t[i][j].next)
  BY DEF Shortest, D
<1>3. PICK c : c = t[i][j].cost
  OBVIOUS
<1>4. c \in 0 .. D
  BY <1>0, <1>2, <1>3
<1>5. ASSUME j \notin Reached(nw, i)[D]
      PROVE  t[i][j].next = Null /\ t[i][j].buffer = NoBuffer
  <2>1. D \in 0 .. D
    BY <1>0
  <2>2. \A y \in 0 .. D : ~ WalkOf(i, j, y)
    BY <1>5, <2>1, ReachedIs DEF D
  <2>3. ~ (c < D)
    BY <1>1, <1>3, <1>4, <2>2 DEF DistanceOK, D
  <2>4. c = D
    BY <1>0, <1>4, <2>3
  <2>5. t[i][j].cost \in {0, Dimension(nw)}
    BY <1>3, <2>4 DEF D
  <2>6. t[i][j].cost \in {0, Dimension(nw)} => t[i][j].next = Null /\ t[i][j].buffer = NoBuffer
    BY <1>1 DEF NextOK
  <2> QED BY <2>5, <2>6
<1>6. ASSUME j \in Reached(nw, i)[D]
      PROVE  /\ c < D /\ j \in Reached(nw, i)[c]
             /\ \A x \in 0 .. c - 1 : j \notin Reached(nw, i)[x]
  <2>1. D \in 0 .. D
    BY <1>0
  <2>2. PICK y \in 0 .. D : WalkOf(i, j, y)
    BY <1>6, <2>1, ReachedIs DEF D
  <2>3. y \in Nat
    OBVIOUS
  <2>4. c < D
    BY <1>1, <1>3, <2>2, <2>3 DEF DistanceOK, D
  <2>5. WalkOf(i, j, c)
    BY <1>1, <1>3, <2>4 DEF DistanceOK, D
  <2>6. j \in Reached(nw, i)[c]
    <3>1. c \in 0 .. c
      BY <1>4
    <3> QED BY <1>4, <2>5, <3>1, ReachedIs DEF D
  <2>7. ASSUME NEW x \in 0 .. c - 1, j \in Reached(nw, i)[x] PROVE FALSE
    <3>1. x \in 0 .. D
      BY <1>0, <1>4
    <3>2. PICK z \in 0 .. x : WalkOf(i, j, z)
      BY <2>7, <3>1, ReachedIs DEF D
    <3>3. z \in Nat /\ z < c
      BY <1>4
    <3>4. c <= z
      BY <1>1, <1>3, <3>2, <3>3 DEF DistanceOK
    <3> QED BY <1>4, <3>3, <3>4
  <2> QED BY <2>4, <2>6, <2>7
<1>7. ASSUME c < D PROVE Path(nw, t, i, j)[c] = j
  <2>1. PICK p : p = Path(nw, t, i, j)
    OBVIOUS
  <2>2. /\ p[0] = i /\ p \in [0 .. D -> nw.nodes]
        /\ \A x \in 1 .. D : p[x] = IF p[x - 1] = j \/ t[p[x - 1]][j].next = Null THEN p[x - 1]
                                    ELSE t[p[x - 1]][j].next
    BY <1>1, <2>1, PathIs DEF D
  <2> DEFINE K == {x \in 0 .. c : t[p[x]][j].cost + x <= c}
  <2>3. 0 \in K
    <3>1. 0 \in 0 .. c /\ c + 0 = c /\ c <= c
      BY <1>4
    <3> QED BY <1>3, <2>2, <3>1
  <2>4. ASSUME NEW x \in 0 .. c - 1, x \in K PROVE x + 1 \in K
    <3>1. PICK k : k = p[x]
      OBVIOUS
    <3>2. x + 1 \in 1 .. D /\ (x + 1) - 1 = x /\ x \in 0 .. D /\ x + 1 \in 0 .. c
      BY <1>0, <1>4
    <3>3. /\ k \in nw.nodes /\ t[k][j].cost + x <= c
          /\ p[x + 1] = IF k = j \/ t[k][j].next = Null THEN k ELSE t[k][j].next
      BY <2>2, <2>4, <3>1, <3>2
    <3>4. CASE k = j
      <4>1. p[x + 1] = j /\ t[j][j].cost = 0
        BY <1>2, <3>3, <3>4
      <4>2. 0 + (x + 1) <= c
        BY <3>2
      <4> QED BY <3>2, <4>1, <4>2
    <3>5. CASE k # j
      <4>1. t[k][j].cost \in Nat /\ t[k][j].cost # 0 /\ t[k][j].cost <= c
        <5>1. t[k][j].cost \in Nat /\ t[k][j].cost # 0
          BY <1>2, <3>3, <3>5
        <5> QED BY <1>4, <3>3, <5>1
      <4>2. t[k][j].cost < D
        BY <1>0, <1>4, <1>7, <4>1
      <4>3. /\ t[k][j].next \in nw.nodes
            /\ t[t[k][j].next][j].cost + 1 <= t[k][j].cost
        BY <3>3, <3>5, <4>2 DEF HopDone, D
      <4>4. Null \notin nw.nodes
        BY NodeFacts
      <4>5. p[x + 1] = t[k][j].next /\ t[t[k][j].next][j].cost \in Nat
        BY <1>2, <3>3, <3>5, <4>3, <4>4
      <4>6. PICK d : d = t[t[k][j].next][j].cost
        OBVIOUS
      <4>7. d \in Nat /\ d + 1 <= t[k][j].cost
        BY <4>3, <4>5, <4>6
      <4>8. d + (x + 1) <= c
        BY <1>4, <3>3, <4>1, <4>7
      <4> QED BY <3>2, <4>5, <4>6, <4>8
    <3> QED BY <3>4, <3>5
  <2> HIDE DEF K
  <2>5. c \in K
    <3>1. c \in Nat /\ c \in 0 .. c
      BY <1>4
    <3> QED BY <2>3, <2>4, <3>1, UpTo
  <2>6. p[c] \in nw.nodes /\ t[p[c]][j].cost + c <= c
    BY <1>4, <2>2, <2>5 DEF K
  <2>7. t[p[c]][j].cost \in Nat
    BY <1>2, <2>6
  <2>8. t[p[c]][j].cost = 0
    BY <1>4, <2>6, <2>7
  <2>9. p[c] = j
    BY <1>2, <2>6, <2>8
  <2> QED BY <2>1, <2>9
<1>8. ASSUME c < D, i # j
      PROVE  /\ BufferNode(nw, t[i][j].buffer) = i
             /\ Leads(nw, t[i][j].buffer, t[i][j].next)
  <2>1. t[i][j].buffer \in Via(i, t[i][j].next)
    BY <1>3, <1>8 DEF HopDone, D
  <2> QED BY <2>1 DEF Via, OutBuffersOf
<1> QED BY <1>3, <1>5, <1>6, <1>7, <1>8

\* What packets of end nodes wait for is part of the searched graph.
LEMMA DependenciesAreEdges ==
    ASSUME nw \in Nets, NEW t, TableOK(t)
    PROVE  Dependencies(nw, t) \subseteq Edges(nw, t)
<1> DEFINE B(h) == <<t[h[1]][h[2]].buffer, t[t[h[1]][h[2]].next][h[2]].buffer>>
           Ends == {ij \in nw.ends \X nw.ends : ij[1] # ij[2]}
           Hops == UNION {{<<Path(nw, t, r[1], r[2])[x], r[2]>> : x \in 0 .. Dimension(nw)} :
                                r \in Ends}
           U(h) == /\ t[h[1]][h[2]].buffer # NoBuffer
                   /\ t[t[h[1]][h[2]].next][h[2]].buffer # NoBuffer
<1> SUFFICES ASSUME NEW h \in Hops, U(h) PROVE B(h) \in Edges(nw, t)
  BY DEF Dependencies
<1>1. PICK r \in Ends, x \in 0 .. Dimension(nw) : h = <<Path(nw, t, r[1], r[2])[x], r[2]>>
  OBVIOUS
<1>2. r[1] \in nw.nodes /\ r[2] \in nw.nodes
  <2>1. r \in nw.ends \X nw.ends
    OBVIOUS
  <2>2. nw.ends \subseteq nw.nodes
    BY NodeFacts
  <2> QED BY <2>1, <2>2
<1>3. Path(nw, t, r[1], r[2])[x] \in nw.nodes
  <2>1. PICK a \in nw.nodes, c \in nw.nodes : a = r[1] /\ c = r[2]
    BY <1>2
  <2>2. Path(nw, t, a, c) \in [0 .. Dimension(nw) -> nw.nodes]
    BY PathIs
  <2>3. Path(nw, t, a, c)[x] \in nw.nodes
    BY <2>2
  <2> QED BY <2>1, <2>3
<1>4. h \in nw.nodes \X nw.nodes
  BY <1>1, <1>2, <1>3
<1>5. h[1] # h[2]
  BY <1>4 DEF TableOK, NoEntry
<1>6. h \in {ij \in nw.nodes \X nw.nodes : ij[1] # ij[2] /\ U(ij)}
  BY <1>4, <1>5
<1> QED BY <1>6 DEF Edges
-----------------------------------------------------------------------------
(***************************************************************************)
(* The loops over all entries of the table.                                *)
(***************************************************************************)
LEMMA PairsAre ==
    ASSUME nw \in Nets
    PROVE  LET D == Dimension(nw)
           IN  /\ D * D \in Nat \ {0}
               /\ \A x \in 1 .. D * D : /\ Pairs(nw)[x][1] \in nw.nodes
                                        /\ Pairs(nw)[x][2] \in nw.nodes
               /\ \A i, j \in nw.nodes : \E x \in 1 .. D * D :
                        Pairs(nw)[x][1] = i /\ Pairs(nw)[x][2] = j
<1> DEFINE D == Dimension(nw)
<1>0. D \in Nat \ {0} /\ nw.nodes = 1 .. D
  BY NodeFacts
<1>1. \A x \in 1 .. D * D : Pairs(nw)[x] = <<((x - 1) \div D) + 1, ((x - 1) % D) + 1>>
  BY DEF Pairs
<1> HIDE DEF D
<1>2. D * D \in Nat \ {0}
  <2>1. 1 * D <= D * D
    BY <1>0, TimesMono
  <2> QED BY <1>0, <2>1
<1>3. ASSUME NEW x \in 1 .. D * D
      PROVE  Pairs(nw)[x][1] \in nw.nodes /\ Pairs(nw)[x][2] \in nw.nodes
  <2>1. PICK y : y = x - 1
    OBVIOUS
  <2>2. y \in 0 .. D * D - 1 /\ y \in Nat
    BY <1>2, <2>1
  <2>3. y \div D \in 0 .. D - 1
    BY <1>0, <2>2, DivSmall
  <2>4. y % D \in 0 .. D - 1
    BY <1>0, <2>2, DivMod
  <2>5. Pairs(nw)[x][1] = (y \div D) + 1 /\ Pairs(nw)[x][2] = (y % D) + 1
    BY <1>1, <2>1
  <2> QED BY <1>0, <2>3, <2>4, <2>5
<1>4. ASSUME NEW i \in nw.nodes, NEW j \in nw.nodes
      PROVE  \E x \in 1 .. D * D : Pairs(nw)[x][1] = i /\ Pairs(nw)[x][2] = j
  <2>1. PICK q \in 0 .. D - 1, r \in 0 .. D - 1 : i = q + 1 /\ j = r + 1
    <3>1. i - 1 \in 0 .. D - 1 /\ j - 1 \in 0 .. D - 1 /\ i = (i - 1) + 1 /\ j = (j - 1) + 1
      BY <1>0
    <3> QED BY <3>1
  <2>2. PICK y : y = q * D + r
    OBVIOUS
  <2>3. y \in 0 .. D * D - 1 /\ y \div D = q /\ y % D = r
    BY <1>0, <2>2, DivOf
  <2>4. y + 1 \in 1 .. D * D /\ (y + 1) - 1 = y
    BY <1>2, <2>3
  <2>5. Pairs(nw)[y + 1] = <<q + 1, r + 1>>
    BY <1>1, <2>3, <2>4
  <2> QED BY <2>1, <2>4, <2>5
<1> QED BY <1>2, <1>3, <1>4 DEF D
-----------------------------------------------------------------------------
(***************************************************************************)
(* One step of the search for a cycle.                                     *)
(***************************************************************************)
\* Nothing has been visited.
LEMMA NothingVisited ==
    ASSUME NEW G, NEW V
    PROVE  DfsInv(NoSearch, G, V)
<1> DEFINE d == NoSearch
           R == [vertex : V, todo : SUBSET V]
<1>1. d = [visited |-> {}, stack |-> <<>>] /\ d.visited = {} /\ d.stack = <<>>
  BY DEF NoSearch
<1>2. <<>> \in Seq(R) /\ Len(<<>>) = 0 /\ DOMAIN <<>> = {}
  <2> HIDE DEF R
  <2> QED OBVIOUS
<1> HIDE DEF d
<1>3. On(d) = {} /\ Left(d) = {}
  BY <1>1, <1>2 DEF On, Left, Verts
<1>4. StackOK(<<>>, G, V) /\ TodoOK(<<>>, G, {})
  BY <1>2 DEF StackOK, TodoOK
<1>5. LeftOK(G, {})
  BY DEF LeftOK, CyclicIn
<1> QED BY <1>1, <1>3, <1>4, <1>5 DEF DfsInv, d

\* A vertex is visited and pushed on the stack with what it leads to.
LEMMA VertexPushed ==
    ASSUME NEW V, NEW G, G \subseteq V \X V, NEW d, DfsInv(d, G, V),
           NEW v, v \notin d.visited, NEW z, Pushes(z, d.stack, v, G, V)
    PROVE  DfsInv([visited |-> d.visited \cup {v}, stack |-> z], G, V)
<1> DEFINE st == d.stack
           e == [visited |-> d.visited \cup {v}, stack |-> z]
<1>1. /\ d.visited \subseteq V /\ On(d) \subseteq d.visited
      /\ StackOK(st, G, V) /\ TodoOK(st, G, Left(d)) /\ LeftOK(G, Left(d))
  BY DEF DfsInv
<1>2. v \notin On(d) /\ v \notin Left(d)
  BY <1>1 DEF Left
<1>3. v \notin Verts(st)
  BY <1>2 DEF On
<1>4. StackOK(z, G, V) /\ TodoOK(z, G, Left(d)) /\ Verts(z) = Verts(st) \cup {v}
  BY <1>1, <1>2, <1>3, StackPushed
<1>5. e.visited = d.visited \cup {v} /\ e.stack = z /\ e = [visited |-> e.visited, stack |-> e.stack]
  OBVIOUS
<1> HIDE DEF e
<1>6. On(e) = On(d) \cup {v}
  BY <1>4, <1>5 DEF On
<1>7. Left(e) = Left(d)
  BY <1>1, <1>2, <1>5, <1>6 DEF Left
<1>9. v \in V
  BY DEF Pushes
<1>8. DfsInv(e, G, V)
  BY <1>1, <1>4, <1>5, <1>6, <1>7, <1>9 DEF DfsInv
<1> QED BY <1>8 DEF e

\* The top of the stack is left.
LEMMA TopLeft ==
    ASSUME NEW V, NEW G \in SUBSET (V \X V), NEW d, DfsInv(d, G, V), d.stack # <<>>,
           d.stack[Len(d.stack)].todo = {}
    PROVE  DfsInv([visited |-> d.visited, stack |-> Front(d.stack)], G, V)
<1> DEFINE st == d.stack
           q == Front(d.stack)
           v == st[Len(st)].vertex
           e == [visited |-> d.visited, stack |-> q]
<1>1. /\ d.visited \subseteq V /\ On(d) \subseteq d.visited
      /\ StackOK(st, G, V) /\ TodoOK(st, G, Left(d)) /\ LeftOK(G, Left(d))
  BY DEF DfsInv
<1>2. /\ StackOK(q, G, V) /\ TodoOK(q, G, Left(d) \cup {v}) /\ LeftOK(G, Left(d) \cup {v})
      /\ Verts(q) = Verts(st) \ {v} /\ v \in Verts(st)
  BY <1>1, StackPopped
<1> HIDE DEF q, v
<1>3. e.visited = d.visited /\ e.stack = q /\ e = [visited |-> e.visited, stack |-> e.stack]
  OBVIOUS
<1> HIDE DEF e
<1>4. On(e) = On(d) \ {v} /\ v \in On(d)
  BY <1>2, <1>3 DEF On
<1>5. Left(e) = Left(d) \cup {v}
  BY <1>1, <1>3, <1>4 DEF Left
<1>6. DfsInv(e, G, V)
  BY <1>1, <1>2, <1>3, <1>4, <1>5 DEF DfsInv
<1> QED BY <1>6 DEF e, q

\* The top of the stack does not go on to a vertex that has been left.
LEMMA VertexSkipped ==
    ASSUME NEW V, NEW G \in SUBSET (V \X V), NEW d, DfsInv(d, G, V), d.stack # <<>>,
           NEW v \in Left(d),
           NEW q, Takes(q, d.stack, v, V)
    PROVE  DfsInv([visited |-> d.visited, stack |-> q], G, V)
<1> DEFINE st == d.stack
           e == [visited |-> d.visited, stack |-> q]
<1>1. /\ d.visited \subseteq V /\ On(d) \subseteq d.visited
      /\ StackOK(st, G, V) /\ TodoOK(st, G, Left(d)) /\ LeftOK(G, Left(d))
  BY DEF DfsInv
<1>2. StackOK(q, G, V) /\ TodoOK(q, G, Left(d)) /\ Verts(q) = Verts(st)
  BY <1>1, StackSkipped
<1>3. e.visited = d.visited /\ e.stack = q /\ e = [visited |-> e.visited, stack |-> e.stack]
  OBVIOUS
<1> HIDE DEF e
<1>4. On(e) = On(d)
  BY <1>2, <1>3 DEF On
<1>5. Left(e) = Left(d)
  BY <1>3, <1>4 DEF Left
<1>6. DfsInv(e, G, V)
  BY <1>1, <1>2, <1>3, <1>4, <1>5 DEF DfsInv
<1> QED BY <1>6 DEF e

\* The outcome of one step of the search in the graph of the table.
SearchesOn(G, V) == phase' = "search" /\ warned' = warned /\ DfsInv(dfs', G, V)
SearchEnds(G) ==
    /\ phase' = "ready" /\ dfs' = NoSearch
    /\ \/ warned' = TRUE /\ Cyclic(G)
       \/ warned' = warned /\ \A H \in SUBSET G : ~ Cyclic(H)

\* A step of Search goes on, ends with the right answer, or fails.
LEMMA SearchStep ==
    ASSUME nw \in Nets, Search, DfsInv(dfs, Edges(nw, table), Vertices(nw, table))
    PROVE  /\ nw' = nw /\ table' = table /\ steps' = steps /\ walk' = walk
           /\ \/ SearchesOn(Edges(nw, table), Vertices(nw, table))
              \/ SearchEnds(Edges(nw, table))
              \/ phase' = "error" /\ warned' = warned /\ dfs' = dfs
<1> DEFINE G == Edges(nw, table)
           V == Vertices(nw, table)
           R == [vertex : V, todo : SUBSET V]
           st == dfs.stack
           n == Len(st)
<1>0. DfsInv(dfs, G, V)
  OBVIOUS
<1>1. /\ dfs = [visited |-> dfs.visited, stack |-> st]
      /\ dfs.visited \subseteq V /\ On(dfs) \subseteq dfs.visited
      /\ StackOK(st, G, V) /\ TodoOK(st, G, Left(dfs)) /\ LeftOK(G, Left(dfs))
      /\ st # <<>> => G \subseteq V \X V
  BY DEF DfsInv
<1>2. st \in Seq(R)
  BY <1>1 DEF StackOK
<1>3. V \in SUBSET OutBuffers(nw)
  BY DEF Vertices
<1>4. \A v : Successors(nw, table, v) = Following(G, v)
  BY DEF Successors, Following
<1>5. Stacked = On(dfs)
  BY DEF Stacked, On, Verts
<1>6. phase = "search" /\ nw' = nw /\ table' = table /\ steps' = steps /\ walk' = walk
  BY DEF Search
<1> SUFFICES \/ SearchesOn(G, V) \/ SearchEnds(G)
             \/ phase' = "error" /\ warned' = warned /\ dfs' = dfs
  BY <1>6
<1>7. ASSUME NEW e \in G PROVE e = <<e[1], e[2]>>
  <2>1. PICK a, c : e = <<a, c>>
    BY DEF Edges
  <2> QED BY <2>1
<1>8. CASE /\ st = <<>>
           /\ \E e \in G : ~ {e[1], e[2]} \subseteq V
           /\ Fail("no_vertex")
           /\ UNCHANGED <<dfs, warned>>
  BY <1>8 DEF Fail
<1>9. CASE /\ st = <<>>
           /\ \A e \in G : {e[1], e[2]} \subseteq V
           /\ LET left == V \ dfs.visited
              IN  IF left = {} THEN phase' = "ready" /\ dfs' = NoSearch
                  ELSE Visit(FirstBuffer(left)) /\ UNCHANGED phase
           /\ UNCHANGED <<warned, failed>>
  <2>1. G \subseteq V \X V
    <3> SUFFICES ASSUME NEW e \in G PROVE e \in V \X V
      OBVIOUS
    <3>1. e[1] \in V /\ e[2] \in V /\ e = <<e[1], e[2]>>
      BY <1>7, <1>9
    <3> HIDE DEF V, G
    <3> QED BY <3>1
  <2>2. On(dfs) = {} /\ Left(dfs) = dfs.visited
    BY <1>9 DEF On, Verts, Left
  <2>3. CASE V \ dfs.visited = {}
    <3>1. V \subseteq Left(dfs)
      BY <2>2, <2>3
    <3>2. ASSUME NEW H \in SUBSET G PROVE ~ Cyclic(H)
      <4> HIDE DEF G, V
      <4> QED BY <1>1, <2>1, <3>1, NoCycle
    <3>3. phase' = "ready" /\ dfs' = NoSearch /\ warned' = warned
      BY <1>9, <2>3
    <3> HIDE DEF G
    <3> QED BY <3>2, <3>3 DEF SearchEnds
  <2>4. CASE V \ dfs.visited # {}
    <3>1. PICK v : v = FirstBuffer(V \ dfs.visited)
      OBVIOUS
    <3>2. v \in V \ dfs.visited
      <4>1. V \ dfs.visited \in SUBSET OutBuffers(nw)
        BY <1>3
      <4> HIDE DEF V
      <4> QED BY <2>4, <3>1, <4>1, BufferChoice
    <3>3. Visit(v) /\ phase' = phase /\ warned' = warned
      BY <1>9, <2>4, <3>1
    <3>4. PICK z : z = Append(st, Item(v, Following(G, v)))
      OBVIOUS
    <3>5. dfs' = [visited |-> dfs.visited \cup {v}, stack |-> z]
      BY <1>4, <3>3, <3>4 DEF Visit, Item
    <3>6. Takes(st, st, v, V)
      BY <1>2, <1>9 DEF Takes
    <3>7. Pushes(z, st, v, G, V)
      BY <1>9, <3>2, <3>4, <3>6 DEF Pushes
    <3>8. DfsInv([visited |-> dfs.visited \cup {v}, stack |-> z], G, V)
      <4> HIDE DEF G, V
      <4> QED BY <1>0, <2>1, <3>2, <3>7, VertexPushed
    <3> QED BY <1>6, <3>3, <3>5, <3>8 DEF SearchesOn
  <2> QED BY <2>3, <2>4
<1>10. st # <<>> => /\ Last(st) = st[n] /\ n \in Nat \ {0} /\ n \in DOMAIN st /\ st[n] \in R
                    /\ DOMAIN st = 1 .. n
  <2> HIDE DEF R
  <2> QED BY <1>2 DEF Last
<1>11. CASE /\ st # <<>>
            /\ Last(st).todo = {}
            /\ dfs' = [dfs EXCEPT !.stack = Front(@)]
            /\ UNCHANGED <<phase, warned, failed>>
  <2>1. dfs' = [visited |-> dfs.visited, stack |-> Front(st)]
    BY <1>1, <1>11
  <2>2. st[n].todo = {} /\ G \in SUBSET (V \X V)
    BY <1>1, <1>10, <1>11
  <2>3. DfsInv([visited |-> dfs.visited, stack |-> Front(st)], G, V)
    <3> HIDE DEF G, V
    <3> QED BY <1>0, <1>11, <2>2, TopLeft
  <2> QED BY <1>6, <1>11, <2>1, <2>3 DEF SearchesOn
<1>12. CASE /\ st # <<>>
            /\ Last(st).todo # {}
            /\ LET v == FirstBuffer(Last(st).todo)
                   rest == [dfs EXCEPT !.stack[Len(st)].todo = @ \ {v}]
               IN  CASE v \in Stacked -> Found
                     [] v \in dfs.visited \ Stacked ->
                          dfs' = rest /\ UNCHANGED <<phase, warned>>
                     [] OTHER ->
                          /\ dfs' = [visited |-> dfs.visited \cup {v},
                                     stack |-> Append(rest.stack,
                                          [vertex |-> v,
                                           todo |-> Successors(nw, table, v)])]
                          /\ UNCHANGED <<phase, warned>>
            /\ UNCHANGED failed
  <2>1. PICK v : v = FirstBuffer(st[n].todo)
    OBVIOUS
  <2>2. st[n].todo \in SUBSET V /\ st[n].todo # {}
    BY <1>10, <1>12
  <2>3. v \in st[n].todo /\ v \in V
    <3>1. st[n].todo \in SUBSET OutBuffers(nw)
      BY <1>3, <2>2
    <3>2. FirstBuffer(st[n].todo) \in st[n].todo
      BY <2>2, <3>1, BufferChoice
    <3> QED BY <2>1, <2>2, <3>2
  <2>4. <<st[n].vertex, v>> \in G
    BY <1>1, <1>10, <1>12, <2>3 DEF StackOK
  <2>5. PICK r : r = [st EXCEPT ![n] = [st[n] EXCEPT !.todo = @ \ {v}]]
    OBVIOUS
  <2>6. [dfs EXCEPT !.stack[n].todo = @ \ {v}] = [visited |-> dfs.visited, stack |-> r]
    <3>1. [dfs EXCEPT !.stack[n].todo = @ \ {v}] =
            [dfs EXCEPT !.stack = [st EXCEPT ![n] = [st[n] EXCEPT !.todo = @ \ {v}]]]
      OBVIOUS
    <3>2. [dfs EXCEPT !.stack[n].todo = @ \ {v}] = [dfs EXCEPT !.stack = r]
      BY <2>5, <3>1
    <3>3. PICK d, w : dfs = d /\ d = [visited |-> w, stack |-> st] /\ w = dfs.visited
      BY <1>1
    <3>4. [d EXCEPT !.stack = r] = [visited |-> w, stack |-> r]
      BY <3>3
    <3> QED BY <3>2, <3>3, <3>4
  <2>7. Takes(r, st, v, V)
    <3>1. [st[n] EXCEPT !.todo = @ \ {v}] \in R
      BY <1>10, <1>12
    <3>2. r \in Seq(R) /\ Len(r) = n
      <4> HIDE DEF R
      <4> QED BY <1>2, <1>10, <1>12, <2>5, <3>1
    <3>3. r[n] = [st[n] EXCEPT !.todo = @ \ {v}] /\ \A i \in 1 .. n - 1 : r[i] = st[i]
      BY <1>10, <1>12, <2>5
    <3>4. r[n].vertex = st[n].vertex /\ r[n].todo = st[n].todo \ {v}
      BY <1>10, <1>12, <3>3
    <3>5. \A i \in 1 .. n : i = n \/ i \in 1 .. n - 1
      <4>1. n \in Nat
        BY <1>10, <1>12
      <4> HIDE DEF n
      <4> QED BY <4>1
    <3>6. \A i \in DOMAIN st : r[i].vertex = st[i].vertex
      BY <1>10, <1>12, <3>3, <3>4, <3>5
    <3> QED BY <3>2, <3>3, <3>4, <3>6 DEF Takes
  <2>8. CASE v \in On(dfs)
    <3>1. Found
      BY <1>5, <1>10, <1>12, <2>1, <2>8
    <3>2. PICK k \in DOMAIN st : st[k].vertex = v
      BY <2>8 DEF On, Verts
    <3>3. Cyclic(G)
      <4> HIDE DEF G, V
      <4> QED BY <1>1, <1>12, <2>3, <3>2, CycleOnStack
    <3> QED BY <3>1, <3>3 DEF Found, SearchEnds
  <2>9. CASE v \in dfs.visited \ On(dfs)
    <3>1. dfs' = [visited |-> dfs.visited, stack |-> r] /\ phase' = phase /\ warned' = warned
      BY <1>5, <1>10, <1>12, <2>1, <2>6, <2>9
    <3>2. v \in Left(dfs) /\ G \in SUBSET (V \X V)
      BY <1>1, <1>12, <2>9 DEF Left
    <3>3. DfsInv([visited |-> dfs.visited, stack |-> r], G, V)
      <4> HIDE DEF G, V
      <4> QED BY <1>0, <1>12, <2>7, <3>2, VertexSkipped
    <3> QED BY <1>6, <3>1, <3>3 DEF SearchesOn
  <2>10. CASE v \notin dfs.visited
    <3>1. PICK z : z = Append(r, Item(v, Following(G, v)))
      OBVIOUS
    <3>2. [dfs EXCEPT !.stack[n].todo = @ \ {v}].stack = r
      BY <2>6
    <3>3. v \notin On(dfs)
      BY <1>1, <2>10
    <3>4. dfs' = [visited |-> dfs.visited \cup {v}, stack |-> z] /\ phase' = phase /\ warned' = warned
      BY <1>4, <1>5, <1>10, <1>12, <2>1, <2>10, <3>1, <3>2, <3>3 DEF Item
    <3>5. Pushes(z, st, v, G, V)
      BY <2>3, <2>4, <2>7, <3>1 DEF Pushes
    <3>6. G \subseteq V \X V
      BY <1>1, <1>12
    <3>7. DfsInv([visited |-> dfs.visited \cup {v}, stack |-> z], G, V)
      <4> HIDE DEF G, V
      <4> QED BY <1>0, <2>10, <3>5, <3>6, VertexPushed
    <3> QED BY <1>6, <3>4, <3>7 DEF SearchesOn
  <2> QED BY <2>8, <2>9, <2>10
<1> QED BY <1>8, <1>9, <1>11, <1>12 DEF Search
-----------------------------------------------------------------------------
(***************************************************************************)
(* Route steps and the costs of routes that come from the configuration.   *)
(***************************************************************************)
RouteSteps == [from : nw.nodes, to : nw.nodes, next : nw.nodes, vc : Nat]

\* The buffer that a route step gives to an entry: an output buffer of a link, or
\* the input buffer of the next node on a bus.
LEMMA RouteBufferIs ==
    ASSUME nw \in Nets, NEW r \in RouteSteps, ~ RouteRefused(nw, r)
    PROVE  LET c == CHOOSE x \in Tried(nw, r) : \A d \in Tried(nw, r) : x <= d
               b == RouteBuffer(nw, r, c)
           IN  \/ b \in OutBuffers(nw)
               \/ b \in InBuffers(nw) /\ BufferNode(nw, b) = r.next
<1> DEFINE c == CHOOSE x \in Tried(nw, r) : \A d \in Tried(nw, r) : x <= d
           b == RouteBuffer(nw, r, c)
<1>1. /\ Tried(nw, r) # {}
      /\ nw.conns[c].link => ~ (r.vc >= Len(nw.conns[c].src))
      /\ ~ nw.conns[c].link => r.vc = 0
  BY DEF RouteRefused
<1>2. r.vc \in Nat
  BY DEF RouteSteps
<1>3. c \in Tried(nw, r)
  <2> DEFINE T == Tried(nw, r)
             f == [x \in T |-> x]
             R == [link : BOOLEAN, src : Seq(nw.nodes), dst : Seq(nw.nodes)]
  <2>1. nw.conns \in Seq(R)
    BY NetAssumption
  <2>2. DOMAIN nw.conns \subseteq Nat
    <3> HIDE DEF R
    <3> QED  BY <2>1
  <2>3. T \subseteq Nat
    BY <2>2 DEF Tried
  <2>4. T # {}
    BY <1>1
  <2> HIDE DEF T
  <2>5. f \in [T -> Nat] /\ \A x \in T : f[x] = x
    BY <2>3
  <2> HIDE DEF f
  <2>6. \E x \in T : \A y \in T : f[x] <= f[y]
    BY <2>4, <2>5, LeastExists
  <2>7. \E x \in T : \A y \in T : x <= y
    BY <2>5, <2>6
  <2> USE DEF T
  <2> QED  BY <2>7, Zenon
<1> HIDE DEF c
<1>5. /\ c \in DOMAIN nw.conns
      /\ r.next \in Range(nw.conns[c].dst) \/ (~ nw.conns[c].link /\ r.vc # 0)
  BY <1>3 DEF Tried
<1>6. /\ c \in Nat /\ nw.conns[c].src \in Seq(nw.nodes) /\ nw.conns[c].dst \in Seq(nw.nodes)
  <2> DEFINE R == [link : BOOLEAN, src : Seq(nw.nodes), dst : Seq(nw.nodes)]
  <2>1. nw.conns \in Seq(R)
    BY NetAssumption
  <2>2. nw.conns[c] \in R /\ c \in Nat
    <3> HIDE DEF R
    <3> QED  BY <1>5, <2>1
  <2> QED  BY <2>2
<1>7. CASE nw.conns[c].link
  <2>1. b = <<"out", c, r.vc + 1>>
    BY <1>7 DEF RouteBuffer
  <2>2. r.vc + 1 \in DOMAIN nw.conns[c].src
    BY <1>1, <1>2, <1>6, <1>7
  <2>3. <<"out", c, r.vc + 1>> \in {<<"out", c, k>> : k \in DOMAIN nw.conns[c].src}
    BY <2>2, Zenon
  <2>4. b \in OutBuffers(nw)
    BY <1>5, <2>1, <2>3, Zenon DEF OutBuffers
  <2> QED  BY <2>4 DEF c
<1>8. CASE ~ nw.conns[c].link
  <2> DEFINE ds == {x \in InBuffers(nw) : x[2] = c /\ BufferNode(nw, x) = r.next}
  <2>1. b = FirstBuffer(ds)
    BY <1>8 DEF RouteBuffer
  <2>2. PICK k \in DOMAIN nw.conns[c].dst : r.next = nw.conns[c].dst[k]
    BY <1>1, <1>5, <1>8 DEF Range
  <2>3. <<"in", c, k>> \in {<<"in", c, l>> : l \in DOMAIN nw.conns[c].dst}
    BY <2>2, Zenon
  <2>4. <<"in", c, k>> \in InBuffers(nw)
    BY <1>5, <2>3, Zenon DEF InBuffers
  <2>5. BufferNode(nw, <<"in", c, k>>) = nw.conns[c].dst[k]
    BY DEF BufferNode, Conn
  <2>6. <<"in", c, k>> \in ds
    BY <2>2, <2>4, <2>5
  <2>7. ds \in SUBSET InBuffers(nw) /\ ds # {}
    BY <2>6
  <2>8. FirstBuffer(ds) \in ds
    <3> HIDE DEF ds
    <3> QED  BY <2>7, BufferChoice
  <2>9. b \in InBuffers(nw) /\ BufferNode(nw, b) = r.next
    BY <2>1, <2>8
  <2> QED  BY <2>9 DEF c
<1> QED  BY <1>7, <1>8

\* A manual route step keeps the type of the table.
LEMMA RoutedOK ==
    ASSUME nw \in Nets, NEW t, TableOK(t),
           NEW r \in RouteSteps, ~ RouteRefused(nw, r)
    PROVE  TableOK(Routed(nw, t, r))
<1> DEFINE c == CHOOSE x \in Tried(nw, r) : \A d \in Tried(nw, r) : x <= d
<1>1. PICK b : b = RouteBuffer(nw, r, c)
  OBVIOUS
<1>2. b \in OutBuffers(nw) \cup InBuffers(nw)
  BY <1>1, RouteBufferIs
<1>3. PICK i \in nw.nodes, j \in nw.nodes, h \in nw.nodes : i = r.from /\ j = r.to /\ h = r.next
  BY DEF RouteSteps
<1>4. i # j
  BY <1>3 DEF RouteRefused
<1>5. Routed(nw, t, r) = [t EXCEPT ![i][j].next = h, ![i][j].buffer = b]
  BY <1>1, <1>3 DEF Routed
<1> HIDE DEF c
<1>6. PICK e : e = t[i][j]
  OBVIOUS
<1>7. PICK k, x, a : k \in Nat /\ e = [cost |-> k, next |-> x, buffer |-> a]
  <2>1. e.cost \in Nat /\ e = [cost |-> e.cost, next |-> e.next, buffer |-> e.buffer]
    BY <1>6, EntryIs
  <2> QED BY <2>1
<1>8. [e EXCEPT !.next = h, !.buffer = b] = [cost |-> k, next |-> h, buffer |-> b]
  <2>1. [e EXCEPT !.next = h, !.buffer = b] = [[e EXCEPT !.next = h] EXCEPT !.buffer = b]
    OBVIOUS
  <2>2. [e EXCEPT !.next = h] = [cost |-> k, next |-> h, buffer |-> a]
    BY <1>7
  <2>3. [[cost |-> k, next |-> h, buffer |-> a] EXCEPT !.buffer = b]
            = [cost |-> k, next |-> h, buffer |-> b]
    OBVIOUS
  <2> QED BY <2>1, <2>2, <2>3
<1>9. Routed(nw, t, r) = [t EXCEPT ![i][j] = [e EXCEPT !.next = h, !.buffer = b]]
  <2>1. [t EXCEPT ![i][j].next = h, ![i][j].buffer = b]
            = [t EXCEPT ![i][j] = [t[i][j] EXCEPT !.next = h, !.buffer = b]]
    OBVIOUS
  <2> QED BY <1>5, <1>6, <2>1
<1>10. PICK g : g = [cost |-> k, next |-> h, buffer |-> b]
  OBVIOUS
<1>11. g \in Entries /\ (i = j => g = NoEntry)
  BY <1>2, <1>4, <1>7, <1>10 DEF Entries
<1>12. Replaces(Routed(nw, t, r), t, i, j, g)
  BY <1>8, <1>9, <1>10 DEF Replaces
<1> QED BY <1>11, <1>12, NewEntry

\* The cost of a route between two nodes is set.
LEMMA CostSetOK ==
    ASSUME nw \in Nets, NEW t, TableOK(t), NEW i \in nw.nodes, NEW j \in nw.nodes, i # j,
           NEW x \in Nat
    PROVE  TableOK([t EXCEPT ![i][j].cost = x])
<1>1. PICK u : u = [t EXCEPT ![i][j].cost = x]
  OBVIOUS
<1>2. PICK e : e = t[i][j]
  OBVIOUS
<1>3. /\ e = [cost |-> e.cost, next |-> e.next, buffer |-> e.buffer]
      /\ e.next \in nw.nodes \cup {Null}
      /\ e.buffer \in OutBuffers(nw) \cup InBuffers(nw) \cup {NoBuffer}
  BY <1>2, EntryIs
<1>4. PICK g : g = [cost |-> x, next |-> e.next, buffer |-> e.buffer]
  OBVIOUS
<1>5. [e EXCEPT !.cost = x] = g
  <2>1. PICK c, y, b : c = e.cost /\ y = e.next /\ b = e.buffer
    OBVIOUS
  <2>2. e = [cost |-> c, next |-> y, buffer |-> b] /\ g = [cost |-> x, next |-> y, buffer |-> b]
    BY <1>3, <1>4, <2>1
  <2>3. [[cost |-> c, next |-> y, buffer |-> b] EXCEPT !.cost = x]
            = [cost |-> x, next |-> y, buffer |-> b]
    OBVIOUS
  <2> QED BY <2>2, <2>3
<1>6. u = [t EXCEPT ![i][j] = [e EXCEPT !.cost = x]]
  BY <1>1, <1>2
<1>7. Replaces(u, t, i, j, g)
  BY <1>5, <1>6 DEF Replaces
<1>8. g \in Entries /\ (i = j => g = NoEntry)
  BY <1>3, <1>4 DEF Entries
<1>9. TableOK(u)
  BY <1>7, <1>8, NewEntry
<1> QED BY <1>1, <1>9
-----------------------------------------------------------------------------
(***************************************************************************)
(* What holds at every point of the configuration.                         *)
(***************************************************************************)
StartOK ==
    /\ walk = [at |-> walk.at, next |-> Null] /\ walk.at \in 1 .. Dimension(nw)
    /\ nw.manual => walk.at = 1
    /\ ~ nw.manual => CostOK(table, walk.at - 1) /\ NextOK(table)

HopsOK ==
    /\ walk = [at |-> walk.at, next |-> Null]
    /\ walk.at \in 1 .. Dimension(nw) * Dimension(nw) /\ ~ nw.manual
    /\ RoutesOK(table)
    /\ \A x \in 1 .. walk.at - 1 : HopDone(table, Pairs(nw)[x][1], Pairs(nw)[x][2])

CostsOK ==
    /\ walk = [at |-> walk.at, next |-> walk.next] /\ nw.manual
    /\ walk.at \in 1 .. Dimension(nw) * Dimension(nw)
    /\ walk.next \in nw.nodes \cup {Null}
    /\ walk.next # Null => Source # Destination

Complete(t) == RoutesOK(t) /\ \A i, j \in nw.nodes : HopDone(t, i, j)

RoutesInv ==
    /\ nw \in Nets /\ phase \in {"start", "hops", "cost", "search", "ready", "error"}
    /\ steps \in Seq(RouteSteps) /\ TableOK(table)
    /\ phase \in {"start", "hops", "cost"} => dfs = NoSearch
    /\ phase \notin {"ready", "error"} => warned = FALSE
    /\ phase = "start" => StartOK
    /\ phase = "hops" => HopsOK
    /\ phase = "cost" => CostsOK
    /\ phase = "search" => DfsInv(dfs, Edges(nw, table), Vertices(nw, table))
    /\ phase \in {"search", "ready"} => nw.manual \/ Complete(table)

\* What is said of a table depends on the network only.
LEMMA SameRoutes ==
    ASSUME nw' = nw
    PROVE  /\ RouteSteps' = RouteSteps
           /\ \A t : TableOK(t)' <=> TableOK(t)
           /\ \A t, k : CostOK(t, k)' <=> CostOK(t, k)
           /\ \A t : NextOK(t)' <=> NextOK(t)
           /\ \A t : RoutesOK(t)' <=> RoutesOK(t)
           /\ \A t, i, j : HopDone(t, i, j)' <=> HopDone(t, i, j)
           /\ \A t : Complete(t)' <=> Complete(t)
<1>1. RouteSteps' = RouteSteps
  BY DEF RouteSteps
<1>2. ASSUME NEW t PROVE TableOK(t)' <=> TableOK(t)
  BY DEF TableOK, Entries
<1>3. ASSUME NEW i, NEW j PROVE Via(i, j)' = Via(i, j)
  BY DEF Via
<1>4. ASSUME NEW i, NEW j PROVE Hop(i, j)' <=> Hop(i, j)
  BY <1>3 DEF Hop
<1>5. ASSUME NEW p, NEW x PROVE IsWalk(p, x)' <=> IsWalk(p, x)
  BY <1>4 DEF IsWalk
<1>6. ASSUME NEW i, NEW j, NEW x PROVE WalkOf(i, j, x)' <=> WalkOf(i, j, x)
  BY <1>5 DEF WalkOf
<1>7. ASSUME NEW i, NEW j, NEW x, NEW k PROVE WalkWithin(i, j, x, k)' <=> WalkWithin(i, j, x, k)
  BY <1>5 DEF WalkWithin
<1>8. ASSUME NEW t, NEW k PROVE CostOK(t, k)' <=> CostOK(t, k)
  BY <1>6, <1>7 DEF CostOK
<1>9. ASSUME NEW t PROVE NextOK(t)' <=> NextOK(t)
  BY DEF NextOK
<1>10. ASSUME NEW t PROVE DistanceOK(t)' <=> DistanceOK(t)
  BY <1>6 DEF DistanceOK
<1>11. ASSUME NEW t PROVE RoutesOK(t)' <=> RoutesOK(t)
  BY <1>2, <1>9, <1>10 DEF RoutesOK
<1>12. ASSUME NEW t, NEW i, NEW j PROVE HopDone(t, i, j)' <=> HopDone(t, i, j)
  BY <1>3, <1>4 DEF HopDone
<1>13. ASSUME NEW t PROVE Complete(t)' <=> Complete(t)
  BY <1>11, <1>12 DEF Complete
<1> QED BY <1>1, <1>2, <1>8, <1>9, <1>11, <1>12, <1>13

\* The new state satisfies the invariant when its parts hold of the new values.
LEMMA RoutesNext ==
    ASSUME RoutesInv, nw' = nw,
           phase' \in {"start", "hops", "cost", "search", "ready", "error"},
           steps' \in Seq(RouteSteps), TableOK(table'),
           phase' \in {"start", "hops", "cost"} => dfs' = NoSearch,
           phase' \notin {"ready", "error"} => warned' = FALSE,
           phase' = "start" => StartOK', phase' = "hops" => HopsOK', phase' = "cost" => CostsOK',
           phase' = "search" => DfsInv(dfs', Edges(nw, table'), Vertices(nw, table')),
           phase' \in {"search", "ready"} => nw.manual \/ Complete(table')
    PROVE  RoutesInv'
<1>1. nw' \in Nets
  BY DEF RoutesInv
<1>2. steps' \in Seq(RouteSteps') /\ TableOK(table)'
  BY SameRoutes
<1>3. phase' = "search" => DfsInv(dfs', Edges(nw', table'), Vertices(nw', table'))
  OBVIOUS
<1>4. phase' \in {"search", "ready"} => nw'.manual \/ Complete(table)'
  BY SameRoutes
<1> QED BY <1>1, <1>2, <1>3, <1>4 DEF RoutesInv

\* Nothing of the configuration changes, unless a handler panics.
SameOrError ==
    /\ UNCHANGED <<nw, table, steps, walk, dfs, warned>>
    /\ \/ phase' = phase
       \/ phase = "ready" /\ phase' = "error"

LEMMA RoutesIdle ==
    ASSUME RoutesInv, SameOrError
    PROVE  RoutesInv'
<1>1. /\ nw' = nw /\ table' = table /\ steps' = steps /\ walk' = walk /\ dfs' = dfs
      /\ warned' = warned
      /\ \/ phase' = phase
         \/ phase = "ready" /\ phase' = "error"
  BY DEF SameOrError
<1>2. StartOK' <=> StartOK
  <2>1. CostOK(table, walk.at - 1)' <=> CostOK(table, walk.at - 1)
    BY <1>1, SameRoutes
  <2>2. NextOK(table)' <=> NextOK(table)
    BY <1>1, SameRoutes
  <2> QED BY <1>1, <2>1, <2>2 DEF StartOK
<1>3. HopsOK' <=> HopsOK
  <2>1. RoutesOK(table)' <=> RoutesOK(table)
    BY <1>1, SameRoutes
  <2>2. \A i, j : HopDone(table, i, j)' <=> HopDone(table, i, j)
    BY <1>1, SameRoutes
  <2> QED BY <1>1, <2>1, <2>2 DEF HopsOK
<1>4. CostsOK' <=> CostsOK
  BY <1>1 DEF CostsOK, Source, Destination
<1> QED BY <1>1, <1>2, <1>3, <1>4, RoutesNext DEF RoutesInv

\* RoutesInv holds in the beginning.
LEMMA InitialRoutes ==
    ASSUME RoutingInit
    PROVE  RoutesInv
<1>1. /\ nw \in Nets /\ phase = "start" /\ table = InitialTable(nw) /\ steps = nw.steps
      /\ walk = NoWalk /\ dfs = NoSearch /\ warned = FALSE
  BY DEF RoutingInit
<1>2. TableOK(table) /\ CostOK(table, 0) /\ NextOK(table)
  BY <1>1, InitialTableOK, InitialCosts
<1>3. steps \in Seq(RouteSteps)
  BY <1>1, NodeFacts DEF RouteSteps
<1>4. StartOK
  <2>1. walk.at = 1 /\ walk.at - 1 = 0 /\ walk = [at |-> walk.at, next |-> Null]
    BY <1>1 DEF NoWalk
  <2>2. Dimension(nw) \in Nat \ {0}
    BY <1>1, NodeFacts
  <2>3. CostOK(table, walk.at - 1)
    BY <1>2, <2>1
  <2> QED BY <1>2, <2>1, <2>2, <2>3 DEF StartOK
<1> QED BY <1>1, <1>2, <1>3, <1>4 DEF RoutesInv

\* A round of Floyd-Warshall keeps RoutesInv.
LEMMA CostsStep ==
    ASSUME RoutesInv, FloydWarshallCosts
    PROVE  RoutesInv'
<1> DEFINE D == Dimension(nw)
<1>1. /\ nw \in Nets /\ phase = "start" /\ ~ nw.manual
      /\ nw' = nw /\ steps' = steps /\ dfs' = dfs /\ warned' = warned
      /\ table' = RelaxAll(nw, table, walk.at)
      /\ walk.at = D => phase' = "hops" /\ walk' = NoWalk
      /\ walk.at # D => walk' = [walk EXCEPT !.at = @ + 1] /\ phase' = phase
  BY DEF FloydWarshallCosts, RoutesInv
<1>2. /\ TableOK(table) /\ StartOK /\ steps \in Seq(RouteSteps) /\ dfs = NoSearch
      /\ warned = FALSE
  BY <1>1 DEF RoutesInv
<1>3. PICK k : k = walk.at - 1
  OBVIOUS
<1>4. /\ D \in Nat \ {0} /\ k \in 0 .. D - 1 /\ walk.at = k + 1 /\ walk.at \in nw.nodes
      /\ walk = [at |-> k + 1, next |-> Null]
  <2>1. D \in Nat \ {0} /\ nw.nodes = 1 .. D
    BY <1>1, NodeFacts
  <2>2. walk = [at |-> walk.at, next |-> Null] /\ walk.at \in 1 .. D
    BY <1>2 DEF StartOK
  <2> HIDE DEF D
  <2> QED BY <1>3, <2>1, <2>2
<1>5. CostOK(table, k) /\ NextOK(table)
  BY <1>1, <1>2, <1>3 DEF StartOK
<1>6. TableOK(table')
  BY <1>1, <1>2, <1>4, RelaxedOK
<1>7. CostOK(table', k + 1) /\ NextOK(table')
  BY <1>1, <1>2, <1>4, <1>5, RelaxCosts
<1>8. CASE walk.at = D
  <2>1. CostOK(table', D)
    BY <1>4, <1>7, <1>8
  <2>2. RoutesOK(table')
    BY <1>1, <1>6, <1>7, <2>1, CostsExact DEF RoutesOK
  <2>3. phase' = "hops" /\ walk' = [at |-> 1, next |-> Null]
    BY <1>1, <1>8 DEF NoWalk
  <2>4. D * D \in Nat \ {0}
    BY <1>1, PairsAre
  <2>5. HopsOK'
    <3>1. RoutesOK(table)'
      BY <1>1, <2>2, SameRoutes
    <3>2. walk'.at = 1 /\ walk' = [at |-> walk'.at, next |-> Null] /\ 1 .. walk'.at - 1 = {}
      BY <2>3
    <3>3. walk'.at \in 1 .. Dimension(nw)' * Dimension(nw)'
      <4>1. Dimension(nw)' = D
        BY <1>1
      <4> HIDE DEF D
      <4> QED BY <2>4, <3>2, <4>1
    <3> QED BY <1>1, <3>1, <3>2, <3>3 DEF HopsOK
  <2> QED BY <1>1, <1>2, <1>6, <2>3, <2>5, RoutesNext
<1>9. CASE walk.at # D
  <2>1. walk' = [at |-> k + 2, next |-> Null] /\ phase' = "start"
    BY <1>1, <1>4, <1>9
  <2>2. k + 2 \in 1 .. D /\ (k + 2) - 1 = k + 1
    <3> HIDE DEF D
    <3> QED BY <1>4, <1>9
  <2>3. StartOK'
    <3>1. walk'.at = k + 2 /\ walk' = [at |-> walk'.at, next |-> Null]
      BY <2>1
    <3>2. walk'.at - 1 = k + 1 /\ walk'.at \in 1 .. Dimension(nw)'
      BY <1>1, <2>2, <3>1
    <3>3. CostOK(table, walk.at - 1)'
      BY <1>1, <1>7, <3>2, SameRoutes
    <3>4. NextOK(table)'
      BY <1>1, <1>7, SameRoutes
    <3> QED BY <1>1, <3>1, <3>2, <3>3, <3>4 DEF StartOK
  <2> QED BY <1>1, <1>2, <1>6, <2>1, <2>3, RoutesNext
<1> QED BY <1>8, <1>9

\* One first hop; the last one completes the table.
LEMMA HopsStep ==
    ASSUME RoutesInv, FloydWarshallHops
    PROVE  RoutesInv' /\ (phase' = "search" => Complete(table'))
<1> DEFINE D == Dimension(nw)
           X(t, x) == HopDone(t, Pairs(nw)[x][1], Pairs(nw)[x][2])
<1>1. /\ nw \in Nets /\ phase = "hops"
      /\ nw' = nw /\ steps' = steps /\ dfs' = dfs /\ warned' = warned
      /\ table' = SetHop(nw, table, Source, Destination)
      /\ walk.at = D * D => phase' = "search" /\ walk' = NoWalk
      /\ walk.at # D * D => walk' = [at |-> walk.at + 1, next |-> Null] /\ phase' = phase
  BY DEF FloydWarshallHops, NextEntry, RoutesInv
<1>2. /\ TableOK(table) /\ HopsOK /\ steps \in Seq(RouteSteps) /\ dfs = NoSearch
      /\ warned = FALSE
  BY <1>1 DEF RoutesInv
<1>3. PICK k : k = walk.at
  OBVIOUS
<1>4. PICK i \in nw.nodes, j \in nw.nodes : i = Pairs(nw)[k][1] /\ j = Pairs(nw)[k][2]
  BY <1>1, <1>2, <1>3, PairsAre DEF HopsOK
<1>5. /\ D * D \in Nat \ {0} /\ k \in 1 .. D * D /\ ~ nw.manual /\ RoutesOK(table)
      /\ \A x \in 1 .. k - 1 : X(table, x)
  BY <1>1, <1>2, <1>3, PairsAre DEF HopsOK
<1>6. table' = SetHop(nw, table, i, j)
  BY <1>1, <1>3, <1>4 DEF Source, Destination
<1>7. /\ RoutesOK(table') /\ HopDone(table', i, j)
      /\ \A a, c \in nw.nodes : HopDone(table, a, c) => HopDone(table', a, c)
  BY <1>1, <1>5, <1>6, HopStep
<1>8. \A x \in 1 .. k : X(table', x)
  <2> SUFFICES ASSUME NEW x \in 1 .. k PROVE X(table', x)
    OBVIOUS
  <2>1. x = k \/ x \in 1 .. k - 1
    <3>1. k \in Nat
      BY <1>5
    <3> QED BY <3>1
  <2>2. CASE x = k
    BY <1>4, <1>7, <2>2
  <2>3. CASE x \in 1 .. k - 1
    <3>1. Pairs(nw)[x][1] \in nw.nodes /\ Pairs(nw)[x][2] \in nw.nodes
      <4>1. x \in 1 .. D * D
        <5> HIDE DEF D
        <5> QED BY <1>5
      <4> QED BY <1>1, <4>1, PairsAre
    <3>2. X(table, x)
      BY <1>5, <2>3
    <3> QED BY <1>7, <3>1, <3>2
  <2> QED BY <2>1, <2>2, <2>3
<1>9. TableOK(table')
  BY <1>7 DEF RoutesOK
<1>10. CASE k = D * D
  <2>1. \A a, c \in nw.nodes : HopDone(table', a, c)
    <3> SUFFICES ASSUME NEW a \in nw.nodes, NEW c \in nw.nodes PROVE HopDone(table', a, c)
      OBVIOUS
    <3>1. PICK x \in 1 .. D * D : Pairs(nw)[x][1] = a /\ Pairs(nw)[x][2] = c
      BY <1>1, PairsAre
    <3>2. X(table', x)
      BY <1>8, <1>10
    <3> QED BY <3>1, <3>2
  <2>2. Complete(table')
    BY <1>7, <2>1 DEF Complete
  <2>3. phase' = "search" /\ dfs' = NoSearch
    BY <1>1, <1>2, <1>3, <1>10
  <2>4. DfsInv(dfs', Edges(nw, table'), Vertices(nw, table'))
    BY <2>3, NothingVisited
  <2> QED BY <1>1, <1>2, <1>9, <2>2, <2>3, <2>4, RoutesNext
<1>11. CASE k # D * D
  <2>1. phase' = "hops" /\ walk' = [at |-> k + 1, next |-> Null]
    BY <1>1, <1>3, <1>11
  <2>2. k + 1 \in 1 .. D * D /\ (k + 1) - 1 = k
    <3>1. PICK d : d = D * D
      OBVIOUS
    <3> HIDE DEF D
    <3>2. d \in Nat /\ k \in 1 .. d /\ k # d
      BY <1>5, <1>11, <3>1
    <3>3. k + 1 \in 1 .. d /\ (k + 1) - 1 = k
      BY <3>2
    <3> QED BY <3>1, <3>3
  <2>3. HopsOK'
    <3>1. walk'.at = k + 1 /\ walk' = [at |-> walk'.at, next |-> Null] /\ walk'.at - 1 = k
      BY <2>1, <2>2
    <3>2. walk'.at \in 1 .. Dimension(nw)' * Dimension(nw)'
      BY <1>1, <2>2, <3>1
    <3>3. RoutesOK(table)'
      BY <1>1, <1>7, SameRoutes
    <3>4. \A x \in 1 .. k : HopDone(table, Pairs(nw)[x][1], Pairs(nw)[x][2])'
      <4> SUFFICES ASSUME NEW x \in 1 .. k
                   PROVE  HopDone(table, Pairs(nw)[x][1], Pairs(nw)[x][2])'
        OBVIOUS
      <4>1. X(table', x)
        BY <1>8
      <4>2. Pairs(nw)' = Pairs(nw)
        BY <1>1
      <4> QED BY <1>1, <4>1, <4>2, SameRoutes
    <3> QED BY <1>1, <1>5, <3>1, <3>2, <3>3, <3>4 DEF HopsOK
  <2> QED BY <1>1, <1>2, <1>9, <2>1, <2>3, RoutesNext
<1> QED BY <1>10, <1>11

\* A manual route step keeps RoutesInv.
LEMMA RouteStepStep ==
    ASSUME RoutesInv, UpdateRoute
    PROVE  RoutesInv'
<1>1. /\ nw \in Nets /\ phase = "start" /\ nw.manual /\ steps # <<>> /\ steps' = Tail(steps)
      /\ nw' = nw /\ walk' = walk /\ dfs' = dfs /\ warned' = warned
      /\ \/ phase' = "error" /\ table' = table
         \/ /\ ~ RouteRefused(nw, Head(steps)) /\ table' = Routed(nw, table, Head(steps))
            /\ phase' = phase
  BY DEF UpdateRoute, Fail, RoutesInv
<1>2. /\ TableOK(table) /\ StartOK /\ steps \in Seq(RouteSteps) /\ dfs = NoSearch
      /\ warned = FALSE
  BY <1>1 DEF RoutesInv
<1>3. Head(steps) \in RouteSteps /\ Tail(steps) \in Seq(RouteSteps)
  BY <1>1, <1>2
<1>4. ~ RouteRefused(nw, Head(steps)) => TableOK(Routed(nw, table, Head(steps)))
  BY <1>1, <1>2, <1>3, RoutedOK
<1>5. TableOK(table')
  BY <1>1, <1>2, <1>4
<1>6. StartOK'
  BY <1>1, <1>2 DEF StartOK
<1> QED BY <1>1, <1>2, <1>3, <1>5, <1>6, RoutesNext

\* The costs of manual routes are computed from the first entry on.
LEMMA CostStartStep ==
    ASSUME RoutesInv, CostStart
    PROVE  RoutesInv'
<1>1. /\ nw \in Nets /\ phase = "start" /\ nw.manual /\ phase' = "cost"
      /\ nw' = nw /\ table' = table /\ steps' = steps /\ walk' = walk /\ dfs' = dfs
      /\ warned' = warned
  BY DEF CostStart, RoutesInv
<1>2. /\ TableOK(table) /\ StartOK /\ steps \in Seq(RouteSteps) /\ dfs = NoSearch
      /\ warned = FALSE
  BY <1>1 DEF RoutesInv
<1>3. walk = [at |-> 1, next |-> Null]
  BY <1>1, <1>2 DEF StartOK
<1>4. CostsOK'
  <2>1. walk'.at = 1 /\ walk'.next = Null /\ walk' = [at |-> walk'.at, next |-> walk'.next]
    BY <1>1, <1>3
  <2>2. 1 \in 1 .. Dimension(nw)' * Dimension(nw)'
    <3>1. PICK d : d = Dimension(nw) * Dimension(nw)
      OBVIOUS
    <3>2. d \in Nat \ {0}
      BY <1>1, <3>1, PairsAre
    <3>3. 1 \in 1 .. d
      BY <3>2
    <3> QED BY <1>1, <3>1, <3>3
  <2> QED BY <1>1, <2>1, <2>2 DEF CostsOK
<1> QED BY <1>1, <1>2, <1>4, RoutesNext

\* The cost of a route grows hop by hop.
LEMMA CostStep ==
    ASSUME RoutesInv, UpdateCost
    PROVE  RoutesInv'
<1> DEFINE D == Dimension(nw)
<1>1. PICK i, j, first, onward :
        /\ i = Source /\ j = Destination
        /\ first = table[i][j].next /\ onward = table[walk.next][j].next
  OBVIOUS
<1>2. /\ nw \in Nets /\ phase = "cost" /\ nw' = nw /\ steps' = steps /\ dfs' = dfs
      /\ warned' = warned
  BY DEF UpdateCost, RoutesInv
<1>3. /\ TableOK(table) /\ CostsOK /\ steps \in Seq(RouteSteps) /\ dfs = NoSearch
      /\ warned = FALSE
  BY <1>2 DEF RoutesInv
<1>4. \/ /\ NextEntry /\ table' = table
      \/ /\ walk.next = Null /\ first # Null
         /\ table' = [table EXCEPT ![i][j].cost = table[i][first].cost]
         /\ walk' = [walk EXCEPT !.next = first]
         /\ phase' = phase
      \/ /\ walk.next # Null /\ walk.next # j /\ onward # Null
         /\ table' = [table EXCEPT ![i][j].cost = @ + table[walk.next][onward].cost]
         /\ walk' = [walk EXCEPT !.next = onward]
         /\ phase' = phase
  BY <1>1 DEF UpdateCost
<1>5. /\ walk = [at |-> walk.at, next |-> walk.next] /\ nw.manual
      /\ walk.at \in 1 .. D * D /\ walk.next \in nw.nodes \cup {Null}
      /\ walk.next # Null => i # j
  BY <1>1, <1>3 DEF CostsOK
<1>6. i \in nw.nodes /\ j \in nw.nodes
  BY <1>1, <1>2, <1>5, PairsAre DEF Source, Destination
<1>7. CASE NextEntry /\ table' = table
  <2>1. /\ walk.at = D * D => phase' = "search" /\ walk' = NoWalk
        /\ walk.at # D * D => walk' = [at |-> walk.at + 1, next |-> Null] /\ phase' = phase
    BY <1>7 DEF NextEntry
  <2>2. CASE walk.at = D * D
    <3>1. DfsInv(dfs', Edges(nw, table'), Vertices(nw, table'))
      BY <1>2, <1>3, NothingVisited
    <3> QED BY <1>2, <1>3, <1>5, <1>7, <2>1, <2>2, <3>1, RoutesNext
  <2>3. CASE walk.at # D * D
    <3>1. PICK d, k : d = D * D /\ k = walk.at
      OBVIOUS
    <3>2. d \in Nat /\ k \in 1 .. d /\ k # d
      BY <1>2, <1>5, <2>3, <3>1, PairsAre
    <3>3. k + 1 \in 1 .. d
      BY <3>2
    <3>4. walk' = [at |-> k + 1, next |-> Null] /\ phase' = "cost"
      BY <1>2, <2>1, <2>3, <3>1
    <3>5. CostsOK'
      <4>1. walk'.at = k + 1 /\ walk'.next = Null /\ walk' = [at |-> walk'.at, next |-> walk'.next]
        BY <3>4
      <4>2. walk'.at \in 1 .. Dimension(nw)' * Dimension(nw)'
        BY <1>2, <3>1, <3>3, <4>1
      <4> QED BY <1>2, <1>5, <4>1, <4>2 DEF CostsOK
    <3> QED BY <1>2, <1>3, <1>7, <3>4, <3>5, RoutesNext
  <2> QED BY <2>2, <2>3
<1>8. ASSUME NEW h \in nw.nodes, walk' = [walk EXCEPT !.next = h], phase' = phase, i # j,
             TableOK(table')
      PROVE  RoutesInv'
  <2>1. walk' = [at |-> walk.at, next |-> h]
    <3>1. PICK a, b : walk = [at |-> a, next |-> b] /\ a = walk.at
      BY <1>5
    <3> QED BY <1>8, <3>1
  <2>2. /\ walk'.at = walk.at /\ walk'.next = h
        /\ walk' = [at |-> walk'.at, next |-> walk'.next]
    BY <2>1
  <2>3. Source' = i /\ Destination' = j
    BY <1>1, <1>2, <2>2 DEF Source, Destination
  <2>4. CostsOK'
    BY <1>2, <1>5, <1>8, <2>2, <2>3 DEF CostsOK
  <2> QED BY <1>2, <1>3, <1>8, <2>4, RoutesNext
<1>9. CASE /\ walk.next = Null /\ first # Null
           /\ table' = [table EXCEPT ![i][j].cost = table[i][first].cost]
           /\ walk' = [walk EXCEPT !.next = first]
           /\ phase' = phase
  <2>0. first = table[i][j].next /\ first # Null
    BY <1>1, <1>9
  <2>1. first \in nw.nodes
    <3>1. table[i][j].next \in nw.nodes \cup {Null}
      BY <1>3, <1>6, EntryIs
    <3> QED BY <2>0, <3>1
  <2>2. i # j
    BY <2>0, <1>3, <1>6 DEF TableOK, NoEntry
  <2>3. table[i][first].cost \in Nat
    BY <1>3, <1>6, <2>1, EntryIs
  <2>4. TableOK(table')
    BY <1>2, <1>3, <1>6, <1>9, <2>2, <2>3, CostSetOK
  <2> QED BY <1>8, <1>9, <2>1, <2>2, <2>4
<1>10. CASE /\ walk.next # Null /\ walk.next # j /\ onward # Null
            /\ table' = [table EXCEPT ![i][j].cost = @ + table[walk.next][onward].cost]
            /\ walk' = [walk EXCEPT !.next = onward]
            /\ phase' = phase
  <2>1. PICK h \in nw.nodes : h = walk.next
    BY <1>5, <1>10
  <2>0. onward = table[h][j].next /\ onward # Null
    BY <1>1, <1>10, <2>1
  <2>2. onward \in nw.nodes
    <3>1. table[h][j].next \in nw.nodes \cup {Null}
      BY <1>3, <1>6, EntryIs
    <3> QED BY <2>0, <3>1
  <2>3. table[i][j].cost \in Nat /\ table[h][onward].cost \in Nat
    BY <1>3, <1>6, <2>1, <2>2, EntryIs
  <2>4. PICK x \in Nat : x = table[i][j].cost + table[h][onward].cost
    BY <2>3
  <2>5. table' = [table EXCEPT ![i][j].cost = x]
    <3>1. [table EXCEPT ![i][j].cost = @ + table[h][onward].cost] = [table EXCEPT ![i][j].cost = x]
      BY <2>4
    <3> QED BY <1>10, <2>1, <3>1
  <2>6. TableOK(table')
    <3>1. i # j
      BY <1>5, <1>10
    <3>2. TableOK([table EXCEPT ![i][j].cost = x])
      BY <1>2, <1>3, <1>6, <3>1, CostSetOK
    <3> QED BY <2>5, <3>2
  <2> QED BY <1>5, <1>8, <1>10, <2>2, <2>6
<1> QED BY <1>4, <1>7, <1>9, <1>10

\* The search keeps RoutesInv.
LEMMA SearchKeeps ==
    ASSUME RoutesInv, Search
    PROVE  RoutesInv'
<1>1. /\ nw \in Nets /\ phase = "search" /\ TableOK(table) /\ steps \in Seq(RouteSteps)
      /\ warned = FALSE /\ DfsInv(dfs, Edges(nw, table), Vertices(nw, table))
      /\ nw.manual \/ Complete(table)
  BY DEF Search, RoutesInv
<1>2. /\ nw' = nw /\ table' = table /\ steps' = steps /\ walk' = walk
      /\ \/ SearchesOn(Edges(nw, table), Vertices(nw, table))
         \/ SearchEnds(Edges(nw, table))
         \/ phase' = "error" /\ warned' = warned /\ dfs' = dfs
  BY <1>1, SearchStep
<1>3. CASE SearchesOn(Edges(nw, table), Vertices(nw, table))
  BY <1>1, <1>2, <1>3, RoutesNext DEF SearchesOn
<1>4. CASE SearchEnds(Edges(nw, table))
  BY <1>1, <1>2, <1>4, RoutesNext DEF SearchEnds
<1>5. CASE phase' = "error" /\ warned' = warned /\ dfs' = dfs
  BY <1>1, <1>2, <1>5, RoutesNext
<1> QED BY <1>2, <1>3, <1>4, <1>5

\* The configuration keeps RoutesInv.
LEMMA ConfigureKeeps ==
    ASSUME RoutesInv, RoutingNext
    PROVE  RoutesInv'
  BY CostsStep, HopsStep, RouteStepStep, CostStartStep, CostStep, SearchKeeps DEF RoutingNext
=============================================================================
