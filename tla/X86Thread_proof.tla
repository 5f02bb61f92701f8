--------------------------- MODULE X86Thread_proof ---------------------------
(***************************************************************************)
(* Proofs about the x86 thread: whatever is fetched, squashed or           *)
(* preempted, contexts commit their instructions once and in order, and    *)
(* the assertions that the stages make about each other hold.              *)
(***************************************************************************)
EXTENDS X86Thread, SeqLemmas, TLAPS

\* The uops of the pipeline in the order in which they were fetched.
Path == rob \o uopq \o fetchq

\* The uops that wait for their operands, for memory or for their writeback.
Waiting == iq \cup loadq \cup Range(storeq) \cup memory \cup events

(***************************************************************************)
(* The inductive invariant.                                                *)
(***************************************************************************)
Fields == {"op", "inst", "index", "position", "spec", "first", "completed",
           "in", "out", "old", "dst"}

IsUop(u) ==
    /\ DOMAIN u = Fields
    /\ u.op = "uop" /\ u.index \in Nat /\ u.position \in Nat
    /\ u.spec \in BOOLEAN /\ u.first \in BOOLEAN /\ u.completed \in BOOLEAN

ThreadTypes ==
    /\ cf \in Configs
    /\ context \in Contexts \cup {None} /\ mapped \in Seq(Contexts)
    /\ pc \in [Contexts -> Nat]
    /\ evict \in BOOLEAN /\ signal \in BOOLEAN /\ spec \in BOOLEAN /\ astray \in BOOLEAN
    /\ rob \in Seq(UopIds) /\ uopq \in Seq(UopIds) /\ fetchq \in Seq(UopIds)
    /\ storeq \in Seq(UopIds)
    /\ iq \in SUBSET UopIds /\ loadq \in SUBSET UopIds
    /\ memory \in SUBSET UopIds /\ events \in SUBSET UopIds
    /\ DOMAIN uops = UopIds
    /\ \A x \in UopIds : uops[x] = NoUop \/ IsUop(uops[x])

\* The queues hold different uops, which exist.
PathInv ==
    /\ IsInjective(Path)
    /\ \A x \in Range(Path) \cup Waiting : uops[x] # NoUop
    /\ Waiting \cap (Range(uopq) \cup Range(fetchq)) = {}
    /\ context = None => Path = <<>>

\* The wrong path is at the end of the pipeline, and begins with its first uop.
Ordered(P, us, sp) ==
    /\ sp <=> \E i \in DOMAIN P : us[P[i]].spec
    /\ \A i, j \in DOMAIN P : us[P[i]].spec /\ i <= j => us[P[j]].spec
    /\ \A i \in DOMAIN P : us[P[i]].first =>
            us[P[i]].spec /\ \A j \in DOMAIN P : j < i => ~ us[P[j]].spec
    /\ \A i \in DOMAIN P : us[P[i]].spec =>
            \E j \in DOMAIN P : j <= i /\ us[P[j]].first

SpecInv ==
    /\ Ordered(Path, uops, spec)
    /\ fetchq # <<>> => uops[Head(fetchq)].index = 0

\* Where a uop waits, and which one may still start a recovery at writeback.
WaitInv ==
    /\ \A x \in iq : ~ IsMem(uops[x])
    /\ \A x \in loadq : uops[x].inst.op = "load"
    /\ \A x \in Range(storeq) : uops[x].inst.op = "store"
    /\ \A x \in memory : uops[x].inst.op \in {"load", "store"}
    /\ (loadq \cup Range(storeq)) \cap (memory \cup events) = {} /\ memory \cap events = {}
    /\ IsInjective(storeq)
    /\ \A x \in memory \cup events : uops[x].inst.op = "store" => x \notin Range(rob)
    /\ cf.atWriteback => \A x \in UopIds : uops[x] # NoUop /\ uops[x].first =>
                            x \in Range(Path) /\ ~ uops[x].completed

\* A context that has ended is told to leave before the pipeline is empty.
EndInv ==
    context # None /\ ~ evict /\ ~ Running(context) => signal /\ Path # <<>>

\* The assertions of the stages.  InsertInLoadStoreQueue does not know prefetches.
StagesAgree == failed \subseteq {"invalid_opcode"}

ThreadInv == ThreadTypes /\ PathInv /\ SpecInv /\ WaitInv /\ EndInv /\ StagesAgree
-----------------------------------------------------------------------------
(***************************************************************************)
(* The k-th member of a set of numbers.                                    *)
(***************************************************************************)
Below(S, x) == {y \in S : y < x}

\* The members of a set below one of them are fewer than the set has.
LEMMA BelowSize ==
    ASSUME NEW S \in SUBSET Nat, IsFiniteSet(S), NEW x \in S
    PROVE  /\ Cardinality(S) \in Nat /\ IsFiniteSet(Below(S, x))
           /\ Cardinality(Below(S, x)) \in 0 .. Cardinality(S) - 1
<1>1. Below(S, x) \in SUBSET (S \ {x})
  <2>1. x \notin Below(S, x)
    BY DEF Below
  <2> QED  BY <2>1 DEF Below
<1>2. IsFiniteSet(S \ {x}) /\ Cardinality(S \ {x}) = Cardinality(S) - 1
  BY FS_RemoveElement
<1>3. IsFiniteSet(Below(S, x)) /\ Cardinality(Below(S, x)) <= Cardinality(S) - 1
  BY <1>1, <1>2, FS_Subset
<1>4. Cardinality(S) \in Nat /\ Cardinality(Below(S, x)) \in Nat
  BY <1>3, FS_CardinalityType
<1> QED  BY <1>3, <1>4

\* A larger member has more members below it.
LEMMA BelowOrder ==
    ASSUME NEW S \in SUBSET Nat, IsFiniteSet(S), NEW x \in S, NEW y \in S, x < y
    PROVE  Cardinality(Below(S, x)) < Cardinality(Below(S, y))
<1>1. /\ Below(S, x) \in SUBSET Below(S, y)
      /\ x \in Below(S, y) /\ x \notin Below(S, x)
  <2>1. x \in Nat /\ y \in Nat /\ \A z \in S : z \in Nat
    OBVIOUS
  <2>2. ~ (x < x) /\ \A z \in S : z < x => z < y
    BY <2>1
  <2> QED  BY <2>2 DEF Below
<1>2. /\ IsFiniteSet(Below(S, y)) /\ Cardinality(Below(S, y)) \in Nat
      /\ Cardinality(Below(S, x)) \in Nat
  BY BelowSize
<1>3. Below(S, x) # Below(S, y)
  BY <1>1
<1>4. /\ Cardinality(Below(S, x)) <= Cardinality(Below(S, y))
      /\ Cardinality(Below(S, x)) # Cardinality(Below(S, y))
  BY <1>1, <1>2, <1>3, FS_Subset
<1> QED  BY <1>2, <1>4

\* The members of a set in their order.
LEMMA NthIs ==
    ASSUME NEW S \in SUBSET Nat, IsFiniteSet(S)
    PROVE  /\ Cardinality(S) \in Nat
           /\ \A k \in 1 .. Cardinality(S) : Nth(S, k) \in S
           /\ \A k, l \in 1 .. Cardinality(S) : k < l => Nth(S, k) < Nth(S, l)
           /\ \A x \in S : \E k \in 1 .. Cardinality(S) : Nth(S, k) = x
<1> DEFINE n == Cardinality(S)
           f == [x \in S |-> Cardinality(Below(S, x)) + 1]
<1>1. n \in Nat
  BY FS_CardinalityType
<1> HIDE DEF n
<1>2. f \in [S -> 1 .. n] /\ \A x \in S : Cardinality(Below(S, x)) = f[x] - 1 /\ f[x] \in Nat
  <2>1. \A x \in S : Cardinality(Below(S, x)) \in 0 .. n - 1
    BY BelowSize DEF n
  <2> QED  BY <1>1, <2>1
<1> HIDE DEF f
<1>3. \A x, y \in S : x < y => f[x] < f[y]
  <2> SUFFICES ASSUME NEW x \in S, NEW y \in S, x < y PROVE f[x] < f[y]
    OBVIOUS
  <2>1. Cardinality(Below(S, x)) < Cardinality(Below(S, y))
    BY BelowOrder
  <2>2. /\ Cardinality(Below(S, x)) = f[x] - 1 /\ Cardinality(Below(S, y)) = f[y] - 1
        /\ f[x] \in Nat /\ f[y] \in Nat
    BY <1>2
  <2> QED  BY <2>1, <2>2
<1>4. \A x, y \in S : f[x] = f[y] => x = y
  <2> SUFFICES ASSUME NEW x \in S, NEW y \in S, x # y PROVE f[x] # f[y]
    BY Zenon
  <2>1. x < y \/ y < x
    OBVIOUS
  <2>2. f[x] \in Nat /\ f[y] \in Nat
    BY <1>2
  <2> QED  BY <1>3, <2>1, <2>2
<1>5. f \in Injection(S, 1 .. n)
  BY <1>2, <1>4, Fun_IsInj
<1>6. IsFiniteSet(1 .. n) /\ Cardinality(1 .. n) = n
  BY <1>1, FS_Interval
<1>7. f \in Surjection(S, 1 .. n)
  BY <1>5, <1>6, FS_Injection DEF n
<1>8. \A k \in 1 .. n : \E x \in S : f[x] = k
  BY <1>7, Fun_SurjectionProperties
<1>9. ASSUME NEW k \in 1 .. n PROVE Nth(S, k) \in S /\ f[Nth(S, k)] = k
  <2>1. PICK x \in S : f[x] = k
    BY <1>8
  <2>2. Cardinality({y \in S : y < x}) = k - 1
    BY <1>2, <2>1 DEF Below
  <2>3. Nth(S, k) \in S /\ Cardinality({y \in S : y < Nth(S, k)}) = k - 1
    BY <2>2, Zenon DEF Nth
  <2>4. f[Nth(S, k)] - 1 = k - 1 /\ f[Nth(S, k)] \in Nat
    BY <1>2, <2>3 DEF Below
  <2> QED  BY <2>3, <2>4
<1>10. \A x \in S : f[x] \in 1 .. n /\ Nth(S, f[x]) = x
  BY <1>2, <1>4, <1>9
<1>11. ASSUME NEW k \in 1 .. n, NEW l \in 1 .. n, k < l PROVE Nth(S, k) < Nth(S, l)
  <2>1. /\ Nth(S, k) \in Nat /\ Nth(S, l) \in Nat
        /\ f[Nth(S, k)] = k /\ f[Nth(S, l)] = l
    BY <1>9
  <2>2. ~ (Nth(S, l) < Nth(S, k)) /\ Nth(S, k) # Nth(S, l)
    BY <1>3, <1>9, <1>11, <2>1
  <2> QED  BY <2>1, <2>2
<1> QED  BY <1>1, <1>9, <1>10, <1>11 DEF n

\* Only one enumeration is in order.
LEMMA NthUnique ==
    ASSUME NEW S \in SUBSET Nat, NEW n \in Nat, NEW f \in [1 .. n -> S],
           \A k, l \in 1 .. n : k < l => f[k] < f[l],
           \A x \in S : \E k \in 1 .. n : f[k] = x
    PROVE  IsFiniteSet(S) /\ Cardinality(S) = n /\ \A k \in 1 .. n : Nth(S, k) = f[k]
<1>1. \A k, l \in 1 .. n : f[k] = f[l] => k = l
  <2> SUFFICES ASSUME NEW k \in 1 .. n, NEW l \in 1 .. n, k # l PROVE f[k] # f[l]
    BY Zenon
  <2>1. k < l \/ l < k
    OBVIOUS
  <2>2. f[k] < f[l] \/ f[l] < f[k]
    BY <2>1
  <2>3. f[k] \in Nat /\ f[l] \in Nat
    OBVIOUS
  <2> QED  BY <2>2, <2>3
<1>2. IsFiniteSet(1 .. n) /\ Cardinality(1 .. n) = n
  BY FS_Interval
<1>3. f \in Bijection(1 .. n, S)
  <2>1. f \in Injection(1 .. n, S)
    BY <1>1, Fun_IsInj
  <2>2. f \in Surjection(1 .. n, S)
    BY Fun_IsSurj
  <2> QED  BY <2>1, <2>2, Fun_IsBij
<1>4. IsFiniteSet(S) /\ Cardinality(S) = n
  BY <1>2, <1>3, FS_Bijection DEF ExistsBijection
<1>5. /\ \A k \in 1 .. n : Nth(S, k) \in S
      /\ \A k, l \in 1 .. n : k < l => Nth(S, k) < Nth(S, l)
      /\ \A x \in S : \E k \in 1 .. n : Nth(S, k) = x
  BY <1>4, NthIs
<1>6. \A k \in 1 .. n : Nth(S, k) = f[k]
  <2> DEFINE bad == {k \in 1 .. n : Nth(S, k) # f[k]}
             g == [k \in bad |-> k]
  <2> SUFFICES ASSUME bad # {} PROVE FALSE
    OBVIOUS
  <2>1. g \in [bad -> Nat] /\ \A k \in bad : g[k] = k
    OBVIOUS
  <2>2. PICK k \in bad : \A l \in bad : g[k] <= g[l]
    <3> HIDE DEF bad, g
    <3> QED  BY <2>1, LeastExists
  <2>3. k \in 1 .. n /\ Nth(S, k) # f[k] /\ \A l \in 1 .. n : l < k => Nth(S, l) = f[l]
    BY <2>1, <2>2
  <2> HIDE DEF bad, g
  <2>4. /\ Nth(S, k) \in S /\ f[k] \in S
        /\ Nth(S, k) \in Nat /\ f[k] \in Nat
    BY <1>5, <2>3
  <2>5. PICK i \in 1 .. n : f[i] = Nth(S, k)
    BY <2>4
  <2>6. PICK j \in 1 .. n : Nth(S, j) = f[k]
    BY <1>5, <2>4
  <2>7. i # k /\ j # k
    BY <2>3, <2>5, <2>6
  <2>8. ~ (i < k)
    <3> SUFFICES ASSUME i < k PROVE FALSE
      OBVIOUS
    <3>1. Nth(S, i) = f[i] /\ Nth(S, i) < Nth(S, k)
      BY <1>5, <2>3
    <3> QED  BY <2>4, <2>5, <3>1
  <2>9. ~ (j < k)
    <3> SUFFICES ASSUME j < k PROVE FALSE
      OBVIOUS
    <3>1. Nth(S, j) = f[j] /\ f[j] < f[k]
      BY <2>3
    <3> QED  BY <2>4, <2>6, <3>1
  <2>10. k < i /\ k < j
    BY <2>3, <2>7, <2>8, <2>9
  <2>11. f[k] < f[i] /\ Nth(S, k) < Nth(S, j)
    BY <1>5, <2>3, <2>10
  <2> QED  BY <2>4, <2>5, <2>6, <2>11
<1> QED  BY <1>4, <1>6
-----------------------------------------------------------------------------
(***************************************************************************)
(* What is left of a sequence.                                             *)
(***************************************************************************)
Places(q, T) == {i \in DOMAIN q : q[i] \in T}

\* f enumerates the n places of q that hold a member of T.
Enumerates(f, n, q, T) ==
    /\ n \in Nat /\ f \in [1 .. n -> Places(q, T)]
    /\ \A k, l \in 1 .. n : k < l => f[k] < f[l]
    /\ \A x \in Places(q, T) : \E k \in 1 .. n : f[k] = x

OnlyBy(f, n, q, T) == Enumerates(f, n, q, T) /\ Only(q, T) = [k \in 1 .. n |-> q[f[k]]]

\* A sequence has finitely many places.
LEMMA PlacesFinite ==
    ASSUME NEW A, NEW q \in Seq(A), NEW T
    PROVE  Places(q, T) \in SUBSET Nat /\ IsFiniteSet(Places(q, T))
<1>1. Len(q) \in Nat /\ DOMAIN q = 1 .. Len(q)
  OBVIOUS
<1>2. IsFiniteSet(1 .. Len(q))
  BY <1>1, FS_Interval
<1>3. Places(q, T) \in SUBSET (1 .. Len(q))
  BY <1>1 DEF Places
<1> QED  BY <1>1, <1>2, <1>3, FS_Subset

\* What Only returns, by an enumeration of the places.
LEMMA OnlyIs ==
    ASSUME NEW A, NEW q \in Seq(A), NEW T
    PROVE  \E n, f : OnlyBy(f, n, q, T)
<1> DEFINE S == Places(q, T)
           n == Cardinality(S)
           f == [k \in 1 .. n |-> Nth(S, k)]
<1>1. S \in SUBSET Nat /\ IsFiniteSet(S)
  BY PlacesFinite
<1>2. Only(q, T) = [k \in 1 .. n |-> q[Nth(S, k)]]
  BY DEF Only, Places
<1> HIDE DEF S
<1>3. /\ n \in Nat
      /\ \A k \in 1 .. n : Nth(S, k) \in S
      /\ \A k, l \in 1 .. n : k < l => Nth(S, k) < Nth(S, l)
      /\ \A x \in S : \E k \in 1 .. n : Nth(S, k) = x
  BY <1>1, NthIs
<1> HIDE DEF n
<1>4. f \in [1 .. n -> S] /\ \A k \in 1 .. n : f[k] = Nth(S, k)
  BY <1>3
<1> HIDE DEF f
<1>5. Only(q, T) = [k \in 1 .. n |-> q[f[k]]]
  BY <1>2, <1>4
<1>6. Enumerates(f, n, q, T)
  BY <1>3, <1>4 DEF Enumerates, S
<1>7. OnlyBy(f, n, q, T)
  BY <1>5, <1>6 DEF OnlyBy
<1> QED  BY <1>7

\* Any enumeration of the places will do.
LEMMA OnlyUnique ==
    ASSUME NEW A, NEW q \in Seq(A), NEW T, NEW n, NEW f, Enumerates(f, n, q, T)
    PROVE  Only(q, T) = [k \in 1 .. n |-> q[f[k]]]
<1> DEFINE S == Places(q, T)
<1>1. S \in SUBSET Nat
  BY PlacesFinite
<1>2. Only(q, T) = [k \in 1 .. Cardinality(S) |-> q[Nth(S, k)]]
  BY DEF Only, Places
<1>3. /\ n \in Nat /\ f \in [1 .. n -> S]
      /\ \A k, l \in 1 .. n : k < l => f[k] < f[l]
      /\ \A x \in S : \E k \in 1 .. n : f[k] = x
  BY DEF Enumerates
<1> HIDE DEF S
<1>4. Cardinality(S) = n /\ \A k \in 1 .. n : Nth(S, k) = f[k]
  BY <1>1, <1>3, NthUnique
<1> QED  BY <1>2, <1>4

\* What is left holds the members of T, each as often as before.
LEMMA OnlyRange ==
    ASSUME NEW A, NEW q \in Seq(A), NEW T
    PROVE  /\ Only(q, T) \in Seq(A)
           /\ Range(Only(q, T)) = Range(q) \cap T
           /\ IsInjective(q) => IsInjective(Only(q, T))
<1>0. PICK n, f : OnlyBy(f, n, q, T)
  BY OnlyIs
<1>1. Enumerates(f, n, q, T) /\ Only(q, T) = [k \in 1 .. n |-> q[f[k]]]
  BY <1>0 DEF OnlyBy
<1>2. /\ \A k \in 1 .. n : f[k] \in DOMAIN q /\ q[f[k]] \in T /\ q[f[k]] \in A
      /\ \A k, l \in 1 .. n : k < l => f[k] < f[l]
      /\ \A i \in DOMAIN q : q[i] \in T => \E k \in 1 .. n : f[k] = i
      /\ DOMAIN q = 1 .. Len(q) /\ Len(q) \in Nat /\ n \in Nat
  <2>1. \A k \in 1 .. n : f[k] \in Places(q, T)
    BY <1>1 DEF Enumerates
  <2> QED  BY <1>1, <2>1 DEF Enumerates, Places
<1>3. /\ Only(q, T) \in Seq(A) /\ DOMAIN Only(q, T) = 1 .. n
      /\ \A k \in 1 .. n : Only(q, T)[k] = q[f[k]]
  BY <1>1, <1>2
<1>4. Range(Only(q, T)) = Range(q) \cap T
  <2>1. ASSUME NEW x PROVE x \in Range(Only(q, T)) <=> x \in Range(q) /\ x \in T
    <3>1. x \in Range(Only(q, T)) <=> \E k \in 1 .. n : x = q[f[k]]
      BY <1>3 DEF Range
    <3>2. x \in Range(q) <=> \E i \in DOMAIN q : x = q[i]
      BY DEF Range
    <3> QED  BY <1>2, <3>1, <3>2
  <2> QED  BY <2>1
<1>5. ASSUME IsInjective(q) PROVE IsInjective(Only(q, T))
  <2>1. \A i, j \in DOMAIN q : q[i] = q[j] => i = j
    BY <1>5 DEF IsInjective
  <2>2. ASSUME NEW k \in 1 .. n, NEW l \in 1 .. n, q[f[k]] = q[f[l]] PROVE k = l
    <3>1. f[k] = f[l] /\ f[k] \in Nat
      BY <1>2, <2>1, <2>2
    <3>2. ~ (k < l) /\ ~ (l < k)
      BY <1>2, <3>1
    <3> QED  BY <3>2
  <2> QED  BY <1>3, <2>2 DEF IsInjective
<1> QED  BY <1>3, <1>4, <1>5

\* It depends only on which elements of q are in T.
LEMMA OnlySame ==
    ASSUME NEW A, NEW q \in Seq(A), NEW T, NEW U, \A x \in Range(q) : x \in T <=> x \in U
    PROVE  Only(q, T) = Only(q, U)
<1>1. {i \in DOMAIN q : q[i] \in T} = {i \in DOMAIN q : q[i] \in U}
  <2>1. \A i \in DOMAIN q : q[i] \in Range(q)
    BY DEF Range
  <2> QED  BY <2>1
<1> QED  BY <1>1 DEF Only

\* A sequence without elements is empty.
LEMMA EmptyRange ==
    ASSUME NEW A, NEW q \in Seq(A), Range(q) = {}
    PROVE  q = <<>>
<1>1. \A i \in DOMAIN q : FALSE
  BY DEF Range
<1> QED  BY <1>1

\* Nothing is left of a sequence without members of T.
LEMMA OnlyNone ==
    ASSUME NEW A, NEW q \in Seq(A), NEW T, \A x \in Range(q) : x \notin T
    PROVE  Only(q, T) = <<>>
<1>1. Only(q, T) \in Seq(A) /\ Range(Only(q, T)) = {}
  BY OnlyRange
<1> QED  BY <1>1, EmptyRange

\* Only of two sequences put together.
LEMMA OnlyConcat ==
    ASSUME NEW A, NEW q \in Seq(A), NEW r \in Seq(A), NEW T
    PROVE  Only(q \o r, T) = Only(q, T) \o Only(r, T)
<1> DEFINE c == q \o r
<1>0. PICK n, f : OnlyBy(f, n, q, T)
  BY OnlyIs
<1>1. Enumerates(f, n, q, T) /\ Only(q, T) = [k \in 1 .. n |-> q[f[k]]]
  BY <1>0 DEF OnlyBy
<1>b. PICK m, g : OnlyBy(g, m, r, T)
  BY OnlyIs
<1>2. Enumerates(g, m, r, T) /\ Only(r, T) = [k \in 1 .. m |-> r[g[k]]]
  BY <1>b DEF OnlyBy
<1>3. /\ n \in Nat /\ \A k \in 1 .. n : f[k] \in 1 .. Len(q) /\ q[f[k]] \in T
      /\ \A k, l \in 1 .. n : k < l => f[k] < f[l]
      /\ \A i \in 1 .. Len(q) : q[i] \in T => \E k \in 1 .. n : f[k] = i
  <2>1. \A k \in 1 .. n : f[k] \in Places(q, T)
    BY <1>1 DEF Enumerates
  <2> QED  BY <1>1, <2>1 DEF Enumerates, Places
<1>4. /\ m \in Nat /\ \A k \in 1 .. m : g[k] \in 1 .. Len(r) /\ r[g[k]] \in T
      /\ \A k, l \in 1 .. m : k < l => g[k] < g[l]
      /\ \A i \in 1 .. Len(r) : r[i] \in T => \E k \in 1 .. m : g[k] = i
  <2>1. \A k \in 1 .. m : g[k] \in Places(r, T)
    BY <1>2 DEF Enumerates
  <2> QED  BY <1>2, <2>1 DEF Enumerates, Places
<1>5. /\ c \in Seq(A) /\ Len(c) = Len(q) + Len(r) /\ Len(q) \in Nat /\ Len(r) \in Nat
      /\ DOMAIN c = 1 .. Len(q) + Len(r)
      /\ \A i \in 1 .. Len(q) : c[i] = q[i]
      /\ \A i \in 1 .. Len(r) : c[Len(q) + i] = r[i]
  BY ConcatIndex
<1> HIDE DEF c
<1>a. n \in Nat /\ m \in Nat
  BY <1>3, <1>4
<1> DEFINE h == [k \in 1 .. n + m |-> IF k <= n THEN f[k] ELSE Len(q) + g[k - n]]
<1>6. /\ \A k \in 1 .. n : h[k] = f[k] /\ h[k] \in 1 .. Len(q) /\ c[h[k]] = q[f[k]]
      /\ \A k \in 1 .. m : /\ h[n + k] = Len(q) + g[k] /\ g[k] \in 1 .. Len(r)
                           /\ c[h[n + k]] = r[g[k]]
  <2>1. ASSUME NEW k \in 1 .. n PROVE h[k] = f[k]
    BY <1>a
  <2>2. ASSUME NEW k \in 1 .. m PROVE h[n + k] = Len(q) + g[k]
    <3>1. n + k \in 1 .. n + m /\ ~ (n + k <= n) /\ (n + k) - n = k
      BY <1>a
    <3> QED  BY <3>1
  <2> HIDE DEF h
  <2> QED  BY <1>a, <1>3, <1>4, <1>5, <2>1, <2>2
<1>7. \A k \in 1 .. n + m : k \in 1 .. n \/ (k - n \in 1 .. m /\ k = n + (k - n))
  BY <1>a
<1>8. DOMAIN h = 1 .. n + m /\ h = [k \in 1 .. n + m |-> h[k]]
  OBVIOUS
<1> HIDE DEF h
<1>9. \A k \in 1 .. n + m : h[k] \in Places(c, T)
  <2> SUFFICES ASSUME NEW k \in 1 .. n + m PROVE h[k] \in DOMAIN c /\ c[h[k]] \in T
    BY DEF Places
  <2>1. CASE k \in 1 .. n
    <3>1. h[k] \in 1 .. Len(q) /\ c[h[k]] = q[f[k]] /\ q[f[k]] \in T
      BY <1>3, <1>6, <2>1
    <3>2. h[k] \in DOMAIN c
      BY <1>5, <3>1
    <3> QED  BY <3>1, <3>2
  <2>2. CASE k - n \in 1 .. m /\ k = n + (k - n)
    <3> DEFINE j == k - n
    <3>1. j \in 1 .. m /\ h[n + j] = Len(q) + g[j] /\ g[j] \in 1 .. Len(r) /\ c[h[n + j]] = r[g[j]]
          /\ k = n + j
      BY <1>a, <1>6, <2>2
    <3> HIDE DEF j
    <3>2. h[k] \in DOMAIN c
      BY <1>5, <3>1
    <3> QED  BY <1>4, <3>1, <3>2
  <2> QED  BY <1>7, <2>1, <2>2
<1>10. \A k, l \in 1 .. n + m : k < l => h[k] < h[l]
  <2> SUFFICES ASSUME NEW k \in 1 .. n + m, NEW l \in 1 .. n + m, k < l PROVE h[k] < h[l]
    OBVIOUS
  <2>1. CASE l \in 1 .. n
    BY <1>a, <1>3, <1>6, <2>1
  <2>2. CASE k \in 1 .. n /\ l - n \in 1 .. m
    <3> DEFINE j == l - n
    <3>1. j \in 1 .. m /\ l = n + j /\ h[n + j] = Len(q) + g[j] /\ g[j] \in 1 .. Len(r)
      BY <1>a, <1>6, <2>2
    <3>2. h[k] \in 1 .. Len(q)
      BY <1>a, <1>6, <2>2
    <3> HIDE DEF j
    <3> QED  BY <1>a, <1>5, <3>1, <3>2
  <2>3. CASE k - n \in 1 .. m /\ l - n \in 1 .. m
    <3> DEFINE i == k - n
               j == l - n
    <3>1. i \in 1 .. m /\ j \in 1 .. m /\ k = n + i /\ l = n + j /\ i < j
      BY <1>a, <2>3
    <3> HIDE DEF i, j
    <3>2. /\ h[k] = Len(q) + g[i] /\ g[i] \in Nat /\ h[l] = Len(q) + g[j] /\ g[j] \in Nat
          /\ g[i] < g[j]
      BY <1>a, <1>4, <1>6, <3>1
    <3> QED  BY <1>5, <3>2
  <2> QED  BY <1>a, <2>1, <2>2, <2>3
<1>11. ASSUME NEW x \in Places(c, T) PROVE \E k \in 1 .. n + m : h[k] = x
  <2>1. x \in 1 .. Len(q) + Len(r) /\ c[x] \in T
    BY <1>5 DEF Places
  <2>2. CASE x \in 1 .. Len(q)
    <3>1. PICK k \in 1 .. n : f[k] = x
      BY <1>3, <1>5, <2>1, <2>2
    <3>2. k \in 1 .. n + m /\ h[k] = x
      BY <1>a, <1>6, <3>1
    <3> QED  BY <3>2
  <2>3. CASE x \notin 1 .. Len(q)
    <3> DEFINE y == x - Len(q)
    <3>1. y \in 1 .. Len(r) /\ x = Len(q) + y
      BY <1>5, <2>1, <2>3
    <3> HIDE DEF y
    <3>2. r[y] \in T
      BY <1>5, <2>1, <3>1
    <3>3. PICK k \in 1 .. m : g[k] = y
      BY <1>4, <3>1, <3>2
    <3>4. n + k \in 1 .. n + m /\ h[n + k] = x
      BY <1>a, <1>6, <3>1, <3>3
    <3> QED  BY <3>4
  <2> QED  BY <2>2, <2>3
<1>12. Enumerates(h, n + m, c, T)
  BY <1>a, <1>8, <1>9, <1>10, <1>11 DEF Enumerates
<1>13. Only(c, T) = [k \in 1 .. n + m |-> c[h[k]]]
  BY <1>5, <1>12, OnlyUnique
<1>14. /\ Only(q, T) \in Seq(A) /\ Len(Only(q, T)) = n /\ \A k \in 1 .. n : Only(q, T)[k] = q[f[k]]
       /\ Only(r, T) \in Seq(A) /\ Len(Only(r, T)) = m /\ \A k \in 1 .. m : Only(r, T)[k] = r[g[k]]
  BY <1>a, <1>1, <1>2, OnlyRange
<1>15. Only(c, T) \in Seq(A) /\ Len(Only(c, T)) = n + m
  BY <1>a, <1>5, <1>13, OnlyRange
<1> DEFINE d == Only(q, T) \o Only(r, T)
<1>16. /\ d \in Seq(A) /\ Len(d) = n + m
       /\ \A k \in 1 .. n : d[k] = q[f[k]]
       /\ \A k \in 1 .. m : d[n + k] = r[g[k]]
  <2> DEFINE a == Only(q, T)
             b == Only(r, T)
  <2>1. a \in Seq(A) /\ b \in Seq(A) /\ d = a \o b /\ Len(a) = n /\ Len(b) = m
    BY <1>14
  <2>2. (\A k \in 1 .. n : a[k] = q[f[k]]) /\ (\A k \in 1 .. m : b[k] = r[g[k]])
    BY <1>14
  <2> HIDE DEF a, b, d
  <2>3. /\ a \o b \in Seq(A) /\ Len(a \o b) = Len(a) + Len(b)
        /\ \A k \in 1 .. Len(a) : (a \o b)[k] = a[k]
        /\ \A k \in 1 .. Len(b) : (a \o b)[Len(a) + k] = b[k]
    <3>1. a \in Seq(A) /\ b \in Seq(A)
      BY <2>1
    <3> QED  BY <3>1, ConcatIndex
  <2> QED  BY <2>1, <2>2, <2>3
<1> HIDE DEF d
<1>17. \A k \in 1 .. n + m : Only(c, T)[k] = d[k]
  <2> SUFFICES ASSUME NEW k \in 1 .. n + m PROVE Only(c, T)[k] = d[k]
    OBVIOUS
  <2>1. Only(c, T)[k] = c[h[k]]
    BY <1>13
  <2>2. CASE k \in 1 .. n
    BY <1>6, <1>16, <2>1, <2>2
  <2>3. CASE k - n \in 1 .. m /\ k = n + (k - n)
    <3> DEFINE j == k - n
    <3>1. j \in 1 .. m /\ k = n + j
      BY <2>3
    <3> HIDE DEF j
    <3> QED  BY <1>6, <1>16, <2>1, <3>1
  <2> QED  BY <1>7, <2>2, <2>3
<1>18. Only(c, T) = d
  BY <1>a, <1>15, <1>16, <1>17, SeqEqual
<1> QED  BY <1>18 DEF c, d
-----------------------------------------------------------------------------
(***************************************************************************)
(* The beginning and the end of a queue.                                   *)
(***************************************************************************)
LEMMA SplitIs ==
    ASSUME NEW A, NEW q \in Seq(A), NEW n \in 0 .. Len(q)
    PROVE  /\ SubSeq(q, 1, n) \in Seq(A) /\ Len(SubSeq(q, 1, n)) = n
           /\ \A i \in 1 .. n : SubSeq(q, 1, n)[i] = q[i]
           /\ SubSeq(q, n + 1, Len(q)) \in Seq(A) /\ Len(SubSeq(q, n + 1, Len(q))) = Len(q) - n
           /\ \A i \in 1 .. Len(q) - n : SubSeq(q, n + 1, Len(q))[i] = q[n + i]
           /\ SubSeq(q, 1, n) \o SubSeq(q, n + 1, Len(q)) = q
<1> DEFINE a == SubSeq(q, 1, n)
           b == SubSeq(q, n + 1, Len(q))
<1>1. Len(q) \in Nat /\ n \in Nat /\ n <= Len(q)
  OBVIOUS
<1>2. a \in Seq(A) /\ Len(a) = n /\ \A i \in 1 .. n : a[i] = q[i]
  BY <1>1
<1>3. b \in Seq(A) /\ Len(b) = Len(q) - n /\ \A i \in 1 .. Len(q) - n : b[i] = q[n + i]
  BY <1>1
<1> HIDE DEF a, b
<1>4. /\ a \o b \in Seq(A) /\ Len(a \o b) = Len(a) + Len(b)
      /\ \A i \in 1 .. Len(a) : (a \o b)[i] = a[i]
      /\ \A i \in 1 .. Len(b) : (a \o b)[Len(a) + i] = b[i]
  BY <1>2, <1>3, ConcatIndex
<1>5. Len(a \o b) = Len(q)
  BY <1>1, <1>2, <1>3, <1>4
<1>6. ASSUME NEW i \in 1 .. Len(q) PROVE (a \o b)[i] = q[i]
  <2>1. CASE i <= n
    BY <1>1, <1>2, <1>4, <2>1
  <2>2. CASE ~ (i <= n)
    <3> DEFINE j == i - n
    <3>1. j \in 1 .. Len(q) - n /\ i = n + j
      BY <1>1, <2>2
    <3> HIDE DEF j
    <3> QED  BY <1>2, <1>3, <1>4, <3>1
  <2> QED  BY <2>1, <2>2
<1>7. a \o b = q
  BY <1>4, <1>5, <1>6, SeqEqual
<1> QED  BY <1>2, <1>3, <1>7 DEF a, b

\* The number of uops that are left when the tail of a queue is squashed.
LEMMA TrimmedIs ==
    ASSUME NEW A, NEW q \in Seq(A), NEW gone
    PROVE  \E n \in 0 .. Len(q) :
              /\ Trimmed(q, gone) = SubSeq(q, 1, n)
              /\ \A i \in 1 .. Len(q) : n < i => q[i] \in gone
              /\ n # 0 => q[n] \notin gone
<1> DEFINE rest == {i \in DOMAIN q : q[i] \notin gone}
           last == CHOOSE i \in rest : \A j \in rest : j <= i
<1>1. Len(q) \in Nat /\ DOMAIN q = 1 .. Len(q)
  OBVIOUS
<1>2. Trimmed(q, gone) = SubSeq(q, 1, IF rest = {} THEN 0 ELSE last)
  BY DEF Trimmed
<1>3. CASE rest = {}
  <2>1. Trimmed(q, gone) = SubSeq(q, 1, 0)
    BY <1>2, <1>3
  <2>2. \A i \in 1 .. Len(q) : q[i] \in gone
    BY <1>1, <1>3
  <2> QED  BY <1>1, <2>1, <2>2
<1>4. CASE rest # {}
  <2>1. \E i \in rest : \A j \in rest : j <= i
    <3>1. rest \in SUBSET Int /\ Len(q) \in Int /\ \A i \in rest : i <= Len(q)
      BY <1>1
    <3> HIDE DEF rest
    <3> QED  BY <1>4, <3>1, GreatestExists, Zenon
  <2>2. last \in rest /\ \A j \in rest : j <= last
    <3> HIDE DEF rest
    <3> QED  BY <2>1, Zenon
  <2>3. Trimmed(q, gone) = SubSeq(q, 1, last)
    BY <1>2, <1>4
  <2> HIDE DEF last
  <2>4. last \in 1 .. Len(q) /\ q[last] \notin gone
    BY <1>1, <2>2
  <2>5. ASSUME NEW i \in 1 .. Len(q), last < i PROVE q[i] \in gone
    <3>1. i \notin rest
      BY <2>2, <2>4, <2>5
    <3> QED  BY <1>1, <3>1
  <2> QED  BY <2>3, <2>4, <2>5
<1> QED  BY <1>3, <1>4

\* Squashing the tail takes away nothing else.
LEMMA TrimmedOnly ==
    ASSUME NEW A, NEW q \in Seq(A), NEW gone, NEW T, T \cap gone = {}
    PROVE  Trimmed(q, gone) \in Seq(A) /\ Only(Trimmed(q, gone), T) = Only(q, T)
<1>1. PICK n \in 0 .. Len(q) :
              /\ Trimmed(q, gone) = SubSeq(q, 1, n)
              /\ \A i \in 1 .. Len(q) : n < i => q[i] \in gone
              /\ n # 0 => q[n] \notin gone
  BY TrimmedIs
<1> DEFINE a == SubSeq(q, 1, n)
           b == SubSeq(q, n + 1, Len(q))
<1>2. /\ a \in Seq(A) /\ b \in Seq(A) /\ a \o b = q /\ Len(b) = Len(q) - n
      /\ \A i \in 1 .. Len(q) - n : b[i] = q[n + i]
  BY SplitIs
<1>3. Len(q) \in Nat /\ n \in Nat /\ n <= Len(q)
  OBVIOUS
<1> HIDE DEF a, b
<1>4. \A x \in Range(b) : x \notin T
  <2> SUFFICES ASSUME NEW i \in 1 .. Len(q) - n PROVE b[i] \notin T
    BY <1>2 DEF Range
  <2>1. n + i \in 1 .. Len(q) /\ n < n + i
    BY <1>3
  <2> QED  BY <1>1, <1>2, <2>1
<1>5. Only(b, T) = <<>>
  BY <1>2, <1>4, OnlyNone
<1>6. Only(q, T) = Only(a, T) \o <<>>
  <2>1. Only(a \o b, T) = Only(a, T) \o Only(b, T)
    <3>1. a \in Seq(A) /\ b \in Seq(A)
      BY <1>2
    <3> QED  BY <3>1, OnlyConcat
  <2> QED  BY <1>2, <1>5, <2>1
<1>7. Only(a, T) \in Seq(A)
  BY <1>2, OnlyRange
<1> QED  BY <1>1, <1>2, <1>6, <1>7 DEF a
-----------------------------------------------------------------------------
(***************************************************************************)
(* Three queues in a row.                                                  *)
(***************************************************************************)
LEMMA HeadAndTail ==
    ASSUME NEW A, NEW q \in Seq(A), q # <<>>
    PROVE  q = <<Head(q)>> \o Tail(q)
  OBVIOUS

\* Three sequences in a row, by place.
LEMMA RowIs ==
    ASSUME NEW A, NEW a \in Seq(A), NEW b \in Seq(A), NEW c \in Seq(A)
    PROVE  LET P == a \o b \o c
           IN  /\ P \in Seq(A) /\ Len(P) = Len(a) + Len(b) + Len(c)
               /\ DOMAIN P = 1 .. Len(a) + Len(b) + Len(c)
               /\ Len(a) \in Nat /\ Len(b) \in Nat /\ Len(c) \in Nat
               /\ \A i \in 1 .. Len(a) : P[i] = a[i]
               /\ \A i \in 1 .. Len(b) : P[Len(a) + i] = b[i]
               /\ \A i \in 1 .. Len(c) : P[Len(a) + Len(b) + i] = c[i]
               /\ Range(P) = Range(a) \cup Range(b) \cup Range(c)
               /\ IsInjective(P) => /\ IsInjective(a)
                                    /\ Range(a) \cap (Range(b) \cup Range(c)) = {}
                                    /\ Range(b) \cap Range(c) = {}
               /\ P = <<>> <=> a = <<>> /\ b = <<>> /\ c = <<>>
<1> DEFINE d == a \o b
<1>1. /\ d \in Seq(A) /\ Len(d) = Len(a) + Len(b) /\ Len(a) \in Nat /\ Len(b) \in Nat
      /\ \A i \in 1 .. Len(a) : d[i] = a[i]
      /\ \A i \in 1 .. Len(b) : d[Len(a) + i] = b[i]
      /\ Range(d) = Range(a) \cup Range(b)
      /\ IsInjective(d) => IsInjective(a) /\ Range(a) \cap Range(b) = {}
  BY ConcatIndex, ConcatRange
<1> HIDE DEF d
<1>2. /\ d \o c \in Seq(A) /\ Len(d \o c) = Len(d) + Len(c) /\ Len(c) \in Nat
      /\ \A i \in 1 .. Len(d) : (d \o c)[i] = d[i]
      /\ \A i \in 1 .. Len(c) : (d \o c)[Len(d) + i] = c[i]
      /\ Range(d \o c) = Range(d) \cup Range(c)
      /\ IsInjective(d \o c) => IsInjective(d) /\ Range(d) \cap Range(c) = {}
  <2>1. d \in Seq(A)
    BY <1>1
  <2> QED  BY <2>1, ConcatIndex, ConcatRange
<1> DEFINE P == d \o c
<1>3. /\ P \in Seq(A) /\ Len(P) = Len(a) + Len(b) + Len(c)
      /\ Range(P) = Range(a) \cup Range(b) \cup Range(c)
      /\ IsInjective(P) => /\ IsInjective(a)
                           /\ Range(a) \cap (Range(b) \cup Range(c)) = {}
                           /\ Range(b) \cap Range(c) = {}
      /\ \A i \in 1 .. Len(c) : P[Len(a) + Len(b) + i] = c[i]
  BY <1>1, <1>2
<1>4. \A i \in 1 .. Len(a) : P[i] = a[i]
  <2> SUFFICES ASSUME NEW i \in 1 .. Len(a) PROVE P[i] = a[i]
    OBVIOUS
  <2>1. i \in 1 .. Len(d) /\ d[i] = a[i]
    BY <1>1
  <2> QED  BY <1>2, <2>1
<1>5. \A i \in 1 .. Len(b) : P[Len(a) + i] = b[i]
  <2> SUFFICES ASSUME NEW i \in 1 .. Len(b) PROVE P[Len(a) + i] = b[i]
    OBVIOUS
  <2>1. Len(a) + i \in 1 .. Len(d) /\ d[Len(a) + i] = b[i]
    BY <1>1
  <2> QED  BY <1>2, <2>1
<1> HIDE DEF P
<1>6. DOMAIN P = 1 .. Len(a) + Len(b) + Len(c)
  BY <1>3
<1>7. P = <<>> <=> a = <<>> /\ b = <<>> /\ c = <<>>
  <2>1. P = <<>> <=> Len(P) = 0
    BY <1>3
  <2>2. (a = <<>> <=> Len(a) = 0) /\ (b = <<>> <=> Len(b) = 0) /\ (c = <<>> <=> Len(c) = 0)
    OBVIOUS
  <2> QED  BY <1>1, <1>2, <1>3, <2>1, <2>2
<1>8. P = a \o b \o c
  BY DEF P, d
<1> QED  BY <1>1, <1>2, <1>3, <1>4, <1>5, <1>6, <1>7, <1>8

\* One sequence after another, and three of them, to be cited without being expanded.
Then(a, b) == a \o b
Row(a, b, c) == a \o b \o c

\* Putting sequences together is associative.
LEMMA ThenAssoc ==
    ASSUME NEW A, NEW a \in Seq(A), NEW b \in Seq(A), NEW c \in Seq(A)
    PROVE  Then(Then(a, b), c) = Then(a, Then(b, c)) /\ Then(a, b) \in Seq(A)
<1>1. (a \o b) \o c = a \o (b \o c)
  OBVIOUS
<1>2. a \o b \in Seq(A)
  OBVIOUS
<1> QED  BY <1>1, <1>2 DEF Then

\* Only applies to every part.
LEMMA OnlyThen ==
    ASSUME NEW A, NEW q \in Seq(A), NEW r \in Seq(A), NEW T
    PROVE  Only(Then(q, r), T) = Then(Only(q, T), Only(r, T))
  BY OnlyConcat DEF Then

\* The same for three sequences.
LEMMA OnlyRow ==
    ASSUME NEW A, NEW a \in Seq(A), NEW b \in Seq(A), NEW c \in Seq(A), NEW T
    PROVE  Only(Row(a, b, c), T) = Row(Only(a, T), Only(b, T), Only(c, T))
<1> DEFINE d == Then(a, b)
<1>1. d \in Seq(A)
  BY ThenAssoc
<1>2. Only(d, T) = Then(Only(a, T), Only(b, T))
  BY OnlyThen
<1> HIDE DEF d
<1>3. Only(Then(d, c), T) = Then(Only(d, T), Only(c, T))
  BY <1>1, OnlyThen
<1>4. Row(a, b, c) = Then(d, c)
  BY DEF Row, Then, d
<1> QED  BY <1>2, <1>3, <1>4 DEF Row, Then
-----------------------------------------------------------------------------
(***************************************************************************)
(* The order of the pipeline P, for the uops us and the mode sp.           *)
(***************************************************************************)
LEMMA OrderedSame ==
    ASSUME NEW P, NEW us, NEW vs, NEW sp, Ordered(P, us, sp),
           \A i \in DOMAIN P : vs[P[i]].spec = us[P[i]].spec /\ vs[P[i]].first = us[P[i]].first
    PROVE  Ordered(P, vs, sp)
  BY DEF Ordered

\* Nothing is on a wrong path.
LEMMA OrderedNone ==
    ASSUME NEW P, NEW us,
           \A i \in DOMAIN P : us[P[i]].spec = FALSE /\ us[P[i]].first = FALSE
    PROVE  Ordered(P, us, FALSE)
  BY DEF Ordered

\* The oldest uop commits.
LEMMA OrderedTail ==
    ASSUME NEW A, NEW P \in Seq(A), P # <<>>, NEW us, NEW sp \in BOOLEAN, Ordered(P, us, sp),
           ~ us[Head(P)].first
    PROVE  ~ us[Head(P)].spec /\ Ordered(Tail(P), us, sp)
<1> DEFINE Q == Tail(P)
<1>1. /\ Q \in Seq(A) /\ Head(P) = P[1] /\ Len(P) \in Nat \ {0} /\ Len(Q) = Len(P) - 1
      /\ DOMAIN P = 1 .. Len(P) /\ DOMAIN Q = 1 .. Len(P) - 1
      /\ \A i \in 1 .. Len(P) - 1 : Q[i] = P[i + 1] /\ i + 1 \in 1 .. Len(P)
  BY TailIndex
<1> HIDE DEF Q
<1>2. ~ us[P[1]].spec
  <2> SUFFICES ASSUME us[P[1]].spec PROVE FALSE
    OBVIOUS
  <2>1. PICK j \in DOMAIN P : j <= 1 /\ us[P[j]].first
    BY <1>1 DEF Ordered
  <2>2. j = 1
    BY <1>1, <2>1
  <2> QED  BY <1>1, <2>1, <2>2
<1>3. sp <=> \E i \in DOMAIN Q : us[Q[i]].spec
  <2>1. ASSUME sp PROVE \E i \in DOMAIN Q : us[Q[i]].spec
    <3>1. PICK i \in DOMAIN P : us[P[i]].spec
      BY <2>1 DEF Ordered
    <3>2. i # 1
      BY <1>2, <3>1
    <3>3. i - 1 \in DOMAIN Q /\ Q[i - 1] = P[i]
      BY <1>1, <3>1, <3>2
    <3> QED  BY <3>1, <3>3
  <2>2. ASSUME NEW i \in DOMAIN Q, us[Q[i]].spec PROVE sp
    BY <1>1, <2>2 DEF Ordered
  <2> QED  BY <2>1, <2>2
<1>4. \A i, j \in DOMAIN Q : us[Q[i]].spec /\ i <= j => us[Q[j]].spec
  <2> SUFFICES ASSUME NEW i \in DOMAIN Q, NEW j \in DOMAIN Q, us[Q[i]].spec, i <= j
               PROVE  us[Q[j]].spec
    OBVIOUS
  <2>1. i + 1 \in DOMAIN P /\ j + 1 \in DOMAIN P /\ i + 1 <= j + 1
    BY <1>1
  <2>2. Q[i] = P[i + 1] /\ Q[j] = P[j + 1]
    BY <1>1
  <2>3. us[P[i + 1]].spec
    BY <2>2
  <2>4. us[P[j + 1]].spec
    BY <2>1, <2>3 DEF Ordered
  <2> QED  BY <2>2, <2>4
<1>5. ASSUME NEW i \in DOMAIN Q, us[Q[i]].first
      PROVE  us[Q[i]].spec /\ \A j \in DOMAIN Q : j < i => ~ us[Q[j]].spec
  <2>1. i + 1 \in DOMAIN P /\ Q[i] = P[i + 1]
    BY <1>1
  <2>2. us[P[i + 1]].spec /\ \A j \in DOMAIN P : j < i + 1 => ~ us[P[j]].spec
    BY <1>5, <2>1 DEF Ordered
  <2>3. ASSUME NEW j \in DOMAIN Q, j < i PROVE ~ us[Q[j]].spec
    <3>1. j + 1 \in DOMAIN P /\ j + 1 < i + 1 /\ Q[j] = P[j + 1]
      BY <1>1, <2>3
    <3> QED  BY <2>2, <3>1
  <2> QED  BY <2>1, <2>2, <2>3
<1>6. ASSUME NEW i \in DOMAIN Q, us[Q[i]].spec
      PROVE  \E j \in DOMAIN Q : j <= i /\ us[Q[j]].first
  <2>1. i + 1 \in DOMAIN P /\ Q[i] = P[i + 1]
    BY <1>1
  <2>2. PICK j \in DOMAIN P : j <= i + 1 /\ us[P[j]].first
    BY <1>6, <2>1 DEF Ordered
  <2>3. j # 1
    BY <1>1, <2>2
  <2>4. j - 1 \in DOMAIN Q /\ Q[j - 1] = P[j] /\ j - 1 <= i
    BY <1>1, <2>2, <2>3
  <2> QED  BY <2>2, <2>4
<1> QED  BY <1>1, <1>2, <1>3, <1>4, <1>5, <1>6 DEF Ordered, Q

\* Uops are fetched on the wrong path.
LEMMA OrderedWrong ==
    ASSUME NEW A, NEW P \in Seq(A), NEW Q \in Seq(A), Q # <<>>, NEW us, NEW sp \in BOOLEAN,
           Ordered(P, us, sp),
           \A i \in DOMAIN Q : us[Q[i]].spec /\ (us[Q[i]].first <=> (~ sp /\ i = 1))
    PROVE  Ordered(P \o Q, us, TRUE)
<1> DEFINE R == P \o Q
           n == Len(P)
<1>1. /\ R \in Seq(A) /\ Len(R) = n + Len(Q) /\ n \in Nat /\ Len(Q) \in Nat \ {0}
      /\ DOMAIN P = 1 .. n /\ DOMAIN Q = 1 .. Len(Q) /\ DOMAIN R = 1 .. n + Len(Q)
      /\ \A i \in 1 .. n : R[i] = P[i]
      /\ \A i \in 1 .. Len(Q) : R[n + i] = Q[i]
  BY ConcatIndex
<1> HIDE DEF R, n
<1>2. \A i \in DOMAIN R : \/ i \in 1 .. n /\ i \in DOMAIN P /\ R[i] = P[i]
                          \/ i > n /\ i - n \in DOMAIN Q /\ R[i] = Q[i - n]
  <2> SUFFICES ASSUME NEW i \in DOMAIN R, i \notin 1 .. n
               PROVE  i > n /\ i - n \in DOMAIN Q /\ R[i] = Q[i - n]
    BY <1>1
  <2>1. i > n /\ i - n \in 1 .. Len(Q) /\ n + (i - n) = i
    BY <1>1
  <2> QED  BY <1>1, <2>1
<1>3. \A i \in DOMAIN R : i > n => /\ us[R[i]].spec
                                   /\ us[R[i]].first <=> (~ sp /\ i = n + 1)
  <2> SUFFICES ASSUME NEW i \in DOMAIN R, i > n
               PROVE  us[R[i]].spec /\ (us[R[i]].first <=> (~ sp /\ i = n + 1))
    OBVIOUS
  <2>1. i - n \in DOMAIN Q /\ R[i] = Q[i - n] /\ (i - n = 1 <=> i = n + 1)
    BY <1>1, <1>2
  <2> QED  BY <2>1
<1>4. n + 1 \in DOMAIN R /\ n + 1 > n
  BY <1>1
<1>5. \E i \in DOMAIN R : us[R[i]].spec
  BY <1>3, <1>4
<1>6. ASSUME NEW i \in DOMAIN R, NEW j \in DOMAIN R, us[R[i]].spec, i <= j
      PROVE  us[R[j]].spec
  <2>1. CASE j > n
    BY <1>3, <2>1
  <2>2. CASE ~ (j > n)
    <3>1. i \in DOMAIN P /\ j \in DOMAIN P /\ R[i] = P[i] /\ R[j] = P[j]
      BY <1>1, <1>2, <1>6, <2>2
    <3> QED  BY <1>6, <3>1 DEF Ordered
  <2> QED  BY <2>1, <2>2
<1>7. ASSUME NEW i \in DOMAIN R, us[R[i]].first
      PROVE  us[R[i]].spec /\ \A j \in DOMAIN R : j < i => ~ us[R[j]].spec
  <2>1. CASE i > n
    <3>1. ~ sp /\ i = n + 1 /\ us[R[i]].spec
      BY <1>3, <1>7, <2>1
    <3>2. \A j \in DOMAIN P : ~ us[P[j]].spec
      BY <3>1 DEF Ordered
    <3>3. \A j \in DOMAIN R : j < i => j \in DOMAIN P /\ R[j] = P[j]
      BY <1>1, <1>2, <3>1
    <3> QED  BY <3>1, <3>2, <3>3
  <2>2. CASE ~ (i > n)
    <3>1. i \in DOMAIN P /\ R[i] = P[i] /\ \A j \in DOMAIN R : j < i => j \in DOMAIN P /\ R[j] = P[j]
      BY <1>1, <1>2, <2>2
    <3> QED  BY <1>7, <3>1 DEF Ordered
  <2> QED  BY <2>1, <2>2
<1>8. ASSUME NEW i \in DOMAIN R, us[R[i]].spec
      PROVE  \E j \in DOMAIN R : j <= i /\ us[R[j]].first
  <2>1. CASE i > n /\ ~ sp
    <3>1. us[R[n + 1]].first /\ n + 1 <= i
      BY <1>1, <1>3, <1>4, <2>1
    <3> QED  BY <1>4, <3>1
  <2>2. CASE ~ (i > n)
    <3>1. i \in DOMAIN P /\ R[i] = P[i]
      BY <1>1, <1>2, <2>2
    <3>2. PICK j \in DOMAIN P : j <= i /\ us[P[j]].first
      BY <1>8, <3>1 DEF Ordered
    <3>3. j \in DOMAIN R /\ R[j] = P[j]
      BY <1>1, <3>2
    <3> QED  BY <3>2, <3>3
  <2>3. CASE i > n /\ sp
    <3>1. PICK k \in DOMAIN P : us[P[k]].spec
      BY <2>3 DEF Ordered
    <3>2. PICK j \in DOMAIN P : j <= k /\ us[P[j]].first
      BY <3>1 DEF Ordered
    <3>3. j \in DOMAIN R /\ R[j] = P[j] /\ j <= i
      BY <1>1, <2>3, <3>2
    <3> QED  BY <3>2, <3>3
  <2> QED  BY <2>1, <2>2, <2>3
<1> QED  BY <1>5, <1>6, <1>7, <1>8 DEF Ordered, R
-----------------------------------------------------------------------------
(***************************************************************************)
(* The instructions in flight: those whose last micro-instruction is in    *)
(* the pipeline P, for the programs ps and the uops us.                    *)
(***************************************************************************)
LastOf(ps, us, c) ==
    {x \in UopIds : /\ us[x] # NoUop /\ ~ us[x].spec
                    /\ us[x].index + 1 = Len(ps[c][us[x].position])}

Positions(q, us, c) == [i \in DOMAIN q |-> <<c, us[q[i]].position>>]

FlightOf(ps, P, us, c) == Positions(Only(P, LastOf(ps, us, c)), us, c)

\* InFlight in terms of FlightOf.
LEMMA InFlightIs ==
    ASSUME NEW c
    PROVE  InFlight(c) = IF c = context THEN FlightOf(cf.programs, Path, uops, c) ELSE <<>>
  BY DEF InFlight, FlightOf, Positions, LastOf, Path

\* The values that a flight has.
Stamps(us, c) == {<<c, us[x].position>> : x \in UopIds}

\* The positions of a sequence of uops, by place.
LEMMA PositionsIs ==
    ASSUME NEW q \in Seq(UopIds), NEW us, NEW c
    PROVE  /\ Positions(q, us, c) \in Seq(Stamps(us, c)) /\ Len(Positions(q, us, c)) = Len(q)
           /\ \A i \in 1 .. Len(q) : Positions(q, us, c)[i] = <<c, us[q[i]].position>>
<1>1. DOMAIN q = 1 .. Len(q) /\ Len(q) \in Nat /\ \A i \in 1 .. Len(q) : q[i] \in UopIds
  OBVIOUS
<1>2. \A i \in 1 .. Len(q) : <<c, us[q[i]].position>> \in Stamps(us, c)
  BY <1>1 DEF Stamps
<1>3. Positions(q, us, c) = [i \in 1 .. Len(q) |-> <<c, us[q[i]].position>>]
  BY <1>1 DEF Positions
<1> QED  BY <1>1, <1>2, <1>3

\* The positions of two sequences put together.
LEMMA PositionsConcat ==
    ASSUME NEW q \in Seq(UopIds), NEW r \in Seq(UopIds), NEW us, NEW c
    PROVE  Positions(Then(q, r), us, c) = Then(Positions(q, us, c), Positions(r, us, c))
<1> DEFINE S == Stamps(us, c)
           s == q \o r
           a == Positions(q, us, c)
           b == Positions(r, us, c)
           d == Positions(s, us, c)
<1>1. /\ s \in Seq(UopIds) /\ Len(s) = Len(q) + Len(r) /\ Len(q) \in Nat /\ Len(r) \in Nat
      /\ \A i \in 1 .. Len(q) : s[i] = q[i]
      /\ \A i \in 1 .. Len(r) : s[Len(q) + i] = r[i]
  BY ConcatIndex
<1> HIDE DEF s
<1>2. /\ a \in Seq(S) /\ Len(a) = Len(q) /\ \A i \in 1 .. Len(q) : a[i] = <<c, us[q[i]].position>>
      /\ b \in Seq(S) /\ Len(b) = Len(r) /\ \A i \in 1 .. Len(r) : b[i] = <<c, us[r[i]].position>>
  BY PositionsIs
<1>3. d \in Seq(S) /\ Len(d) = Len(s) /\ \A i \in 1 .. Len(s) : d[i] = <<c, us[s[i]].position>>
  BY <1>1, PositionsIs
<1> HIDE DEF a, b, d, S
<1>4. /\ a \o b \in Seq(S) /\ Len(a \o b) = Len(a) + Len(b)
      /\ \A i \in 1 .. Len(a) : (a \o b)[i] = a[i]
      /\ \A i \in 1 .. Len(b) : (a \o b)[Len(a) + i] = b[i]
  <2>1. a \in Seq(S) /\ b \in Seq(S)
    BY <1>2
  <2> QED  BY <2>1, ConcatIndex
<1>5. Len(d) = Len(a \o b)
  BY <1>1, <1>2, <1>3, <1>4
<1>6. ASSUME NEW i \in 1 .. Len(d) PROVE d[i] = (a \o b)[i]
  <2>1. CASE i <= Len(q)
    <3>1. i \in 1 .. Len(q) /\ i \in 1 .. Len(s)
      BY <1>1, <1>3, <2>1
    <3>2. s[i] = q[i] /\ (a \o b)[i] = a[i]
      BY <1>1, <1>2, <1>4, <3>1
    <3> QED  BY <1>2, <1>3, <3>1, <3>2
  <2>2. CASE ~ (i <= Len(q))
    <3> DEFINE j == i - Len(q)
    <3>1. j \in 1 .. Len(r) /\ i = Len(q) + j /\ i \in 1 .. Len(s)
      BY <1>1, <1>3, <2>2
    <3> HIDE DEF j
    <3>2. s[i] = r[j] /\ (a \o b)[i] = b[j]
      BY <1>1, <1>2, <1>4, <3>1
    <3> QED  BY <1>2, <1>3, <3>1, <3>2
  <2> QED  BY <2>1, <2>2
<1>7. d = a \o b
  BY <1>3, <1>4, <1>5, <1>6, SeqEqual
<1> QED  BY <1>7 DEF d, a, b, s, Then

\* The flight of two sequences of uops put together.
LEMMA FlightConcat ==
    ASSUME NEW ps, NEW P \in Seq(UopIds), NEW Q \in Seq(UopIds), NEW us, NEW c
    PROVE  FlightOf(ps, Then(P, Q), us, c) = Then(FlightOf(ps, P, us, c), FlightOf(ps, Q, us, c))
<1> DEFINE T == LastOf(ps, us, c)
           a == Only(P, T)
           b == Only(Q, T)
<1>1. Only(Then(P, Q), T) = Then(a, b)
  BY OnlyThen
<1>2. a \in Seq(UopIds) /\ b \in Seq(UopIds)
  BY OnlyRange
<1> HIDE DEF a, b, T
<1>3. Positions(Then(a, b), us, c) = Then(Positions(a, us, c), Positions(b, us, c))
  BY <1>2, PositionsConcat
<1> QED  BY <1>1, <1>3 DEF FlightOf, a, b, T

\* A flight is a sequence of stamps.
LEMMA FlightType ==
    ASSUME NEW ps, NEW P \in Seq(UopIds), NEW us, NEW c
    PROVE  FlightOf(ps, P, us, c) \in Seq(Stamps(us, c))
<1>1. Only(P, LastOf(ps, us, c)) \in Seq(UopIds)
  BY OnlyRange
<1> QED  BY <1>1, PositionsIs DEF FlightOf

\* The flight depends on the uops of the pipeline only.
LEMMA FlightSame ==
    ASSUME NEW ps, NEW P \in Seq(UopIds), NEW us, NEW vs, NEW c,
           \A x \in Range(P) : /\ us[x] # NoUop /\ vs[x] # NoUop
                               /\ vs[x].spec = us[x].spec /\ vs[x].index = us[x].index
                               /\ vs[x].position = us[x].position
    PROVE  FlightOf(ps, P, vs, c) = FlightOf(ps, P, us, c)
<1> DEFINE T == LastOf(ps, us, c)
           U == LastOf(ps, vs, c)
           a == Only(P, T)
<1>1. \A x \in Range(P) : x \in U <=> x \in T
  BY DEF LastOf
<1> HIDE DEF T, U
<1>2. Only(P, U) = a
  BY <1>1, OnlySame
<1>3. a \in Seq(UopIds) /\ Range(a) = Range(P) \cap T
  BY OnlyRange
<1> HIDE DEF a
<1>4. \A i \in DOMAIN a : a[i] \in Range(P)
  BY <1>3 DEF Range
<1>5. Positions(a, us, c) = Positions(a, vs, c)
  BY <1>4 DEF Positions
<1> QED  BY <1>2, <1>5 DEF FlightOf, T, U, a

\* Uops that are no last ones are not in the flight.
LEMMA FlightNone ==
    ASSUME NEW ps, NEW P \in Seq(UopIds), NEW us, NEW c,
           \A x \in Range(P) : x \notin LastOf(ps, us, c)
    PROVE  FlightOf(ps, P, us, c) = <<>>
<1>1. Only(P, LastOf(ps, us, c)) = <<>>
  BY OnlyNone
<1> QED  BY <1>1 DEF FlightOf, Positions

\* The last uop of an instruction stands for it.
LEMMA FlightOne ==
    ASSUME NEW ps, NEW x \in UopIds, NEW us, NEW c, x \in LastOf(ps, us, c)
    PROVE  FlightOf(ps, <<x>>, us, c) = << <<c, us[x].position>> >>
<1> DEFINE T == LastOf(ps, us, c)
           q == <<x>>
           a == Only(q, T)
<1>1. q \in Seq(UopIds) /\ Len(q) = 1 /\ q[1] = x /\ DOMAIN q = {1}
  OBVIOUS
<1>2. Range(q) = {x}
  BY <1>1 DEF Range
<1>3. IsInjective(q)
  BY <1>1 DEF IsInjective
<1>4. a \in Seq(UopIds) /\ Range(a) = {x} /\ IsInjective(a)
  <2>1. x \in T
    OBVIOUS
  <2> HIDE DEF q, T
  <2>2. a \in Seq(UopIds) /\ Range(a) = Range(q) \cap T /\ IsInjective(a)
    BY <1>1, <1>3, OnlyRange
  <2> QED  BY <1>2, <2>1, <2>2
<1> HIDE DEF a, q, T
<1>5. Len(a) = 1 /\ a[1] = x
  <2>1. IsFiniteSet(Range(a)) /\ Cardinality(Range(a)) = Len(a)
    BY <1>4, LenIsCardinality
  <2>2. Cardinality({x}) = 1
    BY FS_Singleton
  <2>3. Len(a) = 1
    BY <1>4, <2>1, <2>2
  <2>4. a[1] \in Range(a)
    BY <1>4, <2>3 DEF Range
  <2> QED  BY <1>4, <2>3, <2>4
<1>6. DOMAIN a = {1}
  BY <1>4, <1>5
<1>7. Positions(a, us, c) = << <<c, us[x].position>> >>
  BY <1>5, <1>6 DEF Positions
<1> QED  BY <1>7 DEF FlightOf, a, q, T

\* The oldest uop leaves: with it an instruction, or none.
LEMMA FlightTail ==
    ASSUME NEW ps, NEW P \in Seq(UopIds), P # <<>>, NEW us, NEW c
    PROVE  LET F == FlightOf(ps, P, us, c)
               G == FlightOf(ps, Tail(P), us, c)
           IN  G = F \/ (F # <<>> /\ G = Tail(F))
<1> DEFINE x == Head(P)
           Q == Tail(P)
           G == FlightOf(ps, Q, us, c)
           S == Stamps(us, c)
<1>1. x \in UopIds /\ Q \in Seq(UopIds) /\ P = <<x>> \o Q
  BY HeadAndTail
<1> HIDE DEF x, Q
<1>2. <<x>> \in Seq(UopIds) /\ Range(<<x>>) = {x}
  <2>1. DOMAIN <<x>> = {1} /\ <<x>>[1] = x
    OBVIOUS
  <2> QED  BY <1>1, <2>1 DEF Range
<1>3. FlightOf(ps, P, us, c) = FlightOf(ps, <<x>>, us, c) \o G
  <2>1. <<x>> \in Seq(UopIds) /\ Q \in Seq(UopIds)
    BY <1>1, <1>2
  <2> DEFINE h == <<x>>
  <2>2. h \in Seq(UopIds)
    BY <2>1
  <2> HIDE DEF h
  <2>3. FlightOf(ps, Then(h, Q), us, c) = Then(FlightOf(ps, h, us, c), G)
    BY <2>1, <2>2, FlightConcat
  <2> QED  BY <1>1, <2>3 DEF Then, h
<1>4. G \in Seq(S)
  BY <1>1, FlightType
<1> HIDE DEF G, S
<1>5. CASE x \notin LastOf(ps, us, c)
  <2>1. FlightOf(ps, <<x>>, us, c) = <<>>
    BY <1>2, <1>5, FlightNone
  <2>2. <<>> \o G = G
    BY <1>4
  <2> QED  BY <1>1, <1>3, <2>1, <2>2 DEF Q, G
<1>6. CASE x \in LastOf(ps, us, c)
  <2> DEFINE e == <<c, us[x].position>>
  <2>1. FlightOf(ps, <<x>>, us, c) = <<e>>
    BY <1>1, <1>6, FlightOne
  <2>2. e \in S
    BY <1>1 DEF S, Stamps
  <2> HIDE DEF e
  <2>3. <<e>> \o G # <<>> /\ Tail(<<e>> \o G) = G
    BY <1>4, <2>2
  <2> QED  BY <1>1, <1>3, <2>1, <2>3 DEF Q, G
<1> QED  BY <1>5, <1>6

\* Squashing takes nothing out of the flight.
LEMMA FlightTrim ==
    ASSUME NEW ps, NEW a \in Seq(UopIds), NEW b \in Seq(UopIds), NEW d \in Seq(UopIds), NEW us,
           NEW c, NEW gone, LastOf(ps, us, c) \cap gone = {}
    PROVE  FlightOf(ps, Row(Trimmed(a, gone), Trimmed(b, gone), Trimmed(d, gone)), us, c)
              = FlightOf(ps, Row(a, b, d), us, c)
<1> DEFINE T == LastOf(ps, us, c)
           ta == Trimmed(a, gone)
           tb == Trimmed(b, gone)
           td == Trimmed(d, gone)
<1>0. T \cap gone = {}
  OBVIOUS
<1> HIDE DEF T
<1>1. /\ ta \in Seq(UopIds) /\ Only(ta, T) = Only(a, T)
      /\ tb \in Seq(UopIds) /\ Only(tb, T) = Only(b, T)
      /\ td \in Seq(UopIds) /\ Only(td, T) = Only(d, T)
  BY <1>0, TrimmedOnly
<1> HIDE DEF ta, tb, td
<1>2. Only(Row(ta, tb, td), T) = Row(Only(ta, T), Only(tb, T), Only(td, T))
  <2>1. ta \in Seq(UopIds) /\ tb \in Seq(UopIds) /\ td \in Seq(UopIds)
    BY <1>1
  <2> QED  BY <2>1, OnlyRow
<1>3. Only(Row(a, b, d), T) = Row(Only(a, T), Only(b, T), Only(d, T))
  BY OnlyRow
<1>4. Only(Row(ta, tb, td), T) = Only(Row(a, b, d), T)
  BY <1>1, <1>2, <1>3
<1> QED  BY <1>4 DEF FlightOf, T, ta, tb, td

\* An instruction is fetched: its last uop counts.
LEMMA FlightNew ==
    ASSUME NEW ps, NEW q \in Seq(UopIds), q # <<>>, NEW us, NEW c,
           \A i \in 1 .. Len(q) : q[i] \in LastOf(ps, us, c) <=> i = Len(q)
    PROVE  FlightOf(ps, q, us, c) = << <<c, us[q[Len(q)]].position>> >>
<1> DEFINE n == Len(q) - 1
           T == LastOf(ps, us, c)
           a == SubSeq(q, 1, n)
           b == SubSeq(q, n + 1, Len(q))
           x == q[Len(q)]
<1>1. Len(q) \in Nat \ {0} /\ n \in 0 .. Len(q) /\ n + 1 = Len(q) /\ Len(q) - n = 1
  OBVIOUS
<1>2. /\ a \in Seq(UopIds) /\ Len(a) = n /\ \A i \in 1 .. n : a[i] = q[i]
      /\ b \in Seq(UopIds) /\ Len(b) = Len(q) - n
      /\ \A i \in 1 .. Len(q) - n : b[i] = q[n + i]
      /\ a \o b = q
  <2> HIDE DEF n
  <2>1. n \in 0 .. Len(q)
    BY <1>1
  <2>2. a \in Seq(UopIds) /\ Len(a) = n
    BY <2>1, SplitIs
  <2>3. b \in Seq(UopIds) /\ Len(b) = Len(q) - n
    BY <2>1, SplitIs
  <2>4. a \o b = q
    BY <2>1, SplitIs
  <2>5. /\ \A i \in 1 .. n : a[i] = q[i]
        /\ \A i \in 1 .. Len(q) - n : b[i] = q[n + i]
    BY <2>1, SplitIs
  <2> QED  BY <2>2, <2>3, <2>4, <2>5
<1> HIDE DEF n, a, b, T
<1>3. x \in UopIds /\ x \in T
  BY <1>1 DEF T
<1>4. b = <<x>>
  <2>1. Len(b) = 1 /\ b[1] = q[n + 1] /\ n + 1 = Len(q)
    BY <1>1, <1>2
  <2> QED  BY <1>2, <2>1
<1> HIDE DEF x
<1>5. FlightOf(ps, b, us, c) = << <<c, us[x].position>> >>
  BY <1>3, <1>4, FlightOne DEF T
<1>6. \A y \in Range(a) : y \notin T
  <2> SUFFICES ASSUME NEW i \in 1 .. n PROVE a[i] \notin T
    BY <1>2 DEF Range
  <2>1. i \in 1 .. Len(q) /\ i # Len(q)
    BY <1>1
  <2> QED  BY <1>2, <2>1 DEF T
<1>7. FlightOf(ps, a, us, c) = <<>>
  BY <1>2, <1>6, FlightNone DEF T
<1>8. FlightOf(ps, q, us, c) = FlightOf(ps, a, us, c) \o FlightOf(ps, b, us, c)
  <2>1. a \in Seq(UopIds) /\ b \in Seq(UopIds)
    BY <1>2
  <2>2. FlightOf(ps, Then(a, b), us, c) = Then(FlightOf(ps, a, us, c), FlightOf(ps, b, us, c))
    BY <2>1, FlightConcat
  <2> QED  BY <1>2, <2>2 DEF Then
<1>9. <<>> \o << <<c, us[x].position>> >> = << <<c, us[x].position>> >>
  <2> DEFINE e == <<c, us[x].position>>
  <2> HIDE DEF e
  <2>1. <<e>> \in Seq({e})
    OBVIOUS
  <2>2. <<>> \o <<e>> = <<e>>
    BY <2>1
  <2> QED  BY <2>2 DEF e
<1>10. FlightOf(ps, q, us, c) = << <<c, us[x].position>> >>
  BY <1>5, <1>7, <1>8, <1>9
<1> QED  BY <1>10 DEF x
-----------------------------------------------------------------------------
(***************************************************************************)
(* A macro-instruction is fetched into new uops.                           *)
(***************************************************************************)
Fetches(new, mop, sp, pos) ==
    /\ new \in Seq(UopIds) /\ Len(new) = Len(mop) /\ new # <<>> /\ IsInjective(new)
    /\ fetchq' = fetchq \o new
    /\ \A x \in Range(new) : uops[x] = NoUop
    /\ DOMAIN uops' = UopIds
    /\ \A x \in UopIds \ Range(new) : uops'[x] = uops[x]
    /\ \A i \in 1 .. Len(new) :
          /\ IsUop(uops'[new[i]]) /\ uops'[new[i]].index = i - 1
          /\ uops'[new[i]].position = pos /\ uops'[new[i]].spec = sp
          /\ uops'[new[i]].first = (sp /\ ~ spec /\ i = 1)
          /\ ~ uops'[new[i]].completed

\* Fetched takes free uops and gives each its place in the instruction.
LEMMA FetchedEffect ==
    ASSUME ThreadTypes, NEW mop \in Macros, NEW sp \in BOOLEAN, NEW pos \in Nat,
           Fetched(mop, sp, pos)
    PROVE  \E new : Fetches(new, mop, sp, pos)
<1> DEFINE new == [i \in DOMAIN mop |-> Nth(Fresh, i)]
           index(x) == CHOOSE i \in DOMAIN mop : new[i] = x
           u(x) == [op |-> "uop", inst |-> mop[index(x)], index |-> index(x) - 1,
                    position |-> pos, spec |-> sp,
                    first |-> sp /\ ~ spec /\ index(x) = 1,
                    completed |-> FALSE, in |-> <<>>, out |-> <<>>, old |-> <<>>,
                    dst |-> <<>>]
<1>1. Len(mop) \in Nat \ {0} /\ DOMAIN mop = 1 .. Len(mop)
  BY DEF Macros
<1>2. /\ Len(mop) <= Cardinality(Fresh) /\ fetchq' = fetchq \o new
      /\ uops' = [x \in UopIds |-> IF x \notin Range(new) THEN uops[x] ELSE u(x)]
  BY DEF Fetched
<1>3. Fresh \in SUBSET Nat /\ Fresh \in SUBSET UopIds /\ IsFiniteSet(Fresh)
  <2>1. UopIds \in SUBSET Nat /\ IsFiniteSet(UopIds)
    BY ConfigAssumption, FS_Interval DEF UopIds
  <2>2. Fresh \in SUBSET UopIds
    BY DEF Fresh
  <2> QED  BY <2>1, <2>2, FS_Subset
<1>4. /\ Cardinality(Fresh) \in Nat
      /\ \A k \in 1 .. Cardinality(Fresh) : Nth(Fresh, k) \in Fresh
      /\ \A k, l \in 1 .. Cardinality(Fresh) : k < l => Nth(Fresh, k) < Nth(Fresh, l)
  BY <1>3, NthIs
<1>5. /\ DOMAIN new = 1 .. Len(mop)
      /\ \A i \in 1 .. Len(mop) : new[i] \in Fresh /\ new[i] \in UopIds /\ new[i] \in Nat
      /\ \A i, j \in 1 .. Len(mop) : i < j => new[i] < new[j]
  <2>1. \A i \in 1 .. Len(mop) : i \in 1 .. Cardinality(Fresh) /\ new[i] = Nth(Fresh, i)
    BY <1>1, <1>2, <1>4
  <2> QED  BY <1>1, <1>3, <1>4, <2>1
<1>6. new = [i \in 1 .. Len(mop) |-> new[i]]
  BY <1>1
<1> HIDE DEF new
<1>7. new \in Seq(UopIds) /\ Len(new) = Len(mop) /\ new # <<>>
  <2>1. \A i \in 1 .. Len(mop) : new[i] \in UopIds
    BY <1>5
  <2>2. new \in [1 .. Len(mop) -> UopIds]
    BY <1>6, <2>1
  <2>3. new \in Seq(UopIds) /\ Len(new) = Len(mop)
    BY <1>1, <2>2
  <2> QED  BY <1>1, <2>3
<1>8. \A i, j \in 1 .. Len(mop) : new[i] = new[j] => i = j
  <2> SUFFICES ASSUME NEW i \in 1 .. Len(mop), NEW j \in 1 .. Len(mop), i # j
               PROVE  new[i] # new[j]
    BY Zenon
  <2>1. i < j \/ j < i
    BY <1>1
  <2>2. new[i] \in Nat /\ new[j] \in Nat /\ (new[i] < new[j] \/ new[j] < new[i])
    BY <1>5, <2>1
  <2> QED  BY <2>2
<1>9. IsInjective(new)
  BY <1>5, <1>8 DEF IsInjective
<1>10. \A x \in Range(new) : uops[x] = NoUop /\ x \in UopIds
  BY <1>5 DEF Range, Fresh
<1>11. DOMAIN uops' = UopIds /\ \A x \in UopIds \ Range(new) : uops'[x] = uops[x]
  <2> HIDE DEF u
  <2> QED  BY <1>2
<1>12. ASSUME NEW i \in 1 .. Len(new)
       PROVE  /\ IsUop(uops'[new[i]]) /\ uops'[new[i]].index = i - 1
              /\ uops'[new[i]].position = pos /\ uops'[new[i]].spec = sp
              /\ uops'[new[i]].first = (sp /\ ~ spec /\ i = 1)
              /\ ~ uops'[new[i]].completed
  <2>1. i \in 1 .. Len(mop) /\ i \in DOMAIN mop
    BY <1>1, <1>7
  <2>2. index(new[i]) = i
    BY <1>1, <1>8, <2>1
  <2>3. new[i] \in Range(new) /\ new[i] \in UopIds
    BY <1>5, <2>1 DEF Range
  <2>4. uops'[new[i]] = u(new[i])
    <3> HIDE DEF u
    <3> QED  BY <1>2, <2>3
  <2>5. u(new[i]) = [op |-> "uop", inst |-> mop[i], index |-> i - 1,
                    position |-> pos, spec |-> sp,
                    first |-> sp /\ ~ spec /\ i = 1,
                    completed |-> FALSE, in |-> <<>>, out |-> <<>>, old |-> <<>>,
                    dst |-> <<>>]
    <3> HIDE DEF index
    <3> QED  BY <2>2
  <2>6. i - 1 \in Nat
    BY <2>1
  <2> HIDE DEF u
  <2> QED  BY <2>4, <2>5, <2>6 DEF IsUop, Fields
<1>13. Fetches(new, mop, sp, pos)
  BY <1>2, <1>7, <1>9, <1>10, <1>11, <1>12 DEF Fetches
<1> QED  BY <1>13
-----------------------------------------------------------------------------
(***************************************************************************)
(* Facts that the actions share.                                           *)
(***************************************************************************)
\* The pipeline is made of three queues.
PathOf(a, b, d, P) ==
    /\ P \in Seq(UopIds) /\ Range(P) = Range(a) \cup Range(b) \cup Range(d)
    /\ Range(P) \in SUBSET UopIds
    /\ Len(P) = Len(a) + Len(b) + Len(d) /\ DOMAIN P = 1 .. Len(P)
    /\ Len(a) \in Nat /\ Len(b) \in Nat /\ Len(d) \in Nat
    /\ \A i \in 1 .. Len(a) : P[i] = a[i]
    /\ \A i \in 1 .. Len(b) : P[Len(a) + i] = b[i]
    /\ \A i \in 1 .. Len(d) : P[Len(a) + Len(b) + i] = d[i]
    /\ P = <<>> <=> a = <<>> /\ b = <<>> /\ d = <<>>

\* The pipeline by its parts.
LEMMA PathIs ==
    ASSUME NEW a \in Seq(UopIds), NEW b \in Seq(UopIds), NEW d \in Seq(UopIds)
    PROVE  PathOf(a, b, d, a \o b \o d)
<1> DEFINE P == a \o b \o d
<1>1. /\ P \in Seq(UopIds) /\ Len(P) = Len(a) + Len(b) + Len(d)
      /\ DOMAIN P = 1 .. Len(a) + Len(b) + Len(d)
      /\ Len(a) \in Nat /\ Len(b) \in Nat /\ Len(d) \in Nat
      /\ \A i \in 1 .. Len(a) : P[i] = a[i]
      /\ \A i \in 1 .. Len(b) : P[Len(a) + i] = b[i]
      /\ \A i \in 1 .. Len(d) : P[Len(a) + Len(b) + i] = d[i]
      /\ Range(P) = Range(a) \cup Range(b) \cup Range(d)
      /\ P = <<>> <=> a = <<>> /\ b = <<>> /\ d = <<>>
  BY RowIs
<1> HIDE DEF P
<1>2. Range(P) \in SUBSET UopIds
  BY <1>1 DEF Range
<1>3. PathOf(a, b, d, P)
  BY <1>1, <1>2 DEF PathOf
<1> QED  BY <1>3 DEF P

\* Which uops are kept.
LEMMA KeptIs ==
    ASSUME rob' \in Seq(UopIds), uopq' \in Seq(UopIds), fetchq' \in Seq(UopIds),
           NEW us, uops' = Kept(us)
    PROVE  /\ DOMAIN uops' = UopIds
           /\ \A x \in UopIds :
                uops'[x] = IF x \in Range(Path') \cup Waiting' THEN us[x] ELSE NoUop
<1>1. Range(Path') = Range(rob') \cup Range(uopq') \cup Range(fetchq')
  <2>1. PathOf(rob', uopq', fetchq', Path')
    BY PathIs DEF Path
  <2> QED  BY <2>1 DEF PathOf
<1>2. \A x : /\ x \in Range(fetchq') \cup Range(uopq') \cup Range(rob') <=> x \in Range(Path')
             /\ x \in iq' \cup loadq' \cup Range(storeq') \cup memory' \cup events' <=> x \in Waiting'
  BY <1>1 DEF Waiting
<1>3. uops' = [x \in UopIds |->
                  IF \/ x \in Range(fetchq') \cup Range(uopq') \cup Range(rob')
                     \/ x \in iq' \cup loadq' \cup Range(storeq') \cup memory' \cup events'
                  THEN us[x] ELSE NoUop]
  BY DEF Kept
<1> QED  BY <1>2, <1>3

\* The stages between dispatch and commit do not touch the pipeline.
LEMMA QuietStep ==
    ASSUME ThreadInv,
           UNCHANGED <<cf, context, evict, mapped, signal, pc, spec, astray, uops, fetchq, uopq,
                       rob, failed>>
    PROVE  Path' = Path /\ SpecInv' /\ EndInv' /\ StagesAgree'
<1>1. Path' = Path
  BY DEF Path
<1>2. SpecInv'
  <2>1. Ordered(Path', uops', spec')
    BY <1>1 DEF ThreadInv, SpecInv
  <2>2. (fetchq # <<>> => uops[Head(fetchq)].index = 0)'
    BY DEF ThreadInv, SpecInv
  <2> QED  BY <2>1, <2>2 DEF SpecInv
<1>3. EndInv'
  BY <1>1 DEF ThreadInv, EndInv, Running
<1>4. StagesAgree'
  BY DEF ThreadInv, StagesAgree
<1> QED  BY <1>1, <1>2, <1>3, <1>4

\* A load goes from the load queue to memory.
LEMMA IssueLoadInv ==
    ASSUME ThreadInv, NEW x \in UopIds, IssueLoad(x) PROVE ThreadInv'
<1> USE DEF IssueLoad
<1>1. Path' = Path /\ SpecInv' /\ EndInv' /\ StagesAgree'
  BY QuietStep
<1>2. ThreadTypes'
  BY DEF ThreadInv, ThreadTypes, Contexts
<1>3. x \in loadq /\ Waiting' = Waiting
  BY DEF Waiting
<1>4. PathInv'
  BY <1>1, <1>3 DEF ThreadInv, PathInv
<1>5. WaitInv'
  BY <1>1, <1>3 DEF ThreadInv, WaitInv
<1> QED  BY <1>1, <1>2, <1>4, <1>5 DEF ThreadInv

\* A committed store goes from the store queue to memory.
LEMMA IssueStoreInv ==
    ASSUME ThreadInv, IssueStore PROVE ThreadInv'
<1> USE DEF IssueStore
<1> DEFINE x == Head(storeq)
<1>1. Path' = Path /\ SpecInv' /\ EndInv' /\ StagesAgree'
  BY QuietStep
<1>2. /\ x \in UopIds /\ storeq' \in Seq(UopIds)
      /\ Range(storeq) = Range(storeq') \cup {x} /\ x \notin Range(storeq')
      /\ IsInjective(storeq')
  BY TailRange DEF ThreadInv, ThreadTypes, WaitInv
<1>3. memory' = memory \cup {x} /\ x \notin Range(rob)
  OBVIOUS
<1> HIDE DEF x
<1>4. ThreadTypes'
  BY <1>2, <1>3 DEF ThreadInv, ThreadTypes, Contexts
<1>5. Waiting' = Waiting
  BY <1>2, <1>3 DEF Waiting
<1>6. PathInv'
  BY <1>1, <1>5 DEF ThreadInv, PathInv
<1>7. WaitInv'
  BY <1>1, <1>2, <1>3 DEF ThreadInv, WaitInv
<1> QED  BY <1>1, <1>4, <1>6, <1>7 DEF ThreadInv

\* An instruction goes from the instruction queue to the event queue.
LEMMA IssueInstructionInv ==
    ASSUME ThreadInv, NEW x \in UopIds, IssueInstruction(x) PROVE ThreadInv'
<1> USE DEF IssueInstruction
<1>1. Path' = Path /\ SpecInv' /\ EndInv' /\ StagesAgree'
  BY QuietStep
<1>2. ThreadTypes'
  BY DEF ThreadInv, ThreadTypes, Contexts
<1>3. x \in iq /\ Waiting' = Waiting
  BY DEF Waiting
<1>4. PathInv'
  BY <1>1, <1>3 DEF ThreadInv, PathInv
<1>5. WaitInv'
  BY <1>1, <1>3 DEF ThreadInv, WaitInv, IsMem
<1> QED  BY <1>1, <1>2, <1>4, <1>5 DEF ThreadInv

\* A memory access goes to the event queue.
LEMMA MemoryAccessEndInv ==
    ASSUME ThreadInv, NEW x \in UopIds, MemoryAccessEnd(x) PROVE ThreadInv'
<1> USE DEF MemoryAccessEnd
<1>1. Path' = Path /\ SpecInv' /\ EndInv' /\ StagesAgree'
  BY QuietStep
<1>2. ThreadTypes'
  BY DEF ThreadInv, ThreadTypes, Contexts
<1>3. x \in memory /\ Waiting' = Waiting
  BY DEF Waiting
<1>4. PathInv'
  BY <1>1, <1>3 DEF ThreadInv, PathInv
<1>5. WaitInv'
  BY <1>1, <1>3 DEF ThreadInv, WaitInv
<1> QED  BY <1>1, <1>2, <1>4, <1>5 DEF ThreadInv
-----------------------------------------------------------------------------
(***************************************************************************)
(* The invariant is kept by every action.                                  *)
(***************************************************************************)
\* Nothing is speculative in an empty pipeline.
LEMMA EmptyIsRight ==
    ASSUME ThreadInv, isPipelineEmpty PROVE Path = <<>> /\ ~ spec
<1>1. Path = <<>>
  <2>1. PathOf(rob, uopq, fetchq, Path)
    BY PathIs DEF Path, ThreadInv, ThreadTypes
  <2> QED  BY <2>1 DEF PathOf, isPipelineEmpty
<1>2. spec <=> \E i \in DOMAIN Path : uops[Path[i]].spec
  BY DEF ThreadInv, SpecInv, Ordered
<1> QED  BY <1>1, <1>2

\* An allocated context is one that is running.
LEMMA AllocatedIs ==
    ASSUME ThreadInv, NEW list \in Seq(Contexts), Allocated(list) # None
    PROVE  Allocated(list) \in Contexts /\ Running(Allocated(list))
<1> DEFINE S == {i \in DOMAIN list : Running(list[i])}
           g == [i \in S |-> i]
           i0 == CHOOSE i \in S : \A j \in S : i <= j
<1>1. S # {} /\ Allocated(list) = list[i0]
  BY DEF Allocated
<1>2. DOMAIN list = 1 .. Len(list) /\ \A i \in DOMAIN list : list[i] \in Contexts
  OBVIOUS
<1>3. g \in [S -> Nat] /\ \A i \in S : g[i] = i
  BY <1>2
<1>4. \A i \in S : i \in DOMAIN list /\ Running(list[i])
  OBVIOUS
<1> HIDE DEF S, g
<1>5. \E i \in S : \A j \in S : g[i] <= g[j]
  BY <1>1, <1>3, LeastExists
<1>6. i0 \in S
  BY <1>3, <1>5
<1> QED  BY <1>1, <1>2, <1>4, <1>6

\* The scheduler evicts from an empty pipeline only, and never in speculative mode.
LEMMA ScheduleInv ==
    ASSUME ThreadInv, NEW expired \in BOOLEAN, Schedule(expired) PROVE ThreadInv'
<1> DEFINE now == Signalled(expired) /\ isPipelineEmpty
           old == IF now THEN AfterEviction ELSE mapped
           list == Only(old, {c \in Contexts : Running(c) \/ (c = context /\ ~ now)})
           free == context = None \/ now
           next == Allocated(list)
<1>1. /\ mapped' = list
      /\ context' = IF free THEN next ELSE context
      /\ evict' = (~ free /\ (evict \/ Signalled(expired)))
      /\ signal' = (now \/ (free /\ next # None) \/ Len(list) < Len(mapped))
      /\ astray' = IF free THEN FALSE ELSE astray
      /\ failed' = failed \cup (IF now /\ ~ Running(context) THEN {"null_context"} ELSE {})
                            \cup (IF now /\ spec THEN {"speculative_eviction"} ELSE {})
      /\ UNCHANGED <<cf, pc, spec, uops, fetchq, uopq, rob, iq, loadq, storeq,
                       memory, events, rf>>
  BY DEF Schedule
<1>2. Path' = Path /\ Waiting' = Waiting /\ Contexts' = Contexts
      /\ \A c : Running(c)' <=> Running(c)
  BY <1>1 DEF Path, Waiting, Contexts, Running
<1>3. list \in Seq(Contexts)
  <2>1. mapped \in Seq(Contexts)
    BY DEF ThreadInv, ThreadTypes
  <2>2. ASSUME context # None PROVE AfterEviction \in Seq(Contexts)
    <3>1. Only(mapped, Contexts \ {context}) \in Seq(Contexts)
      BY <2>1, OnlyRange
    <3>2. context \in Contexts
      BY <2>2 DEF ThreadInv, ThreadTypes
    <3> HIDE DEF old, list, now
    <3> QED  BY <3>1, <3>2 DEF AfterEviction
  <2>3. old \in Seq(Contexts)
    BY <2>1, <2>2 DEF Signalled
  <2> HIDE DEF old, now
  <2> QED  BY <2>3, OnlyRange
<1>4. next \in Contexts \cup {None} /\ (next # None => Running(next))
  <2> HIDE DEF list
  <2> QED  BY <1>3, AllocatedIs
<1>5. now => Path = <<>> /\ ~ spec
  BY EmptyIsRight
<1>6. now => context # None /\ ~ evict
  BY DEF Signalled
<1>7. now => Running(context)
  BY <1>5, <1>6 DEF ThreadInv, EndInv
<1>8. context # None /\ ~ evict /\ ~ Running(context) => Signalled(expired)
  BY DEF Signalled
<1> HIDE DEF now, list, next
<1>9. ThreadTypes'
  <2>1. context' \in Contexts \cup {None}
    BY <1>1, <1>4 DEF ThreadInv, ThreadTypes
  <2>2. evict' \in BOOLEAN /\ signal' \in BOOLEAN /\ astray' \in BOOLEAN
    BY <1>1 DEF ThreadInv, ThreadTypes
  <2> QED  BY <1>1, <1>2, <1>3, <2>1, <2>2 DEF ThreadInv, ThreadTypes
<1>10. PathInv'
  <2>1. context' = None => Path = <<>>
    BY <1>1, <1>5 DEF ThreadInv, PathInv
  <2> QED  BY <1>1, <1>2, <2>1 DEF ThreadInv, PathInv
<1>11. SpecInv'
  BY <1>1, <1>2 DEF ThreadInv, SpecInv
<1>12. WaitInv'
  BY <1>1, <1>2 DEF ThreadInv, WaitInv
<1>13. EndInv'
  <2>1. CASE free
    <3>1. context' # None => Running(context')
      BY <1>1, <1>4, <2>1
    <3> QED  BY <1>2, <3>1 DEF EndInv
  <2>2. CASE ~ free
    <3>1. context' = context /\ context # None /\ (evict' <=> (evict \/ Signalled(expired)))
      BY <1>1, <2>2
    <3> QED  BY <1>2, <1>8, <3>1 DEF EndInv
  <2> QED  BY <2>1, <2>2
<1>14. StagesAgree'
  <2>1. failed' = failed
    BY <1>1, <1>5, <1>7
  <2> QED  BY <2>1 DEF ThreadInv, StagesAgree
<1> QED  BY <1>9, <1>10, <1>11, <1>12, <1>13, <1>14 DEF ThreadInv

\* What Decode takes is the first macro-instruction.
LEMMA DecodeInv ==
    ASSUME ThreadInv, Decode PROVE ThreadInv' /\ Path' = Path
<1> DEFINE later == {i \in 2 .. Len(fetchq) : uops[fetchq[i]].index = 0}
           least == CHOOSE i \in later : \A j \in later : i <= j
           n == IF later = {} THEN Len(fetchq) ELSE least - 1
           a == SubSeq(fetchq, 1, n)
           b == SubSeq(fetchq, n + 1, Len(fetchq))
           g == [i \in later |-> i]
<1>1. /\ fetchq # <<>> /\ uopq' = uopq \o a /\ fetchq' = b
      /\ failed' = IF uops[Head(fetchq)].index # 0
                     THEN failed \cup {"decode_inside_instruction"} ELSE failed
      /\ UNCHANGED <<cf, context, evict, mapped, signal, pc, spec, astray, uops, rob,
                       iq, loadq, storeq, memory, events, rf>>
  BY DEF Decode
<1>2. rob \in Seq(UopIds) /\ uopq \in Seq(UopIds) /\ fetchq \in Seq(UopIds)
  BY DEF ThreadInv, ThreadTypes
<1>3. Len(fetchq) \in Nat \ {0}
  <2>1. fetchq \in Seq(UopIds) /\ fetchq # <<>>
    BY <1>1, <1>2
  <2> QED  BY <2>1, TailIndex
<1>4. later # {} => least \in later
  <2>1. later \in SUBSET Nat /\ g \in [later -> Nat] /\ \A i \in later : g[i] = i
    BY <1>3
  <2> HIDE DEF later, g
  <2>2. later # {} => \E i \in later : \A j \in later : g[i] <= g[j]
    BY <2>1, LeastExists
  <2>3. later # {} => \E i \in later : \A j \in later : i <= j
    BY <2>1, <2>2
  <2> QED  BY <2>3
<1>5. n \in 1 .. Len(fetchq) /\ n \in 0 .. Len(fetchq)
      /\ (n # Len(fetchq) => uops[fetchq[n + 1]].index = 0)
  <2>1. CASE later = {}
    BY <1>3, <2>1
  <2>2. CASE later # {}
    <3>1. least \in 2 .. Len(fetchq) /\ uops[fetchq[least]].index = 0
      BY <1>4, <2>2
    <3>2. n = least - 1
      BY <2>2
    <3> HIDE DEF n, least
    <3> QED  BY <1>3, <3>1, <3>2
  <2> QED  BY <2>1, <2>2
<1> HIDE DEF n
<1>6. a \in Seq(UopIds) /\ Len(a) = n
  BY <1>2, <1>5, SplitIs
<1>7. b \in Seq(UopIds) /\ Len(b) = Len(fetchq) - n
  BY <1>2, <1>5, SplitIs
<1>8. a \o b = fetchq
  BY <1>2, <1>5, SplitIs
<1>9. \A i \in 1 .. Len(fetchq) - n : b[i] = fetchq[n + i]
  BY <1>2, <1>5, SplitIs
<1> HIDE DEF a, b
<1>10. Path' = Path
  <2>1. a \in Seq(UopIds) /\ b \in Seq(UopIds)
    BY <1>6, <1>7
  <2>2. Then(Then(rob, uopq), a) = Then(rob, Then(uopq, a)) /\ Then(rob, uopq) \in Seq(UopIds)
    BY <1>2, <2>1, ThenAssoc
  <2> DEFINE r == Then(rob, uopq)
  <2> HIDE DEF r
  <2>3. Then(Then(r, a), b) = Then(r, Then(a, b))
    <3>1. r \in Seq(UopIds)
      BY <2>2 DEF r
    <3> QED  BY <2>1, <3>1, ThenAssoc
  <2>4. Path' = Then(Then(rob, Then(uopq, a)), b) /\ Path = Then(r, fetchq)
    BY <1>1 DEF Path, Then, r
  <2>5. Then(a, b) = fetchq
    BY <1>8 DEF Then
  <2> QED  BY <2>2, <2>3, <2>4, <2>5 DEF r
<1>11. uopq' \in Seq(UopIds) /\ Range(uopq') = Range(uopq) \cup Range(a)
  BY <1>1, <1>2, <1>6, ConcatRange
<1>12. Range(fetchq) = Range(a) \cup Range(b)
  BY <1>6, <1>7, <1>8, ConcatRange
<1>13. Waiting' = Waiting /\ Contexts' = Contexts
  BY <1>1 DEF Waiting, Contexts
<1>14. ThreadTypes'
  <2>1. fetchq' \in Seq(UopIds)
    BY <1>1, <1>7
  <2> QED  BY <1>1, <1>11, <1>13, <2>1 DEF ThreadInv, ThreadTypes
<1>15. PathInv'
  <2>1. Range(uopq') \cup Range(fetchq') = Range(uopq) \cup Range(fetchq)
    BY <1>1, <1>11, <1>12
  <2> QED  BY <1>1, <1>10, <1>13, <2>1 DEF ThreadInv, PathInv
<1>16. SpecInv'
  <2>1. fetchq' # <<>> => uops[Head(fetchq')].index = 0
    <3> SUFFICES ASSUME b # <<>> PROVE uops[Head(b)].index = 0
      BY <1>1
    <3>1. Head(b) = b[1] /\ Len(b) >= 1
      BY <1>7
    <3>2. 1 \in 1 .. Len(fetchq) - n /\ n # Len(fetchq)
      BY <1>3, <1>5, <1>7, <3>1
    <3> QED  BY <1>5, <1>9, <3>1, <3>2
  <2> QED  BY <1>1, <1>10, <2>1 DEF ThreadInv, SpecInv
<1>17. WaitInv'
  BY <1>1, <1>10 DEF ThreadInv, WaitInv
<1>18. EndInv'
  BY <1>1, <1>10 DEF ThreadInv, EndInv, Running
<1>19. StagesAgree'
  BY <1>1 DEF ThreadInv, SpecInv, StagesAgree
<1> QED  BY <1>10, <1>14, <1>15, <1>16, <1>17, <1>18, <1>19 DEF ThreadInv

\* Uops vs are the uops us but for their registers and whether they are completed.
Alike(P, us, vs) ==
    \A x \in Range(P) : /\ us[x] # NoUop /\ vs[x] # NoUop
                        /\ vs[x].spec = us[x].spec /\ vs[x].index = us[x].index
                        /\ vs[x].position = us[x].position /\ vs[x].first = us[x].first

\* A uop goes from the uop queue to the reorder buffer and to where it waits.
LEMMA DispatchInv ==
    ASSUME ThreadInv, Dispatch PROVE ThreadInv' /\ Path' = Path /\ Alike(Path, uops, uops')
<1> DEFINE x == Head(uopq)
           u == uops[x]
           ren == Rename(rf, u.inst)
<1> HIDE DEF ren
<1>1. /\ uopq # <<>> /\ uopq' = Tail(uopq)
      /\ uops' = [uops EXCEPT ![x] = [u EXCEPT !.in = ren.in, !.out = ren.out,
                                                 !.old = ren.old, !.dst = ren.dst]]
      /\ rob' = Append(rob, x)
      /\ iq' = IF IsMem(u) THEN iq ELSE iq \cup {x}
      /\ loadq' = IF u.inst.op = "load" THEN loadq \cup {x} ELSE loadq
      /\ storeq' = IF u.inst.op = "store" THEN Append(storeq, x) ELSE storeq
      /\ failed' = IF u.inst.op = "prefetch" THEN failed \cup {"invalid_opcode"} ELSE failed
      /\ UNCHANGED <<cf, context, evict, mapped, signal, pc, spec, astray, fetchq,
                       memory, events>>
  BY DEF Dispatch, canDispatch, ren
<1>2. /\ rob \in Seq(UopIds) /\ uopq \in Seq(UopIds) /\ fetchq \in Seq(UopIds)
      /\ storeq \in Seq(UopIds)
  BY DEF ThreadInv, ThreadTypes
<1>3. /\ x \in UopIds /\ Tail(uopq) \in Seq(UopIds) /\ x \in Range(uopq)
      /\ Range(uopq) = Range(Tail(uopq)) \cup {x}
      /\ IsInjective(uopq) => Range(Tail(uopq)) = Range(uopq) \ {x}
  BY <1>1, <1>2, TailRange
<1>4. uopq = <<x>> \o Tail(uopq)
  BY <1>1, <1>2, HeadAndTail
<1> HIDE DEF x
<1>5. PathOf(rob, uopq, fetchq, Path)
  BY <1>2, PathIs DEF Path
<1>6. /\ Range(Path) = Range(rob) \cup Range(uopq) \cup Range(fetchq)
      /\ Range(Path) \in SUBSET UopIds
  BY <1>5 DEF PathOf
<1>7. /\ Range(uopq) \cap Range(fetchq) = {} /\ IsInjective(uopq)
      /\ Range(rob) \cap (Range(uopq) \cup Range(fetchq)) = {}
  <2>1. IsInjective(rob \o uopq \o fetchq)
    BY DEF ThreadInv, PathInv, Path
  <2> DEFINE r == rob \o uopq
  <2>2. r \in Seq(UopIds) /\ Range(r) = Range(rob) \cup Range(uopq)
        /\ (IsInjective(r) <=> IsInjective(rob) /\ IsInjective(uopq) /\ Range(rob) \cap Range(uopq) = {})
    BY <1>2, ConcatRange
  <2> HIDE DEF r
  <2>3. IsInjective(r) /\ Range(r) \cap Range(fetchq) = {}
    <3>1. r \in Seq(UopIds) /\ IsInjective(r \o fetchq)
      BY <2>1, <2>2 DEF r
    <3> QED  BY <1>2, <3>1, ConcatRange
  <2> QED  BY <2>2, <2>3
<1>8. Path' = Path
  <2> DEFINE h == <<x>>
             t == Tail(uopq)
  <2>1. h \in Seq(UopIds) /\ t \in Seq(UopIds) /\ Append(rob, x) = rob \o h
    BY <1>2, <1>3
  <2>2. uopq = Then(h, t) /\ Append(rob, x) = Then(rob, h)
    BY <1>4, <2>1 DEF Then
  <2> HIDE DEF h, t
  <2>3. Then(Then(rob, h), t) = Then(rob, Then(h, t))
    BY <1>2, <2>1, ThenAssoc
  <2>4. Path' = Then(Then(Then(rob, h), t), fetchq)
    BY <1>1, <2>2 DEF Path, Then, t
  <2> QED  BY <2>2, <2>3, <2>4 DEF Path, Then
<1>9. uops[x] # NoUop /\ IsUop(u) /\ DOMAIN uops = UopIds
  BY <1>3, <1>6 DEF ThreadInv, PathInv, ThreadTypes
<1>10. /\ DOMAIN uops' = UopIds /\ \A y \in UopIds \ {x} : uops'[y] = uops[y]
       /\ uops'[x] = [u EXCEPT !.in = ren.in, !.out = ren.out, !.old = ren.old, !.dst = ren.dst]
  <2> HIDE DEF u
  <2> QED  BY <1>1, <1>3, <1>9
<1>11. /\ DOMAIN uops'[x] = DOMAIN u /\ uops'[x].op = u.op /\ uops'[x].inst = u.inst
       /\ uops'[x].index = u.index
       /\ uops'[x].position = u.position /\ uops'[x].spec = u.spec /\ uops'[x].first = u.first
       /\ uops'[x].completed = u.completed
  <2>1. DOMAIN u = Fields
    BY <1>9 DEF IsUop
  <2> HIDE DEF u
  <2> QED  BY <1>10, <2>1 DEF Fields
<1>12. IsUop(uops'[x]) /\ uops'[x] # NoUop
  BY <1>9, <1>11 DEF IsUop, NoUop
<1>13. \A y \in UopIds : /\ uops'[y].inst = uops[y].inst /\ uops'[y].spec = uops[y].spec
                         /\ uops'[y].index = uops[y].index /\ uops'[y].position = uops[y].position
                         /\ uops'[y].first = uops[y].first
                         /\ uops'[y].completed = uops[y].completed
                         /\ (uops'[y] = NoUop <=> uops[y] = NoUop)
  <2> SUFFICES ASSUME NEW y \in UopIds
               PROVE  /\ uops'[y].inst = uops[y].inst /\ uops'[y].spec = uops[y].spec
                      /\ uops'[y].index = uops[y].index /\ uops'[y].position = uops[y].position
                      /\ uops'[y].first = uops[y].first
                      /\ uops'[y].completed = uops[y].completed
                      /\ (uops'[y] = NoUop <=> uops[y] = NoUop)
    OBVIOUS
  <2>1. CASE y = x
    BY <1>9, <1>11, <1>12, <2>1
  <2>2. CASE y # x
    BY <1>10, <2>2
  <2> QED  BY <2>1, <2>2
<1>14. Alike(Path, uops, uops')
  BY <1>6, <1>13 DEF Alike, ThreadInv, PathInv
<1>15. x \notin Waiting /\ x \in Range(Path) /\ x \notin Range(fetchq) \cup Range(Tail(uopq))
  BY <1>3, <1>6, <1>7 DEF ThreadInv, PathInv
<1>16. storeq' \in Seq(UopIds) /\ Range(storeq') \subseteq Range(storeq) \cup {x}
       /\ IsInjective(storeq') /\ (u.inst.op # "store" => storeq' = storeq)
  <2>1. x \notin Range(storeq) /\ IsInjective(storeq)
    BY <1>15 DEF Waiting, ThreadInv, WaitInv
  <2>2. /\ Append(storeq, x) \in Seq(UopIds) /\ IsInjective(Append(storeq, x))
        /\ Range(Append(storeq, x)) = Range(storeq) \cup {x}
    BY <1>2, <1>3, <2>1, AppendRange
  <2> HIDE DEF u
  <2> QED  BY <1>1, <1>2, <2>1, <2>2
<1>17. rob' \in Seq(UopIds) /\ Range(rob') = Range(rob) \cup {x}
  BY <1>1, <1>2, <1>3, AppendRange
<1>18. ThreadTypes'
  <2>1. /\ iq' \in SUBSET UopIds /\ loadq' \in SUBSET UopIds /\ uopq' \in Seq(UopIds)
        /\ Contexts' = Contexts
    BY <1>1, <1>3 DEF ThreadInv, ThreadTypes, Contexts
  <2>2. \A y \in UopIds : uops'[y] = NoUop \/ IsUop(uops'[y])
    BY <1>10, <1>12 DEF ThreadInv, ThreadTypes
  <2> HIDE DEF u
  <2> QED  BY <1>1, <1>10, <1>16, <1>17, <2>1, <2>2 DEF ThreadInv, ThreadTypes
<1>19. Waiting' \subseteq Waiting \cup {x} /\ Waiting \in SUBSET UopIds
  <2>1. Waiting \in SUBSET UopIds
    <3>1. Range(storeq) \in SUBSET UopIds
      BY <1>2 DEF Range
    <3> QED  BY <3>1 DEF Waiting, ThreadInv, ThreadTypes
  <2>2. /\ iq' \subseteq iq \cup {x} /\ loadq' \subseteq loadq \cup {x}
        /\ memory' = memory /\ events' = events
    BY <1>1
  <2> QED  BY <1>16, <2>1, <2>2 DEF Waiting
<1>20. PathInv'
  <2>1. \A y \in Range(Path) \cup Waiting : uops[y] # NoUop
    BY DEF ThreadInv, PathInv
  <2>2. \A y \in Range(Path') \cup Waiting' : uops'[y] # NoUop
    BY <1>6, <1>8, <1>13, <1>15, <1>19, <2>1
  <2>3. Waiting' \cap (Range(uopq') \cup Range(fetchq')) = {}
    <3>1. Waiting \cap (Range(uopq) \cup Range(fetchq)) = {}
      BY DEF ThreadInv, PathInv
    <3>2. uopq' = Tail(uopq) /\ fetchq' = fetchq
      BY <1>1
    <3> QED  BY <1>3, <1>15, <1>19, <3>1, <3>2
  <2>4. context' = context /\ (context = None => Path = <<>>) /\ IsInjective(Path)
    BY <1>1 DEF ThreadInv, PathInv
  <2> QED  BY <1>8, <2>2, <2>3, <2>4 DEF PathInv
<1>21. SpecInv'
  <2>1. \A i \in DOMAIN Path : Path[i] \in UopIds
    BY <1>6 DEF Range
  <2>2. Ordered(Path, uops', spec)
    <3>1. Ordered(Path, uops, spec)
      BY DEF ThreadInv, SpecInv
    <3> QED  BY <1>13, <2>1, <3>1, OrderedSame
  <2>3. fetchq # <<>> => uops'[Head(fetchq)].index = 0
    <3>1. fetchq # <<>> => Head(fetchq) \in UopIds
      BY <1>2
    <3> QED  BY <1>13, <3>1 DEF ThreadInv, SpecInv
  <2> QED  BY <1>1, <1>8, <2>2, <2>3 DEF SpecInv
<1>22. WaitInv'
  <2>1. \A y \in iq' : ~ IsMem(uops'[y])
    BY <1>1, <1>3, <1>13 DEF ThreadInv, ThreadTypes, WaitInv, IsMem
  <2>2. \A y \in loadq' : uops'[y].inst.op = "load"
    BY <1>1, <1>3, <1>13 DEF ThreadInv, ThreadTypes, WaitInv
  <2>3. \A y \in Range(storeq') : uops'[y].inst.op = "store"
    <3>1. Range(storeq) \in SUBSET UopIds /\ \A y \in Range(storeq) : uops[y].inst.op = "store"
      BY <1>2 DEF ThreadInv, WaitInv, Range
    <3>2. x \in Range(storeq') => u.inst.op = "store"
      BY <1>15, <1>16 DEF Waiting
    <3> QED  BY <1>3, <1>13, <1>16, <3>1, <3>2
  <2>4. /\ \A y \in memory' : uops'[y].inst.op \in {"load", "store"}
        /\ \A y \in memory' \cup events' : uops'[y].inst.op = "store" => y \notin Range(rob')
    <3>1. memory \in SUBSET UopIds /\ events \in SUBSET UopIds
          /\ memory' = memory /\ events' = events /\ x \notin memory \cup events
      BY <1>1, <1>15 DEF ThreadInv, ThreadTypes, Waiting
    <3> QED  BY <1>13, <1>17, <3>1 DEF ThreadInv, WaitInv
  <2>5. (loadq' \cup Range(storeq')) \cap (memory' \cup events') = {} /\ memory' \cap events' = {}
    <3>1. loadq' \subseteq loadq \cup {x} /\ memory' = memory /\ events' = events
          /\ x \notin memory \cup events
      BY <1>1, <1>15 DEF Waiting
    <3> QED  BY <1>16, <3>1 DEF ThreadInv, WaitInv
  <2>6. cf'.atWriteback => \A y \in UopIds : uops'[y] # NoUop /\ uops'[y].first =>
                              y \in Range(Path') /\ ~ uops'[y].completed
    <3>1. cf' = cf
      BY <1>1
    <3> QED  BY <1>8, <1>13, <3>1 DEF ThreadInv, WaitInv
  <2> QED  BY <1>16, <2>1, <2>2, <2>3, <2>4, <2>5, <2>6 DEF WaitInv
<1>23. EndInv' /\ StagesAgree'
  BY <1>1, <1>8 DEF ThreadInv, EndInv, Running, StagesAgree
<1> QED  BY <1>8, <1>14, <1>18, <1>20, <1>21, <1>22, <1>23 DEF ThreadInv

\* What a fetch does to the pipeline, on the right path or on a wrong one.
LEMMA FetchStep ==
    ASSUME ThreadInv, NEW mop, NEW sp \in BOOLEAN, NEW pos, NEW new, Fetches(new, mop, sp, pos),
           context # None,
           UNCHANGED <<cf, context, evict, mapped, uopq, rob, iq, loadq, storeq, memory, events,
                       failed>>
    PROVE  /\ Path' = Then(Path, new) /\ Path' # <<>> /\ fetchq' \in Seq(UopIds)
           /\ Path \in Seq(UopIds) /\ new \in Seq(UopIds) /\ Alike(Path, uops, uops')
           /\ \A x \in UopIds : uops'[x] = NoUop \/ IsUop(uops'[x])
           /\ PathInv' /\ WaitInv' /\ StagesAgree'
           /\ (fetchq # <<>> => uops[Head(fetchq)].index = 0)'
<1>1. /\ new \in Seq(UopIds) /\ Len(new) = Len(mop) /\ new # <<>> /\ IsInjective(new)
      /\ fetchq' = fetchq \o new
      /\ \A x \in Range(new) : uops[x] = NoUop
      /\ DOMAIN uops' = UopIds
      /\ \A x \in UopIds \ Range(new) : uops'[x] = uops[x]
      /\ \A i \in 1 .. Len(new) :
            /\ IsUop(uops'[new[i]]) /\ uops'[new[i]].index = i - 1
            /\ uops'[new[i]].first = (sp /\ ~ spec /\ i = 1)
            /\ ~ uops'[new[i]].completed
  BY DEF Fetches
<1>2. /\ rob \in Seq(UopIds) /\ uopq \in Seq(UopIds) /\ fetchq \in Seq(UopIds)
      /\ storeq \in Seq(UopIds)
  BY DEF ThreadInv, ThreadTypes
<1>3. PathOf(rob, uopq, fetchq, Path)
  BY <1>2, PathIs DEF Path
<1>4. /\ Range(Path) = Range(rob) \cup Range(uopq) \cup Range(fetchq)
      /\ Range(Path) \in SUBSET UopIds /\ Path \in Seq(UopIds)
  BY <1>3 DEF PathOf
<1>5. \A x \in Range(new) : IsUop(uops'[x]) /\ uops'[x] # NoUop /\ ~ uops'[x].completed
  <2>1. \A i \in 1 .. Len(new) : uops'[new[i]] # NoUop
    BY <1>1 DEF IsUop, NoUop
  <2>2. DOMAIN new = 1 .. Len(new)
    BY <1>1
  <2> QED  BY <1>1, <2>1, <2>2 DEF Range
<1>6. Path' = Then(Path, new)
  <2> DEFINE r == Then(rob, uopq)
  <2>1. r \in Seq(UopIds)
    BY <1>2, ThenAssoc
  <2> HIDE DEF r
  <2>2. Then(Then(r, fetchq), new) = Then(r, Then(fetchq, new))
    BY <1>1, <1>2, <2>1, ThenAssoc
  <2>3. Path = Then(r, fetchq) /\ Path' = Then(r, Then(fetchq, new))
    BY <1>1 DEF Path, Then, r
  <2> QED  BY <2>2, <2>3
<1>7. Range(new) \cap (Range(Path) \cup Waiting) = {} /\ Waiting \in SUBSET UopIds
  <2>1. \A x \in Range(Path) \cup Waiting : uops[x] # NoUop
    BY DEF ThreadInv, PathInv
  <2>2. Range(storeq) \in SUBSET UopIds
    BY <1>2 DEF Range
  <2>3. Waiting \in SUBSET UopIds
    BY <2>2 DEF Waiting, ThreadInv, ThreadTypes
  <2> QED  BY <1>1, <2>1, <2>3
<1>8. /\ Range(Path') = Range(Path) \cup Range(new) /\ IsInjective(Path')
      /\ fetchq' \in Seq(UopIds) /\ Range(fetchq') = Range(fetchq) \cup Range(new)
  <2>1. IsInjective(Path)
    BY DEF ThreadInv, PathInv
  <2>2. Range(Path') = Range(Path) \cup Range(new) /\ IsInjective(Path')
    BY <1>1, <1>4, <1>6, <1>7, <2>1, ConcatRange DEF Then
  <2>3. fetchq' \in Seq(UopIds) /\ Range(fetchq') = Range(fetchq) \cup Range(new)
    BY <1>1, <1>2, ConcatRange
  <2> QED  BY <2>2, <2>3
<1>9. Path' # <<>>
  <2>1. new[1] \in Range(new)
    BY <1>1 DEF Range
  <2>2. Range(<<>>) = {}
    BY DEF Range
  <2> QED  BY <1>8, <2>1, <2>2
<1>10. \A x \in Range(Path) \cup Waiting : uops'[x] = uops[x] /\ uops[x] # NoUop
  <2>1. \A x \in Range(Path) \cup Waiting : uops[x] # NoUop
    BY DEF ThreadInv, PathInv
  <2>2. \A x \in Range(Path) \cup Waiting : x \in UopIds \ Range(new)
    BY <1>4, <1>7
  <2> QED  BY <1>1, <2>1, <2>2
<1>11. Alike(Path, uops, uops')
  BY <1>10 DEF Alike
<1>12. Waiting' = Waiting
  BY DEF Waiting
<1>13. PathInv'
  <2>1. \A x \in Range(Path') \cup Waiting' : uops'[x] # NoUop
    BY <1>5, <1>8, <1>10, <1>12
  <2>2. Waiting' \cap (Range(uopq') \cup Range(fetchq')) = {}
    BY <1>7, <1>8, <1>12 DEF ThreadInv, PathInv
  <2> QED  BY <1>8, <2>1, <2>2 DEF PathInv
<1>14. WaitInv'
  <2>1. /\ \A x \in iq \cup loadq \cup Range(storeq) \cup memory \cup events : uops'[x] = uops[x]
        /\ iq' = iq /\ loadq' = loadq /\ storeq' = storeq /\ memory' = memory /\ events' = events
        /\ rob' = rob /\ cf' = cf
    BY <1>10 DEF Waiting
  <2>2. /\ \A x \in iq' : ~ IsMem(uops'[x])
        /\ \A x \in loadq' : uops'[x].inst.op = "load"
        /\ \A x \in Range(storeq') : uops'[x].inst.op = "store"
        /\ \A x \in memory' : uops'[x].inst.op \in {"load", "store"}
        /\ \A x \in memory' \cup events' : uops'[x].inst.op = "store" => x \notin Range(rob')
    BY <2>1 DEF ThreadInv, WaitInv, IsMem
  <2>3. cf.atWriteback => \A x \in UopIds : uops'[x] # NoUop /\ uops'[x].first =>
                              x \in Range(Path') /\ ~ uops'[x].completed
    <3> SUFFICES ASSUME cf.atWriteback, NEW x \in UopIds, uops'[x] # NoUop, uops'[x].first
                 PROVE  x \in Range(Path') /\ ~ uops'[x].completed
      OBVIOUS
    <3>1. CASE x \in Range(new)
      BY <1>5, <1>8, <3>1
    <3>2. CASE x \notin Range(new)
      <4>1. uops'[x] = uops[x]
        BY <1>1, <3>2
      <4> QED  BY <1>8, <4>1 DEF ThreadInv, WaitInv
    <3> QED  BY <3>1, <3>2
  <2>4. (loadq' \cup Range(storeq')) \cap (memory' \cup events') = {} /\ memory' \cap events' = {}
        /\ IsInjective(storeq')
    BY <2>1 DEF ThreadInv, WaitInv
  <2> QED  BY <2>1, <2>2, <2>3, <2>4 DEF WaitInv
<1>15. (fetchq # <<>> => uops[Head(fetchq)].index = 0)'
  <2>1. Head(fetchq') = IF fetchq = <<>> THEN new[1] ELSE Head(fetchq)
    BY <1>1, <1>2
  <2>2. CASE fetchq = <<>>
    <3>1. 1 \in 1 .. Len(new) /\ 1 - 1 = 0
      BY <1>1
    <3> QED  BY <1>1, <2>1, <2>2, <3>1
  <2>3. CASE fetchq # <<>>
    <3>1. Head(fetchq) \in Range(Path)
      BY <1>2, <1>4, <2>3, TailRange
    <3> QED  BY <1>10, <2>1, <2>3, <3>1 DEF ThreadInv, SpecInv
  <2> QED  BY <2>2, <2>3
<1>16. \A x \in UopIds : uops'[x] = NoUop \/ IsUop(uops'[x])
  BY <1>1, <1>5 DEF ThreadInv, ThreadTypes
<1>17. StagesAgree'
  BY DEF ThreadInv, StagesAgree
<1> QED  BY <1>1, <1>4, <1>6, <1>8, <1>9, <1>11, <1>13, <1>14, <1>15, <1>16, <1>17

\* The instruction that a context comes to next.
LEMMA NextInstruction ==
    ASSUME ThreadInv, context # None, Running(context)
    PROVE  /\ context \in Contexts /\ context \in ContextIds /\ pc[context] \in Nat
           /\ Len(cf.programs[context]) \in Nat
           /\ pc[context] + 1 \in 1 .. Len(cf.programs[context])
           /\ pc[context] + 1 \in 1 .. MaxLength
           /\ cf.programs[context][pc[context] + 1] \in Macros
<1>1. context \in DOMAIN cf.programs /\ pc[context] \in Nat
      /\ pc[context] < Len(cf.programs[context]) /\ cf \in Configs
  BY DEF ThreadInv, ThreadTypes, Contexts, Running
<1>2. /\ cf.programs \in Seq(Seq(Macros)) /\ DOMAIN cf.programs \subseteq ContextIds
      /\ Len(cf.programs[context]) <= MaxLength /\ MaxLength \in Nat
  BY <1>1, ConfigAssumption
<1> DEFINE p == cf.programs[context]
<1>3. p \in Seq(Macros)
  BY <1>1, <1>2
<1>4. context \in ContextIds
  BY <1>1, <1>2
<1>5. p = cf.programs[context]
  OBVIOUS
<1> HIDE DEF p
<1>6. /\ Len(p) \in Nat /\ pc[context] + 1 \in 1 .. Len(p) /\ pc[context] + 1 \in 1 .. MaxLength
  BY <1>1, <1>2, <1>3, <1>5
<1>7. p[pc[context] + 1] \in Macros
  BY <1>3, <1>6
<1> QED  BY <1>1, <1>4, <1>5, <1>6, <1>7 DEF Contexts

\* A fetch on the right path: nothing in the pipeline is speculative.
LEMMA FetchRightInv ==
    ASSUME ThreadInv, FetchRight PROVE ThreadInv'
<1> DEFINE mop == cf.programs[context][pc[context] + 1]
           pos == pc[context] + 1
<1>1. /\ context # None /\ Running(context) /\ ~ spec
      /\ Fetched(mop, FALSE, pos)
      /\ pc' = [pc EXCEPT ![context] = @ + 1]
      /\ astray' \in BOOLEAN
      /\ signal' = (pc[context] + 1 = Len(cf.programs[context]))
      /\ UNCHANGED <<cf, context, evict, mapped, spec, uopq, rob, iq, loadq, storeq,
                       memory, events, rf, failed>>
  BY DEF FetchRight, canFetch
<1>2. /\ context \in Contexts /\ pc[context] \in Nat /\ pos \in Nat /\ mop \in Macros
      /\ Len(cf.programs[context]) \in Nat /\ pos \in 1 .. Len(cf.programs[context])
  BY <1>1, NextInstruction
<1>3. ThreadTypes
  BY DEF ThreadInv
<1> HIDE DEF mop, pos
<1>4. PICK new : Fetches(new, mop, FALSE, pos)
  BY <1>1, <1>2, <1>3, FetchedEffect
<1>5. /\ Path' = Then(Path, new) /\ Path' # <<>> /\ fetchq' \in Seq(UopIds)
      /\ Path \in Seq(UopIds) /\ new \in Seq(UopIds) /\ Alike(Path, uops, uops')
      /\ \A x \in UopIds : uops'[x] = NoUop \/ IsUop(uops'[x])
      /\ PathInv' /\ WaitInv' /\ StagesAgree'
      /\ (fetchq # <<>> => uops[Head(fetchq)].index = 0)'
  <2>1. UNCHANGED <<cf, context, evict, mapped, uopq, rob, iq, loadq, storeq, memory, events,
                       failed>>
    BY <1>1
  <2> QED  BY <1>1, <1>4, <2>1, FetchStep
<1>6. ThreadTypes'
  <2>1. pc' \in [Contexts -> Nat] /\ Contexts' = Contexts /\ signal' \in BOOLEAN
        /\ DOMAIN uops' = UopIds
    BY <1>1, <1>2, <1>3, <1>4 DEF ThreadTypes, Contexts, Fetches
  <2> QED  BY <1>1, <1>3, <1>5, <2>1 DEF ThreadTypes
<1>7. SpecInv'
  <2>1. \A i \in DOMAIN Path : ~ uops[Path[i]].spec /\ ~ uops[Path[i]].first
    BY <1>1 DEF ThreadInv, SpecInv, Ordered
  <2>2. \A i \in DOMAIN Path : /\ uops[Path[i]].spec \in BOOLEAN /\ uops[Path[i]].first \in BOOLEAN
    BY <1>5, <1>3 DEF Alike, Range, ThreadTypes, IsUop
  <2>3. \A i \in DOMAIN Path : uops'[Path[i]].spec = FALSE /\ uops'[Path[i]].first = FALSE
    BY <1>5, <2>1, <2>2 DEF Alike, Range
  <2>4. \A i \in DOMAIN new : uops'[new[i]].spec = FALSE /\ uops'[new[i]].first = FALSE
    <3>1. DOMAIN new = 1 .. Len(new)
      BY <1>5
    <3>2. \A i \in 1 .. Len(new) : /\ uops'[new[i]].spec = FALSE
                                   /\ uops'[new[i]].first = (FALSE /\ ~ spec /\ i = 1)
      BY <1>4 DEF Fetches
    <3>3. \A i \in 1 .. Len(new) : uops'[new[i]].first = FALSE
      BY <3>2
    <3> QED  BY <3>1, <3>2, <3>3
  <2>5. \A i \in DOMAIN Path' : uops'[Path'[i]].spec = FALSE /\ uops'[Path'[i]].first = FALSE
    <3>1. Path' \in Seq(UopIds) /\ Range(Path') = Range(Path) \cup Range(new)
      BY <1>5, ConcatRange DEF Then
    <3>2. \A x \in Range(Path) \cup Range(new) : uops'[x].spec = FALSE /\ uops'[x].first = FALSE
      BY <2>3, <2>4 DEF Range
    <3>3. \A i \in DOMAIN Path' : Path'[i] \in Range(Path')
      BY DEF Range
    <3> QED  BY <3>1, <3>2, <3>3
  <2>6. spec' = FALSE
    BY <1>1, <1>3 DEF ThreadTypes
  <2>7. Ordered(Path', uops', spec')
    BY <2>5, <2>6, OrderedNone
  <2> QED  BY <1>5, <2>7 DEF SpecInv
<1>8. EndInv'
  <2>1. context' = context /\ cf' = cf /\ pc'[context] = pos
    BY <1>1, <1>2, <1>3 DEF ThreadTypes, pos
  <2>2. ~ (pos < Len(cf.programs[context])) => signal'
    <3>1. signal' = (pos = Len(cf.programs[context]))
      BY <1>1 DEF pos
    <3>2. ~ (pos < Len(cf.programs[context])) => pos = Len(cf.programs[context])
      BY <1>2
    <3> QED  BY <3>1, <3>2
  <2> QED  BY <1>5, <2>1, <2>2 DEF EndInv, Running
<1> QED  BY <1>5, <1>6, <1>7, <1>8 DEF ThreadInv

\* A fetch on a wrong path goes behind it, or starts it.
LEMMA FetchWrongInv ==
    ASSUME ThreadInv, FetchWrong PROVE ThreadInv'
<1>1. /\ context # None /\ Running(context)
      /\ \E mop \in cf.wrong : Fetched(mop, TRUE, 0)
      /\ spec' = TRUE
      /\ UNCHANGED <<cf, context, evict, mapped, signal, pc, astray, uopq, rob, iq, loadq,
                   storeq, memory, events, rf, failed>>
  BY DEF FetchWrong, canFetch
<1>2. ThreadTypes
  BY DEF ThreadInv
<1>3. PICK mop \in Macros : Fetched(mop, TRUE, 0)
  <2>1. cf.wrong \subseteq Macros
    BY <1>2, ConfigAssumption DEF ThreadTypes
  <2> QED  BY <1>1, <2>1
<1>4. PICK new : Fetches(new, mop, TRUE, 0)
  BY <1>2, <1>3, FetchedEffect
<1>5. /\ Path' = Then(Path, new) /\ Path' # <<>> /\ fetchq' \in Seq(UopIds)
      /\ Path \in Seq(UopIds) /\ new \in Seq(UopIds) /\ Alike(Path, uops, uops')
      /\ \A x \in UopIds : uops'[x] = NoUop \/ IsUop(uops'[x])
      /\ PathInv' /\ WaitInv' /\ StagesAgree'
      /\ (fetchq # <<>> => uops[Head(fetchq)].index = 0)'
  <2>1. UNCHANGED <<cf, context, evict, mapped, uopq, rob, iq, loadq, storeq, memory, events,
                       failed>>
    BY <1>1
  <2> QED  BY <1>1, <1>4, <2>1, FetchStep
<1>6. ThreadTypes'
  <2>1. Contexts' = Contexts /\ DOMAIN uops' = UopIds
    BY <1>1, <1>4 DEF Contexts, Fetches
  <2> QED  BY <1>1, <1>2, <1>5, <2>1 DEF ThreadTypes
<1>7. SpecInv'
  <2>1. Ordered(Path, uops', spec)
    <3>1. \A i \in DOMAIN Path : /\ uops'[Path[i]].spec = uops[Path[i]].spec
                                 /\ uops'[Path[i]].first = uops[Path[i]].first
      BY <1>5 DEF Alike, Range
    <3>2. Ordered(Path, uops, spec)
      BY DEF ThreadInv, SpecInv
    <3> QED  BY <3>1, <3>2, OrderedSame
  <2>2. new # <<>> /\ spec \in BOOLEAN
        /\ \A i \in DOMAIN new : /\ uops'[new[i]].spec
                                 /\ (uops'[new[i]].first <=> (~ spec /\ i = 1))
    <3>1. DOMAIN new = 1 .. Len(new)
      BY <1>5
    <3>2. new # <<>> /\ \A i \in 1 .. Len(new) : /\ uops'[new[i]].spec = TRUE
                                   /\ uops'[new[i]].first = (TRUE /\ ~ spec /\ i = 1)
      BY <1>4 DEF Fetches
    <3>3. \A i \in 1 .. Len(new) : uops'[new[i]].first <=> (~ spec /\ i = 1)
      BY <3>2
    <3>4. spec \in BOOLEAN
      BY <1>2 DEF ThreadTypes
    <3> QED  BY <3>1, <3>2, <3>3, <3>4
  <2>3. Ordered(Path \o new, uops', TRUE)
    BY <1>5, <2>1, <2>2, OrderedWrong
  <2>4. Ordered(Path', uops', spec')
    BY <1>1, <1>5, <2>3 DEF Then
  <2> QED  BY <1>5, <2>4 DEF SpecInv
<1>8. EndInv'
  BY <1>1 DEF EndInv, Running
<1> QED  BY <1>5, <1>6, <1>7, <1>8 DEF ThreadInv

\* What squashing leaves of a queue whose wrong path is at its end.
LEMMA TrimmedRange ==
    ASSUME NEW A, NEW q \in Seq(A), NEW gone,
           \A i, j \in 1 .. Len(q) : q[i] \in gone /\ i <= j => q[j] \in gone
    PROVE  /\ Trimmed(q, gone) \in Seq(A) /\ Range(Trimmed(q, gone)) = Range(q) \ gone
           /\ IsInjective(q) => IsInjective(Trimmed(q, gone))
<1>1. PICK n \in 0 .. Len(q) : /\ Trimmed(q, gone) = SubSeq(q, 1, n)
                               /\ \A i \in 1 .. Len(q) : n < i => q[i] \in gone
                               /\ n # 0 => q[n] \notin gone
  BY TrimmedIs
<1> DEFINE t == SubSeq(q, 1, n)
<1>2. t \in Seq(A) /\ Len(t) = n /\ \A i \in 1 .. n : t[i] = q[i]
  BY SplitIs
<1>3. Len(q) \in Nat /\ n \in Nat /\ DOMAIN q = 1 .. Len(q) /\ DOMAIN t = 1 .. n
  BY <1>2
<1> HIDE DEF t
<1>4. \A i \in 1 .. Len(q) : q[i] \in gone <=> n < i
  <2> SUFFICES ASSUME NEW i \in 1 .. Len(q), q[i] \in gone PROVE n < i
    BY <1>1
  <2> SUFFICES ASSUME ~ (n < i) PROVE FALSE
    OBVIOUS
  <2>1. n # 0 /\ n \in 1 .. Len(q) /\ i <= n
    BY <1>3
  <2> QED  BY <1>1, <2>1
<1>5. Range(t) = Range(q) \ gone
  <2>1. ASSUME NEW x PROVE x \in Range(t) <=> x \in Range(q) /\ x \notin gone
    <3>1. x \in Range(t) <=> \E i \in 1 .. n : x = q[i]
      BY <1>2, <1>3 DEF Range
    <3>2. x \in Range(q) <=> \E i \in 1 .. Len(q) : x = q[i]
      BY <1>3 DEF Range
    <3>3. \A i : i \in 1 .. n <=> i \in 1 .. Len(q) /\ ~ (n < i)
      BY <1>3
    <3> QED  BY <1>4, <3>1, <3>2, <3>3
  <2> QED  BY <2>1
<1>6. IsInjective(q) => IsInjective(t)
  BY <1>2, <1>3 DEF IsInjective
<1> QED  BY <1>1, <1>2, <1>5, <1>6 DEF t

\* Three queues hold different uops.
LEMMA RowInjective ==
    ASSUME NEW A, NEW a \in Seq(A), NEW b \in Seq(A), NEW c \in Seq(A)
    PROVE  IsInjective(Row(a, b, c)) <=>
              /\ IsInjective(a) /\ IsInjective(b) /\ IsInjective(c)
              /\ Range(a) \cap Range(b) = {} /\ Range(a) \cap Range(c) = {}
              /\ Range(b) \cap Range(c) = {}
<1> DEFINE d == a \o b
<1>1. d \in Seq(A) /\ Range(d) = Range(a) \cup Range(b)
      /\ (IsInjective(d) <=> IsInjective(a) /\ IsInjective(b) /\ Range(a) \cap Range(b) = {})
  BY ConcatRange
<1>2. d \in Seq(A)
  BY <1>1
<1> HIDE DEF d
<1>3. IsInjective(d \o c) <=> IsInjective(d) /\ IsInjective(c) /\ Range(d) \cap Range(c) = {}
  BY <1>2, ConcatRange
<1>4. Row(a, b, c) = d \o c
  BY DEF Row, d
<1> QED  BY <1>1, <1>3, <1>4

\* Uops us are the ones that exist but for whether they are completed.
SameUops(us) ==
    \A x \in UopIds :
        /\ us[x] = NoUop <=> uops[x] = NoUop
        /\ uops[x] # NoUop => /\ IsUop(us[x]) /\ us[x].inst = uops[x].inst
                              /\ us[x].spec = uops[x].spec /\ us[x].index = uops[x].index
                              /\ us[x].position = uops[x].position
                              /\ us[x].first = uops[x].first

\* Recovery takes the wrong path out of the pipeline, and nothing else.
LEMMA RecoverInv ==
    ASSUME ThreadInv, NEW file, NEW us, NEW es, Recover(file, us, es), SameUops(us),
           es \subseteq events, ~ signal, NEW x \in Range(rob), uops[x].first,
           cf.atWriteback => x \notin memory
    PROVE  /\ ThreadInv'
           /\ rob' = Trimmed(rob, Squashed(us)) /\ uopq' = Trimmed(uopq, Squashed(us))
           /\ fetchq' = Trimmed(fetchq, Squashed(us))
           /\ \A y \in Range(Path') : uops'[y] = us[y] /\ y \in Range(Path)
           /\ UNCHANGED <<cf, context, pc>>
<1> DEFINE gone == Squashed(us)
<1>1. /\ fetchq' = Trimmed(fetchq, gone)
      /\ uopq' = Trimmed(uopq, gone)
      /\ iq' = iq \ gone
      /\ loadq' = loadq \ gone
      /\ storeq' = Only(storeq, UopIds \ gone)
      /\ events' = es \ gone
      /\ rob' = Trimmed(rob, gone)
      /\ spec' = FALSE
      /\ astray' = FALSE
      /\ failed' = IF fetchq' # <<>> THEN failed \cup {"fetch_queue_occupied"} ELSE failed
      /\ UNCHANGED <<cf, context, evict, mapped, signal, pc, memory>>
      /\ uops' = Kept(us)
  BY DEF Recover
<1>2. /\ rob \in Seq(UopIds) /\ uopq \in Seq(UopIds) /\ fetchq \in Seq(UopIds)
      /\ storeq \in Seq(UopIds)
  BY DEF ThreadInv, ThreadTypes
<1>3. /\ Path \in Seq(UopIds) /\ Range(Path) = Range(rob) \cup Range(uopq) \cup Range(fetchq)
      /\ Range(Path) \in SUBSET UopIds
      /\ Len(Path) = Len(rob) + Len(uopq) + Len(fetchq) /\ DOMAIN Path = 1 .. Len(Path)
      /\ Len(rob) \in Nat /\ Len(uopq) \in Nat /\ Len(fetchq) \in Nat
      /\ \A i \in 1 .. Len(rob) : Path[i] = rob[i]
      /\ \A i \in 1 .. Len(uopq) : Path[Len(rob) + i] = uopq[i]
      /\ \A i \in 1 .. Len(fetchq) : Path[Len(rob) + Len(uopq) + i] = fetchq[i]
  <2>1. PathOf(rob, uopq, fetchq, Path)
    BY <1>2, PathIs DEF Path
  <2> QED  BY <2>1 DEF PathOf
<1>4. \A y \in Range(Path) \cup Waiting : uops[y] # NoUop
  BY DEF ThreadInv, PathInv
<1>5. \A y \in Range(Path) : y \in gone <=> uops[y].spec
  BY <1>3, <1>4 DEF Squashed, SameUops
<1> HIDE DEF gone
<1>6. \A i, j \in DOMAIN Path : Path[i] \in gone /\ i <= j => Path[j] \in gone
  <2>1. \A i \in DOMAIN Path : Path[i] \in Range(Path)
    BY DEF Range
  <2>2. \A i, j \in DOMAIN Path : uops[Path[i]].spec /\ i <= j => uops[Path[j]].spec
    BY DEF ThreadInv, SpecInv, Ordered
  <2> QED  BY <1>5, <2>1, <2>2
<1>7. /\ \A i, j \in 1 .. Len(rob) : rob[i] \in gone /\ i <= j => rob[j] \in gone
      /\ \A i, j \in 1 .. Len(uopq) : uopq[i] \in gone /\ i <= j => uopq[j] \in gone
      /\ \A i, j \in 1 .. Len(fetchq) : fetchq[i] \in gone /\ i <= j => fetchq[j] \in gone
  <2>1. \A i, j \in 1 .. Len(rob) : rob[i] \in gone /\ i <= j => rob[j] \in gone
    <3> SUFFICES ASSUME NEW i \in 1 .. Len(rob), NEW j \in 1 .. Len(rob),
                        rob[i] \in gone, i <= j
                 PROVE  rob[j] \in gone
      OBVIOUS
    <3>1. i \in DOMAIN Path /\ j \in DOMAIN Path
      BY <1>3
    <3> QED  BY <1>3, <1>6, <3>1
  <2>2. \A i, j \in 1 .. Len(uopq) : uopq[i] \in gone /\ i <= j => uopq[j] \in gone
    <3> SUFFICES ASSUME NEW i \in 1 .. Len(uopq), NEW j \in 1 .. Len(uopq),
                        uopq[i] \in gone, i <= j
                 PROVE  uopq[j] \in gone
      OBVIOUS
    <3>1. /\ Len(rob) + i \in DOMAIN Path /\ Len(rob) + j \in DOMAIN Path
          /\ Len(rob) + i <= Len(rob) + j
      BY <1>3
    <3>2. Path[Len(rob) + i] = uopq[i] /\ Path[Len(rob) + j] = uopq[j]
      BY <1>3
    <3> QED  BY <1>6, <3>1, <3>2
  <2>3. \A i, j \in 1 .. Len(fetchq) : fetchq[i] \in gone /\ i <= j => fetchq[j] \in gone
    <3> SUFFICES ASSUME NEW i \in 1 .. Len(fetchq), NEW j \in 1 .. Len(fetchq),
                        fetchq[i] \in gone, i <= j
                 PROVE  fetchq[j] \in gone
      OBVIOUS
    <3> DEFINE n == Len(rob) + Len(uopq)
    <3>1. n + i \in DOMAIN Path /\ n + j \in DOMAIN Path /\ n + i <= n + j
      BY <1>3
    <3>2. Path[n + i] = fetchq[i] /\ Path[n + j] = fetchq[j]
      BY <1>3
    <3> QED  BY <1>6, <3>1, <3>2
  <2> QED  BY <2>1, <2>2, <2>3
<1>8. /\ IsInjective(rob) /\ IsInjective(uopq) /\ IsInjective(fetchq)
      /\ Range(rob) \cap Range(uopq) = {} /\ Range(rob) \cap Range(fetchq) = {}
      /\ Range(uopq) \cap Range(fetchq) = {}
  <2>1. IsInjective(Row(rob, uopq, fetchq))
    BY DEF ThreadInv, PathInv, Path, Row
  <2> QED  BY <1>2, <2>1, RowInjective
<1>9. /\ rob' \in Seq(UopIds) /\ Range(rob') = Range(rob) \ gone /\ IsInjective(rob')
      /\ uopq' \in Seq(UopIds) /\ Range(uopq') = Range(uopq) \ gone /\ IsInjective(uopq')
      /\ fetchq' \in Seq(UopIds) /\ Range(fetchq') = Range(fetchq) \ gone /\ IsInjective(fetchq')
  <2>1. /\ Trimmed(rob, gone) \in Seq(UopIds) /\ Range(Trimmed(rob, gone)) = Range(rob) \ gone
        /\ IsInjective(Trimmed(rob, gone))
    BY <1>2, <1>7, <1>8, TrimmedRange
  <2>2. /\ Trimmed(uopq, gone) \in Seq(UopIds) /\ Range(Trimmed(uopq, gone)) = Range(uopq) \ gone
        /\ IsInjective(Trimmed(uopq, gone))
    BY <1>2, <1>7, <1>8, TrimmedRange
  <2>3. /\ Trimmed(fetchq, gone) \in Seq(UopIds)
        /\ Range(Trimmed(fetchq, gone)) = Range(fetchq) \ gone
        /\ IsInjective(Trimmed(fetchq, gone))
    BY <1>2, <1>7, <1>8, TrimmedRange
  <2> QED  BY <1>1, <2>1, <2>2, <2>3
<1>10. /\ IsInjective(Path') /\ Range(Path') = Range(Path) \ gone
       /\ Path' \in Seq(UopIds)
  <2>1. IsInjective(Row(rob', uopq', fetchq'))
    BY <1>8, <1>9, RowInjective
  <2>2. PathOf(rob', uopq', fetchq', Path')
    BY <1>9, PathIs DEF Path
  <2>3. Range(Path') = Range(rob') \cup Range(uopq') \cup Range(fetchq') /\ Path' \in Seq(UopIds)
    BY <2>2 DEF PathOf
  <2> QED  BY <1>3, <1>9, <2>1, <2>3 DEF Path, Row
<1>11. fetchq' = <<>>
  <2>1. PICK i \in 1 .. Len(rob) : rob[i] = x
    BY <1>2 DEF Range
  <2>2. i \in DOMAIN Path /\ Path[i] = x
    BY <1>3, <2>1
  <2>3. x \in gone
    <3>1. uops[x].spec
      BY <2>2 DEF ThreadInv, SpecInv, Ordered
    <3>2. x \in Range(Path)
      BY <1>3
    <3> QED  BY <1>5, <3>1, <3>2
  <2>4. \A j \in 1 .. Len(fetchq) : fetchq[j] \in gone
    <3> SUFFICES ASSUME NEW j \in 1 .. Len(fetchq) PROVE fetchq[j] \in gone
      OBVIOUS
    <3> DEFINE n == Len(rob) + Len(uopq)
    <3>1. n + j \in DOMAIN Path /\ i <= n + j /\ Path[n + j] = fetchq[j]
      BY <1>3
    <3> QED  BY <1>6, <2>2, <2>3, <3>1
  <2>5. \A y \in Range(fetchq) : y \in gone
    <3>1. DOMAIN fetchq = 1 .. Len(fetchq)
      BY <1>2
    <3> QED  BY <2>4, <3>1 DEF Range
  <2>6. fetchq' \in Seq(UopIds) /\ Range(fetchq') = {}
    BY <1>9, <2>5
  <2> QED  BY <2>6, EmptyRange
<1>12. /\ storeq' \in Seq(UopIds) /\ Range(storeq') \subseteq Range(storeq) \ gone
       /\ IsInjective(storeq')
  <2>1. IsInjective(storeq)
    BY DEF ThreadInv, WaitInv
  <2> QED  BY <1>1, <1>2, <2>1, OnlyRange
<1>13. /\ Waiting' \subseteq Waiting /\ Waiting \in SUBSET UopIds
       /\ \A y \in Waiting' : y \in gone => y \in memory
  <2>1. Range(storeq) \in SUBSET UopIds
    BY <1>2 DEF Range
  <2>2. Waiting \in SUBSET UopIds
    BY <2>1 DEF Waiting, ThreadInv, ThreadTypes
  <2> QED  BY <1>1, <1>12, <2>2 DEF Waiting
<1>14. /\ DOMAIN uops' = UopIds
       /\ \A y \in UopIds :
            uops'[y] = IF y \in Range(Path') \cup Waiting' THEN us[y] ELSE NoUop
  BY <1>1, <1>9, KeptIs
<1>15. \A y \in Range(Path') \cup Waiting' :
          /\ y \in UopIds /\ uops[y] # NoUop /\ uops'[y] = us[y] /\ uops'[y] # NoUop
          /\ uops'[y].inst = uops[y].inst
          /\ uops'[y].spec = uops[y].spec /\ uops'[y].first = uops[y].first
  <2> SUFFICES ASSUME NEW y \in Range(Path') \cup Waiting'
               PROVE  /\ y \in UopIds /\ uops[y] # NoUop /\ uops'[y] = us[y] /\ uops'[y] # NoUop
                      /\ uops'[y].inst = uops[y].inst
                      /\ uops'[y].spec = uops[y].spec /\ uops'[y].first = uops[y].first
    OBVIOUS
  <2>1. y \in UopIds /\ uops[y] # NoUop
    BY <1>3, <1>4, <1>10, <1>13
  <2>2. uops'[y] = us[y]
    BY <1>14, <2>1
  <2> QED  BY <2>1, <2>2 DEF SameUops
<1>16. ThreadTypes'
  <2>1. \A y \in UopIds : uops'[y] = NoUop \/ IsUop(uops'[y])
    BY <1>14, <1>15 DEF SameUops
  <2>2. Contexts' = Contexts /\ iq' \in SUBSET UopIds /\ loadq' \in SUBSET UopIds
        /\ events' \in SUBSET UopIds
    BY <1>1 DEF Contexts, ThreadInv, ThreadTypes
  <2> QED  BY <1>1, <1>9, <1>12, <1>14, <2>1, <2>2 DEF ThreadInv, ThreadTypes
<1>17. PathInv'
  <2>1. Waiting' \cap (Range(uopq') \cup Range(fetchq')) = {}
    <3>1. Waiting \cap (Range(uopq) \cup Range(fetchq)) = {}
      BY DEF ThreadInv, PathInv
    <3> QED  BY <1>9, <1>13, <3>1
  <2>2. context' # None
    <3>1. Path # <<>>
      <4>1. x \in Range(Path) /\ Range(<<>>) = {}
        BY <1>3 DEF Range
      <4> QED  BY <4>1
    <3> QED  BY <1>1, <3>1 DEF ThreadInv, PathInv
  <2>3. \A y \in Range(Path') \cup Waiting' : uops'[y] # NoUop
    BY <1>15
  <2> QED  BY <1>10, <2>1, <2>2, <2>3 DEF PathInv
<1>18. SpecInv'
  <2>1. \A y \in Range(Path') : uops'[y].spec = FALSE /\ uops'[y].first = FALSE
    <3> SUFFICES ASSUME NEW y \in Range(Path')
                 PROVE  uops'[y].spec = FALSE /\ uops'[y].first = FALSE
      OBVIOUS
    <3>1. y \in Range(Path) /\ ~ uops[y].spec
      BY <1>5, <1>10
    <3>2. ~ uops[y].first
      <4>1. PICK i \in DOMAIN Path : Path[i] = y
        BY <3>1 DEF Range
      <4> QED  BY <3>1, <4>1 DEF ThreadInv, SpecInv, Ordered
    <3>3. uops[y].spec \in BOOLEAN /\ uops[y].first \in BOOLEAN
      BY <1>15 DEF ThreadInv, ThreadTypes, IsUop
    <3>4. uops[y].spec = FALSE /\ uops[y].first = FALSE
      BY <3>1, <3>2, <3>3
    <3> QED  BY <1>15, <3>4
  <2>2. \A i \in DOMAIN Path' : uops'[Path'[i]].spec = FALSE /\ uops'[Path'[i]].first = FALSE
    BY <2>1 DEF Range
  <2>3. Ordered(Path', uops', spec')
    BY <1>1, <2>2, OrderedNone
  <2> QED  BY <1>11, <2>3 DEF SpecInv
<1>19. WaitInv'
  <2>1. /\ \A y \in iq' : ~ IsMem(uops'[y])
        /\ \A y \in loadq' : uops'[y].inst.op = "load"
    <3>1. \A y \in iq' \cup loadq' : uops'[y].inst = uops[y].inst
      BY <1>15 DEF Waiting
    <3> QED  BY <1>1, <3>1 DEF ThreadInv, WaitInv, IsMem
  <2>2. /\ \A y \in Range(storeq') : uops'[y].inst.op = "store"
        /\ \A y \in memory' : uops'[y].inst.op \in {"load", "store"}
    <3>1. \A y \in Range(storeq') \cup memory' : uops'[y].inst = uops[y].inst
      BY <1>15 DEF Waiting
    <3> QED  BY <1>1, <1>12, <3>1 DEF ThreadInv, WaitInv
  <2>3. \A y \in memory' \cup events' : uops'[y].inst.op = "store" => y \notin Range(rob')
    <3>1. \A y \in memory' \cup events' : uops'[y].inst = uops[y].inst
      BY <1>15 DEF Waiting
    <3>2. memory' = memory /\ events' \subseteq events
      BY <1>1
    <3> QED  BY <1>9, <3>1, <3>2 DEF ThreadInv, WaitInv
  <2>4. (loadq' \cup Range(storeq')) \cap (memory' \cup events') = {} /\ memory' \cap events' = {}
    <3>1. memory' = memory /\ events' \subseteq events /\ loadq' \subseteq loadq
          /\ Range(storeq') \subseteq Range(storeq)
      BY <1>1, <1>12
    <3> QED  BY <3>1 DEF ThreadInv, WaitInv
  <2>5. cf'.atWriteback => \A y \in UopIds : uops'[y] # NoUop /\ uops'[y].first =>
                              y \in Range(Path') /\ ~ uops'[y].completed
    <3> SUFFICES ASSUME cf.atWriteback, NEW y \in UopIds, uops'[y] # NoUop, uops'[y].first
                 PROVE  FALSE
      BY <1>1
    <3>1. y \in Range(Path') \cup Waiting'
      BY <1>14
    <3>2. uops[y] # NoUop /\ uops[y].first
      BY <1>15, <3>1
    <3>3. y \in Range(Path) /\ x \in Range(Path)
      BY <1>3, <3>2 DEF ThreadInv, WaitInv
    <3>4. PICK i \in DOMAIN Path, j \in DOMAIN Path : Path[i] = x /\ Path[j] = y
      BY <3>3 DEF Range
    <3>5. uops[Path[i]].first /\ uops[Path[j]].first
      BY <3>2, <3>4
    <3>6. i = j
      <4>1. uops[Path[i]].spec /\ uops[Path[j]].spec /\ ~ (j < i) /\ ~ (i < j)
        BY <3>5 DEF ThreadInv, SpecInv, Ordered
      <4>2. i \in Nat /\ j \in Nat
        BY <1>3
      <4> QED  BY <4>1, <4>2
    <3>7. y = x /\ uops[y].spec
      BY <3>4, <3>5, <3>6 DEF ThreadInv, SpecInv, Ordered
    <3>8. y \in gone /\ y \notin memory
      BY <1>5, <3>3, <3>7
    <3> QED  BY <1>10, <1>13, <3>1, <3>8
  <2> QED  BY <1>12, <2>1, <2>2, <2>3, <2>4, <2>5 DEF WaitInv
<1>20. EndInv'
  <2>1. context # None /\ ~ evict /\ ~ Running(context) => signal
    BY DEF ThreadInv, EndInv
  <2>2. context' = context /\ evict' = evict /\ (Running(context)' <=> Running(context))
    BY <1>1 DEF Running
  <2> QED  BY <2>1, <2>2 DEF EndInv
<1>21. StagesAgree'
  BY <1>1, <1>11 DEF ThreadInv, StagesAgree
<1> QED  BY <1>1, <1>10, <1>15, <1>16, <1>17, <1>18, <1>19, <1>20, <1>21 DEF ThreadInv, gone

\* The pipeline stays as it is, or its wrong path is squashed.
Quiet == Path' = Path /\ Alike(Path, uops, uops') /\ UNCHANGED <<cf, context, pc>>

Squash(us) ==
    /\ SameUops(us)
    /\ rob' = Trimmed(rob, Squashed(us)) /\ uopq' = Trimmed(uopq, Squashed(us))
    /\ fetchq' = Trimmed(fetchq, Squashed(us))
    /\ \A y \in Range(Path') : uops'[y] = us[y] /\ y \in Range(Path)
    /\ UNCHANGED <<cf, context, pc>>

\* A uop is written back, and may start a recovery.
LEMMA WritebackInv ==
    ASSUME ThreadInv, NEW x \in UopIds, Writeback(x)
    PROVE  ThreadInv' /\ (Quiet \/ \E us : Squash(us))
<1> DEFINE u == uops[x]
           us == [uops EXCEPT ![x].completed = TRUE]
<1>1. /\ ~ signal /\ x \in events
      /\ IF cf.atWriteback /\ u.first
         THEN Recover(WriteUop(rf, u), us, events \ {x})
         ELSE /\ events' = events \ {x}
              /\ rf' = WriteUop(rf, u)
              /\ UNCHANGED <<cf, context, evict, mapped, signal, pc, spec, astray, fetchq,
                               uopq, rob, iq, loadq, storeq, memory, failed>>
              /\ uops' = Kept(us)
  BY DEF Writeback, canWrite
<1>2. /\ rob \in Seq(UopIds) /\ uopq \in Seq(UopIds) /\ fetchq \in Seq(UopIds)
      /\ storeq \in Seq(UopIds) /\ DOMAIN uops = UopIds
  BY DEF ThreadInv, ThreadTypes
<1>3. x \in Waiting /\ u # NoUop /\ IsUop(u)
  <2>1. x \in Waiting
    BY <1>1 DEF Waiting
  <2>2. u # NoUop
    BY <2>1 DEF ThreadInv, PathInv
  <2> QED  BY <2>1, <2>2 DEF ThreadInv, ThreadTypes
<1>4. us[x] = [u EXCEPT !.completed = TRUE] /\ \A y \in UopIds \ {x} : us[y] = uops[y]
  <2> HIDE DEF u
  <2> QED  BY <1>2 DEF u
<1> HIDE DEF us
<1>5. /\ IsUop(us[x]) /\ us[x] # NoUop /\ us[x].inst = u.inst /\ us[x].spec = u.spec
      /\ us[x].index = u.index /\ us[x].position = u.position /\ us[x].first = u.first
  <2>1. DOMAIN u = Fields
    BY <1>3 DEF IsUop
  <2> DEFINE v == us[x]
  <2>2. v = [u EXCEPT !.completed = TRUE]
    BY <1>4
  <2>3. u = uops[x]
    OBVIOUS
  <2> HIDE DEF v, u
  <2>4. /\ DOMAIN v = Fields /\ v.op = u.op /\ v.inst = u.inst /\ v.spec = u.spec
        /\ v.index = u.index /\ v.position = u.position /\ v.first = u.first
        /\ v.completed = TRUE
    BY <2>1, <2>2 DEF Fields
  <2>5. IsUop(v)
    <3>1. v.completed \in BOOLEAN
      BY <2>4
    <3> QED  BY <1>3, <2>4, <3>1 DEF IsUop
  <2>6. v # NoUop
    BY <2>5 DEF IsUop, NoUop
  <2> QED  BY <2>4, <2>5, <2>6 DEF v
<1>6. SameUops(us)
  <2> SUFFICES ASSUME NEW y \in UopIds
               PROVE  /\ us[y] = NoUop <=> uops[y] = NoUop
                      /\ uops[y] # NoUop =>
                            /\ IsUop(us[y]) /\ us[y].inst = uops[y].inst
                            /\ us[y].spec = uops[y].spec /\ us[y].index = uops[y].index
                            /\ us[y].position = uops[y].position
                            /\ us[y].first = uops[y].first
    BY DEF SameUops
  <2>1. CASE y = x
    BY <1>3, <1>5, <2>1
  <2>2. CASE y # x
    <3>1. us[y] = uops[y]
      BY <1>4, <2>2
    <3>2. uops[y] = NoUop \/ IsUop(uops[y])
      BY DEF ThreadInv, ThreadTypes
    <3> QED  BY <3>1, <3>2
  <2> QED  BY <2>1, <2>2
<1>7. PathOf(rob, uopq, fetchq, Path)
  BY <1>2, PathIs DEF Path
<1>8. /\ Range(Path) = Range(rob) \cup Range(uopq) \cup Range(fetchq)
      /\ Range(Path) \in SUBSET UopIds
  BY <1>7 DEF PathOf
<1>9. CASE cf.atWriteback /\ u.first
  <2>1. Recover(WriteUop(rf, u), us, events \ {x})
    BY <1>1, <1>9
  <2>2. x \in Range(rob) /\ x \notin memory
    <3>1. x \in Range(Path)
      BY <1>3, <1>9 DEF ThreadInv, WaitInv
    <3>2. x \notin Range(uopq) \cup Range(fetchq)
      BY <1>3 DEF ThreadInv, PathInv
    <3>3. x \notin memory
      BY <1>1 DEF ThreadInv, WaitInv
    <3> QED  BY <1>8, <3>1, <3>2, <3>3
  <2> DEFINE file == WriteUop(rf, u)
             es == events \ {x}
  <2>3. Recover(file, us, es) /\ es \subseteq events
    BY <2>1
  <2> HIDE DEF file, es
  <2>4. uops[x].first
    BY <1>9
  <2>5. ThreadInv' /\ Squash(us)
    BY <1>1, <1>6, <2>2, <2>3, <2>4, RecoverInv DEF Squash
  <2> QED  BY <2>5
<1>10. CASE ~ (cf.atWriteback /\ u.first)
  <2>1. /\ events' = events \ {x}
        /\ UNCHANGED <<cf, context, evict, mapped, signal, pc, spec, astray, fetchq,
                         uopq, rob, iq, loadq, storeq, memory, failed>>
        /\ uops' = Kept(us)
    BY <1>1, <1>10
  <2>2. /\ Path' = Path /\ Waiting' \subseteq Waiting /\ Contexts' = Contexts
        /\ (Running(context)' <=> Running(context))
    BY <2>1 DEF Path, Waiting, Contexts, Running
  <2>3. /\ DOMAIN uops' = UopIds
        /\ \A y \in UopIds :
            uops'[y] = IF y \in Range(Path') \cup Waiting' THEN us[y] ELSE NoUop
    <3>1. rob' \in Seq(UopIds) /\ uopq' \in Seq(UopIds) /\ fetchq' \in Seq(UopIds)
      BY <1>2, <2>1
    <3> QED  BY <2>1, <3>1, KeptIs
  <2>4. Waiting \in SUBSET UopIds
    <3>1. Range(storeq) \in SUBSET UopIds
      BY <1>2 DEF Range
    <3> QED  BY <3>1 DEF Waiting, ThreadInv, ThreadTypes
  <2>5. \A y \in Range(Path) \cup Waiting : uops[y] # NoUop
    BY DEF ThreadInv, PathInv
  <2>6. \A y \in Range(Path') \cup Waiting' :
          /\ y \in UopIds /\ uops[y] # NoUop /\ uops'[y] = us[y] /\ uops'[y] # NoUop
          /\ uops'[y].inst = uops[y].inst /\ uops'[y].spec = uops[y].spec
          /\ uops'[y].index = uops[y].index /\ uops'[y].position = uops[y].position
          /\ uops'[y].first = uops[y].first
    <3> SUFFICES ASSUME NEW y \in Range(Path') \cup Waiting'
                 PROVE  /\ y \in UopIds /\ uops[y] # NoUop /\ uops'[y] = us[y] /\ uops'[y] # NoUop
                        /\ uops'[y].inst = uops[y].inst /\ uops'[y].spec = uops[y].spec
                        /\ uops'[y].index = uops[y].index
                        /\ uops'[y].position = uops[y].position
                        /\ uops'[y].first = uops[y].first
      OBVIOUS
    <3>1. y \in UopIds /\ uops[y] # NoUop
      BY <1>8, <2>2, <2>4, <2>5
    <3>2. uops'[y] = us[y]
      BY <2>3, <3>1
    <3> QED  BY <1>6, <3>1, <3>2 DEF SameUops
  <2>7. Quiet
    BY <2>1, <2>2, <2>6 DEF Quiet, Alike
  <2>8. ThreadTypes'
    <3>1. \A y \in UopIds : uops'[y] = NoUop \/ IsUop(uops'[y])
      BY <1>6, <2>3, <2>6 DEF SameUops
    <3>2. events' \in SUBSET UopIds
      BY <2>1 DEF ThreadInv, ThreadTypes
    <3> QED  BY <2>1, <2>2, <2>3, <3>1, <3>2 DEF ThreadInv, ThreadTypes
  <2>9. PathInv'
    <3>1. \A y \in Range(Path') \cup Waiting' : uops'[y] # NoUop
      BY <2>6
    <3>2. Waiting' \cap (Range(uopq') \cup Range(fetchq')) = {}
      BY <2>1, <2>2 DEF ThreadInv, PathInv
    <3> QED  BY <2>1, <2>2, <3>1, <3>2 DEF ThreadInv, PathInv
  <2>10. SpecInv'
    <3>1. \A i \in DOMAIN Path : /\ uops'[Path[i]].spec = uops[Path[i]].spec
                                 /\ uops'[Path[i]].first = uops[Path[i]].first
      BY <2>2, <2>6 DEF Range
    <3>2. Ordered(Path, uops', spec)
      <4>1. Ordered(Path, uops, spec)
        BY DEF ThreadInv, SpecInv
      <4> QED  BY <3>1, <4>1, OrderedSame
    <3>3. fetchq # <<>> => uops'[Head(fetchq)].index = 0
      <4>1. fetchq # <<>> => Head(fetchq) \in Range(Path)
        BY <1>2, <1>8, TailRange
      <4> QED  BY <2>2, <2>6, <4>1 DEF ThreadInv, SpecInv
    <3> QED  BY <2>1, <2>2, <3>2, <3>3 DEF SpecInv
  <2>11. WaitInv'
    <3>1. \A y \in iq' \cup loadq' \cup Range(storeq') \cup memory' \cup events' :
            uops'[y].inst = uops[y].inst
      BY <2>6 DEF Waiting
    <3>2. /\ \A y \in iq' : ~ IsMem(uops'[y])
          /\ \A y \in loadq' : uops'[y].inst.op = "load"
          /\ \A y \in Range(storeq') : uops'[y].inst.op = "store"
          /\ \A y \in memory' : uops'[y].inst.op \in {"load", "store"}
      BY <2>1, <3>1 DEF ThreadInv, WaitInv, IsMem
    <3>3. \A y \in memory' \cup events' : uops'[y].inst.op = "store" => y \notin Range(rob')
      BY <2>1, <3>1 DEF ThreadInv, WaitInv
    <3>4. (loadq' \cup Range(storeq')) \cap (memory' \cup events') = {}
          /\ memory' \cap events' = {} /\ IsInjective(storeq')
      BY <2>1 DEF ThreadInv, WaitInv
    <3>5. cf.atWriteback => \A y \in UopIds : uops'[y] # NoUop /\ uops'[y].first =>
                              y \in Range(Path') /\ ~ uops'[y].completed
      <4> SUFFICES ASSUME cf.atWriteback, NEW y \in UopIds, uops'[y] # NoUop, uops'[y].first
                   PROVE  y \in Range(Path') /\ ~ uops'[y].completed
        OBVIOUS
      <4>1. y \in Range(Path') \cup Waiting'
        BY <2>3
      <4>2. uops[y] # NoUop /\ uops[y].first /\ uops'[y] = us[y]
        BY <2>6, <4>1
      <4>3. y # x
        BY <1>10, <4>2
      <4>4. uops'[y] = uops[y]
        BY <1>4, <4>2, <4>3
      <4> QED  BY <2>2, <4>2, <4>4 DEF ThreadInv, WaitInv
    <3> QED  BY <2>1, <3>2, <3>3, <3>4, <3>5 DEF WaitInv
  <2>12. EndInv' /\ StagesAgree'
    BY <2>1, <2>2 DEF ThreadInv, EndInv, StagesAgree
  <2> QED  BY <2>7, <2>8, <2>9, <2>10, <2>11, <2>12 DEF ThreadInv
<1> QED  BY <1>9, <1>10

\* A recovery is started at commit.
LEMMA CommitRecoverInv ==
    ASSUME ThreadInv, CommitRecover PROVE ThreadInv' /\ Squash(uops)
<1> DEFINE x == Head(rob)
           file == rf
           us == uops
           es == events
<1>1. /\ ~ signal /\ rob # <<>> /\ uops[x].first /\ Recover(rf, uops, events)
      /\ IF uops[x].inst.op = "store" THEN isUopReady(rf, uops[x]) ELSE uops[x].completed
  BY DEF CommitRecover, canCommit
<1>2. rob \in Seq(UopIds)
  BY DEF ThreadInv, ThreadTypes
<1>3. x \in Range(rob) /\ x \in UopIds
  BY <1>1, <1>2, TailRange
<1>4. SameUops(us)
  BY DEF SameUops, ThreadInv, ThreadTypes
<1>5. cf.atWriteback => x \notin memory
  <2> SUFFICES ASSUME cf.atWriteback PROVE x \notin memory
    OBVIOUS
  <2>1. uops[x] # NoUop
    <3>1. x \in Range(Path)
      <4>1. PathOf(rob, uopq, fetchq, Path)
        BY <1>2, PathIs DEF Path, ThreadInv, ThreadTypes
      <4> QED  BY <1>3, <4>1 DEF PathOf
    <3> QED  BY <3>1 DEF ThreadInv, PathInv
  <2>2. ~ uops[x].completed
    BY <1>1, <1>3, <2>1 DEF ThreadInv, WaitInv
  <2>3. uops[x].inst.op = "store"
    BY <1>1, <2>2
  <2> QED  BY <1>3, <2>3 DEF ThreadInv, WaitInv
<1>6. Recover(file, us, es) /\ es \subseteq events
  BY <1>1
<1> HIDE DEF x, file, us, es
<1>7. ThreadInv' /\ Squash(us)
  BY <1>1, <1>3, <1>4, <1>5, <1>6, RecoverInv DEF Squash
<1> QED  BY <1>7 DEF us

\* Something is kept of a queue after its first element.
LEMMA PathTail ==
    ASSUME NEW a \in Seq(UopIds), a # <<>>, NEW b \in Seq(UopIds), NEW d \in Seq(UopIds)
    PROVE  /\ Row(Tail(a), b, d) = Tail(Row(a, b, d)) /\ Head(Row(a, b, d)) = Head(a)
           /\ Row(a, b, d) # <<>>
<1> DEFINE h == <<Head(a)>>
           t == Tail(a)
<1>1. h \in Seq(UopIds) /\ t \in Seq(UopIds) /\ a = Then(h, t)
  <2>1. a = h \o t
    BY HeadAndTail
  <2> QED  BY <2>1 DEF Then
<1> HIDE DEF h, t
<1>2. Then(Then(h, t), b) = Then(h, Then(t, b)) /\ Then(t, b) \in Seq(UopIds)
  BY <1>1, ThenAssoc
<1> DEFINE q == Then(t, b)
           r == Then(q, d)
<1>3. q \in Seq(UopIds)
  BY <1>2
<1> HIDE DEF q
<1>4. Then(Then(h, q), d) = Then(h, r) /\ r \in Seq(UopIds)
  BY <1>1, <1>3, ThenAssoc
<1> HIDE DEF r
<1>5. Row(a, b, d) = h \o r /\ Row(t, b, d) = r
  BY <1>1, <1>2, <1>4 DEF Row, Then, q, r
<1>6. Tail(h \o r) = r /\ Head(h \o r) = Head(a) /\ h \o r # <<>>
  <2> DEFINE e == Head(a)
  <2>1. e \in UopIds
    OBVIOUS
  <2> HIDE DEF e
  <2>2. Tail(<<e>> \o r) = r /\ Head(<<e>> \o r) = e /\ <<e>> \o r # <<>>
    BY <1>4, <2>1
  <2> QED  BY <2>2 DEF h, e
<1> QED  BY <1>5, <1>6 DEF t

\* The oldest uop is committed: it is not on a wrong path.
LEMMA CommitInv ==
    ASSUME ThreadInv, Commit
    PROVE  /\ ThreadInv'
           /\ Path # <<>> /\ Path' = Tail(Path) /\ Alike(Path', uops, uops') /\ context # None
           /\ UNCHANGED <<cf, pc>> /\ (context' = context \/ (context' = None /\ Path' = <<>>))
<1> DEFINE x == Head(rob)
           u == uops[x]
           leaves == Leaves(Tail(rob))
<1>1. /\ ~ signal /\ rob # <<>> /\ ~ u.first
      /\ rob' = Tail(rob)
      /\ context' = IF leaves THEN None ELSE context
      /\ evict' = (evict /\ ~ leaves)
      /\ mapped' = IF leaves THEN AfterEviction ELSE mapped
      /\ signal' = leaves
      /\ failed' = failed \cup (IF u.spec THEN {"speculative_commit"} ELSE {})
                            \cup (IF leaves /\ spec THEN {"speculative_eviction"} ELSE {})
      /\ UNCHANGED <<cf, pc, spec, astray, fetchq, uopq, iq, loadq, storeq, memory, events>>
      /\ uops' = Kept(uops)
  BY DEF Commit, canCommit
<1>2. /\ rob \in Seq(UopIds) /\ uopq \in Seq(UopIds) /\ fetchq \in Seq(UopIds)
      /\ storeq \in Seq(UopIds)
  BY DEF ThreadInv, ThreadTypes
<1>3. x \in UopIds /\ rob' \in Seq(UopIds) /\ Range(rob') \subseteq Range(rob)
  BY <1>1, <1>2, TailRange
<1>4. Path' = Tail(Path) /\ Head(Path) = x /\ Path # <<>>
  <2>1. /\ Row(Tail(rob), uopq, fetchq) = Tail(Row(rob, uopq, fetchq))
        /\ Head(Row(rob, uopq, fetchq)) = Head(rob) /\ Row(rob, uopq, fetchq) # <<>>
    <3>1. rob # <<>>
      BY <1>1
    <3> QED  BY <1>2, <3>1, PathTail
  <2>2. Path = Row(rob, uopq, fetchq) /\ Path' = Row(Tail(rob), uopq, fetchq)
    BY <1>1 DEF Path, Row
  <2> QED  BY <2>1, <2>2
<1>5. leaves => evict /\ Path' = <<>>
  <2>1. PathOf(rob', uopq', fetchq', Path')
    <3>1. uopq' \in Seq(UopIds) /\ fetchq' \in Seq(UopIds)
      BY <1>1, <1>2
    <3> QED  BY <1>3, <3>1, PathIs DEF Path
  <2> QED  BY <1>1, <2>1 DEF PathOf, Leaves
<1>6. \A y \in Range(Path) \cup Waiting : uops[y] # NoUop
  BY DEF ThreadInv, PathInv
<1>7. /\ Path \in Seq(UopIds) /\ Range(Path) = Range(rob) \cup Range(uopq) \cup Range(fetchq)
      /\ Range(Path) \in SUBSET UopIds
  <2>1. PathOf(rob, uopq, fetchq, Path)
    BY <1>2, PathIs DEF Path
  <2> QED  BY <2>1 DEF PathOf
<1>8. /\ Path' \in Seq(UopIds) /\ Range(Path') = Range(Path) \ {x} /\ IsInjective(Path')
  <2>1. IsInjective(Path)
    BY DEF ThreadInv, PathInv
  <2> QED  BY <1>4, <1>7, <2>1, TailRange
<1>9. context # None
  BY <1>4 DEF ThreadInv, PathInv
<1> HIDE DEF leaves, x
<1>10. Waiting' = Waiting /\ Contexts' = Contexts /\ \A c : Running(c)' <=> Running(c)
  BY <1>1 DEF Waiting, Contexts, Running
<1>11. Waiting \in SUBSET UopIds
  <2>1. Range(storeq) \in SUBSET UopIds
    BY <1>2 DEF Range
  <2> QED  BY <2>1 DEF Waiting, ThreadInv, ThreadTypes
<1>12. /\ DOMAIN uops' = UopIds
       /\ \A y \in UopIds :
            uops'[y] = IF y \in Range(Path') \cup Waiting' THEN uops[y] ELSE NoUop
  <2>1. uopq' \in Seq(UopIds) /\ fetchq' \in Seq(UopIds)
    BY <1>1, <1>2
  <2>2. uops' = Kept(uops)
    BY <1>1
  <2> QED  BY <1>3, <2>1, <2>2, KeptIs
<1>13. \A y \in Range(Path') \cup Waiting' :
            y \in UopIds /\ uops'[y] = uops[y] /\ uops[y] # NoUop
  BY <1>6, <1>7, <1>8, <1>10, <1>11, <1>12
<1>14. Alike(Path', uops, uops')
  BY <1>13 DEF Alike
<1>15. ~ u.spec /\ Ordered(Path', uops, spec)
  <2>1. Ordered(Path, uops, spec) /\ spec \in BOOLEAN
    BY DEF ThreadInv, SpecInv, ThreadTypes
  <2>2. ~ uops[Head(Path)].first
    BY <1>1, <1>4
  <2>3. ~ uops[Head(Path)].spec /\ Ordered(Tail(Path), uops, spec)
    BY <1>4, <1>7, <2>1, <2>2, OrderedTail
  <2> QED  BY <1>4, <2>3
<1>16. leaves => ~ spec
  <2>1. spec <=> \E i \in DOMAIN Path' : uops[Path'[i]].spec
    BY <1>15 DEF Ordered
  <2> QED  BY <1>5, <2>1
<1>17. ThreadTypes'
  <2>1. mapped' \in Seq(Contexts)
    <3>1. Only(mapped, Contexts \ {context}) \in Seq(Contexts) /\ mapped \in Seq(Contexts)
      BY OnlyRange DEF ThreadInv, ThreadTypes
    <3>2. context \in Contexts
      BY <1>9 DEF ThreadInv, ThreadTypes
    <3>3. AfterEviction \in Seq(Contexts)
      BY <3>1, <3>2 DEF AfterEviction
    <3> QED  BY <1>1, <3>1, <3>3
  <2>2. \A y \in UopIds : uops'[y] = NoUop \/ IsUop(uops'[y])
    BY <1>12 DEF ThreadInv, ThreadTypes
  <2>3. signal' \in BOOLEAN /\ evict' \in BOOLEAN /\ context' \in Contexts \cup {None}
    BY <1>1 DEF Leaves, leaves, ThreadInv, ThreadTypes
  <2> QED  BY <1>1, <1>3, <1>10, <1>12, <2>1, <2>2, <2>3 DEF ThreadInv, ThreadTypes
<1>18. PathInv'
  <2>1. Waiting' \cap (Range(uopq') \cup Range(fetchq')) = {}
    BY <1>1, <1>10 DEF ThreadInv, PathInv
  <2>2. context' = None => Path' = <<>>
    BY <1>1, <1>5, <1>9
  <2> QED  BY <1>8, <1>13, <2>1, <2>2 DEF PathInv
<1>19. SpecInv'
  <2>1. Ordered(Path', uops', spec')
    <3>1. \A i \in DOMAIN Path' : /\ uops'[Path'[i]].spec = uops[Path'[i]].spec
                                  /\ uops'[Path'[i]].first = uops[Path'[i]].first
      BY <1>13 DEF Range
    <3>2. spec' = spec
      BY <1>1
    <3> QED  BY <1>15, <3>1, <3>2, OrderedSame
  <2>2. fetchq # <<>> => uops'[Head(fetchq)].index = 0
    <3> SUFFICES ASSUME fetchq # <<>> PROVE uops'[Head(fetchq)].index = 0
      OBVIOUS
    <3>1. Head(fetchq) \in Range(fetchq)
      BY <1>2, TailRange
    <3>2. PathOf(rob', uopq', fetchq', Path')
      <4>1. uopq' \in Seq(UopIds) /\ fetchq' \in Seq(UopIds)
        BY <1>1, <1>2
      <4> QED  BY <1>3, <4>1, PathIs DEF Path
    <3>3. Head(fetchq) \in Range(Path')
      BY <1>1, <3>1, <3>2 DEF PathOf
    <3>4. uops'[Head(fetchq)] = uops[Head(fetchq)]
      BY <1>13, <3>3
    <3> QED  BY <3>4 DEF ThreadInv, SpecInv
  <2> QED  BY <1>1, <2>1, <2>2 DEF SpecInv
<1>20. WaitInv'
  <2>1. \A y \in iq \cup loadq \cup Range(storeq) \cup memory \cup events : uops'[y] = uops[y]
    BY <1>10, <1>13 DEF Waiting
  <2>2. iq' = iq /\ loadq' = loadq /\ storeq' = storeq /\ memory' = memory /\ events' = events
        /\ cf' = cf
    BY <1>1
  <2>3. /\ \A y \in iq' : ~ IsMem(uops'[y])
        /\ \A y \in loadq' : uops'[y].inst.op = "load"
        /\ \A y \in Range(storeq') : uops'[y].inst.op = "store"
        /\ \A y \in memory' : uops'[y].inst.op \in {"load", "store"}
    BY <2>1, <2>2 DEF ThreadInv, WaitInv, IsMem
  <2>4. \A y \in memory' \cup events' : uops'[y].inst.op = "store" => y \notin Range(rob')
    BY <1>3, <2>1, <2>2 DEF ThreadInv, WaitInv
  <2>5. (loadq' \cup Range(storeq')) \cap (memory' \cup events') = {} /\ memory' \cap events' = {}
        /\ IsInjective(storeq')
    BY <2>2 DEF ThreadInv, WaitInv
  <2>6. cf.atWriteback => \A y \in UopIds : uops'[y] # NoUop /\ uops'[y].first =>
                              y \in Range(Path') /\ ~ uops'[y].completed
    <3> SUFFICES ASSUME cf.atWriteback, NEW y \in UopIds, uops'[y] # NoUop, uops'[y].first
                 PROVE  y \in Range(Path') /\ ~ uops'[y].completed
      OBVIOUS
    <3>1. uops'[y] = uops[y]
      BY <1>12
    <3>2. y \in Range(Path) /\ ~ uops[y].completed
      BY <3>1 DEF ThreadInv, WaitInv
    <3>3. y # x
      BY <1>1, <3>1
    <3> QED  BY <1>8, <3>1, <3>2, <3>3
  <2> QED  BY <2>2, <2>3, <2>4, <2>5, <2>6 DEF WaitInv
<1>21. EndInv'
  <2>1. ~ evict => Running(context)
    BY <1>1, <1>9 DEF ThreadInv, EndInv
  <2>2. CASE leaves
    BY <1>1, <2>2 DEF EndInv
  <2>3. CASE ~ leaves
    <3>1. context' = context /\ (evict' <=> evict)
      BY <1>1, <2>3
    <3>2. ~ evict => Running(context)'
      BY <1>1, <2>1, <3>1 DEF Running
    <3> QED  BY <3>1, <3>2 DEF EndInv
  <2> QED  BY <2>2, <2>3
<1>22. StagesAgree'
  <2>1. failed' = failed
    BY <1>1, <1>15, <1>16
  <2> QED  BY <2>1 DEF ThreadInv, StagesAgree
<1>23. context' = context \/ (context' = None /\ Path' = <<>>)
  BY <1>1, <1>5
<1> QED  BY <1>1, <1>4, <1>9, <1>14, <1>17, <1>18, <1>19, <1>20, <1>21, <1>22, <1>23
         DEF ThreadInv

\* The invariant holds at the start.
LEMMA InitInv == Init => ThreadInv
<1> SUFFICES ASSUME Init PROVE ThreadInv
  OBVIOUS
<1>1. /\ cf \in Configs /\ context = None /\ evict = FALSE /\ mapped = [c \in Contexts |-> c]
      /\ signal = TRUE /\ pc = [c \in Contexts |-> 0] /\ spec = FALSE /\ astray = FALSE
      /\ uops = [x \in UopIds |-> NoUop]
      /\ fetchq = <<>> /\ uopq = <<>> /\ rob = <<>> /\ storeq = <<>>
      /\ iq = {} /\ loadq = {} /\ memory = {} /\ events = {} /\ failed = {}
  BY DEF Init
<1>2. Path = <<>> /\ Range(storeq) = {} /\ Range(Path) = {} /\ Waiting = {}
      /\ Range(uopq) = {} /\ Range(fetchq) = {} /\ IsInjective(storeq) /\ IsInjective(Path)
  <2>1. Path = <<>>
    BY <1>1 DEF Path
  <2>2. Range(<<>>) = {} /\ IsInjective(<<>>)
    BY DEF Range, IsInjective
  <2> QED  BY <1>1, <2>1, <2>2 DEF Waiting
<1>3. mapped \in Seq(Contexts)
  <2> DEFINE n == Len(cf.programs)
  <2>1. Contexts = 1 .. n /\ n \in Nat
    BY <1>1, ConfigAssumption DEF Contexts
  <2> HIDE DEF n
  <2> QED  BY <1>1, <2>1
<1>4. ThreadTypes
  <2>1. /\ rob \in Seq(UopIds) /\ uopq \in Seq(UopIds) /\ fetchq \in Seq(UopIds)
        /\ storeq \in Seq(UopIds)
    BY <1>1
  <2>2. DOMAIN uops = UopIds /\ \A x \in UopIds : uops[x] = NoUop
    BY <1>1
  <2>3. pc \in [Contexts -> Nat]
    BY <1>1
  <2>4. /\ iq \in SUBSET UopIds /\ loadq \in SUBSET UopIds
        /\ memory \in SUBSET UopIds /\ events \in SUBSET UopIds
    BY <1>1
  <2>5. /\ cf \in Configs /\ context \in Contexts \cup {None}
        /\ evict \in BOOLEAN /\ signal \in BOOLEAN /\ spec \in BOOLEAN /\ astray \in BOOLEAN
    BY <1>1
  <2> QED  BY <1>3, <2>1, <2>2, <2>3, <2>4, <2>5 DEF ThreadTypes
<1>5. PathInv
  BY <1>1, <1>2 DEF PathInv
<1>6. SpecInv
  BY <1>1, <1>2 DEF SpecInv, Ordered
<1>7. WaitInv
  BY <1>1, <1>2 DEF WaitInv
<1>8. EndInv /\ StagesAgree
  BY <1>1 DEF EndInv, StagesAgree
<1> QED  BY <1>4, <1>5, <1>6, <1>7, <1>8 DEF ThreadInv

\* The invariant is kept by every step.
LEMMA StepInv == ThreadInv /\ [Next]_vars => ThreadInv'
<1> SUFFICES ASSUME ThreadInv, [Next]_vars PROVE ThreadInv'
  OBVIOUS
<1>1. cf.preempt \in BOOLEAN
  BY ConfigAssumption DEF ThreadInv, ThreadTypes
<1>2. CASE SignalledSchedule
  BY <1>1, <1>2, ScheduleInv DEF SignalledSchedule
<1>3. CASE ExpiredSchedule
  BY <1>3, ScheduleInv DEF ExpiredSchedule
<1>4. CASE FetchRight
  BY <1>4, FetchRightInv
<1>5. CASE FetchWrong
  BY <1>5, FetchWrongInv
<1>6. CASE Decode
  BY <1>6, DecodeInv
<1>7. CASE Dispatch
  BY <1>7, DispatchInv
<1>8. CASE IssueStore
  BY <1>8, IssueStoreInv
<1>9. CASE CommitRecover
  BY <1>9, CommitRecoverInv
<1>10. CASE Commit
  BY <1>10, CommitInv
<1>11. ASSUME NEW x \in UopIds,
              IssueLoad(x) \/ IssueInstruction(x) \/ MemoryAccessEnd(x) \/ Writeback(x)
       PROVE  ThreadInv'
  BY <1>11, IssueLoadInv, IssueInstructionInv, MemoryAccessEndInv, WritebackInv
<1>12. CASE UNCHANGED vars
  BY <1>12 DEF vars, ThreadInv, ThreadTypes, PathInv, SpecInv, WaitInv, EndInv, StagesAgree,
               Path, Waiting, Contexts, Running
<1> QED  BY <1>2, <1>3, <1>4, <1>5, <1>6, <1>7, <1>8, <1>9, <1>10, <1>11, <1>12
         DEF Next, Stages

\* The invariant always holds.
LEMMA Invariance == Spec => []ThreadInv
  BY InitInv, StepInv, PTL DEF Spec

\* The assertions that the stages make about each other hold: Decode finds the start
\* of an instruction, Recover finds the fetch queue empty, no uop of a wrong path is
\* committed, and no context is evicted in speculative mode or used when it is null.
THEOREM AssertionsHold == Spec => []StagesAgree
<1>1. ThreadInv => StagesAgree
  BY DEF ThreadInv
<1> QED  BY <1>1, Invariance, PTL
-----------------------------------------------------------------------------
(***************************************************************************)
(* The thread is a channel with a lane for every context.                  *)
(***************************************************************************)
Flight == [c \in ContextIds |-> InFlight(c)]
Emulated == UNION {{<<c, i>> : i \in 1 .. pc[c]} : c \in Contexts}

\* InFlight after a step.
LEMMA InFlightNext ==
    ASSUME NEW c
    PROVE  InFlight(c)' = IF c = context' THEN FlightOf(cf'.programs, Path', uops', c) ELSE <<>>
  BY DEF InFlight, FlightOf, Positions, LastOf, Path

\* An empty pipeline has nothing in flight.
LEMMA EmptyFlight ==
    ASSUME NEW ps, NEW us, NEW c PROVE FlightOf(ps, <<>>, us, c) = <<>>
<1>1. <<>> \in Seq(UopIds) /\ Range(<<>>) = {}
  BY DEF Range
<1> DEFINE e == <<>>
<1>2. e \in Seq(UopIds) /\ \A x \in Range(e) : x \notin LastOf(ps, us, c)
  BY <1>1
<1> HIDE DEF e
<1>3. FlightOf(ps, e, us, c) = <<>>
  BY <1>2, FlightNone
<1> QED  BY <1>3 DEF e

\* Registers and completion do not matter to the flight.
LEMMA FlightAlike ==
    ASSUME NEW ps, NEW P \in Seq(UopIds), NEW us, NEW vs, NEW c, Alike(P, us, vs)
    PROVE  FlightOf(ps, P, vs, c) = FlightOf(ps, P, us, c)
<1>1. \A x \in Range(P) : /\ us[x] # NoUop /\ vs[x] # NoUop
                          /\ vs[x].spec = us[x].spec /\ vs[x].index = us[x].index
                          /\ vs[x].position = us[x].position
  BY DEF Alike
<1> QED  BY <1>1, FlightSame

\* Nothing is fetched or committed.
LEMMA LanesSame ==
    ASSUME cf' = cf, pc' = pc, \A c \in ContextIds : InFlight(c)' = InFlight(c)
    PROVE  UNCHANGED <<Flight, Emulated>>
  BY DEF Flight, Emulated, Contexts

\* The pipeline is a sequence of uops.
LEMMA PathType == ASSUME ThreadInv PROVE Path \in Seq(UopIds)
<1>1. PathOf(rob, uopq, fetchq, Path)
  BY PathIs DEF Path, ThreadInv, ThreadTypes
<1> QED  BY <1>1 DEF PathOf

\* A quiet step does not change the flight.
LEMMA QuietFlight == ASSUME ThreadInv, Quiet PROVE UNCHANGED <<Flight, Emulated>>
<1>1. Path' = Path /\ Alike(Path, uops, uops') /\ cf' = cf /\ context' = context /\ pc' = pc
  BY DEF Quiet
<1>2. ASSUME NEW c \in ContextIds PROVE InFlight(c)' = InFlight(c)
  <2>1. FlightOf(cf.programs, Path, uops', c) = FlightOf(cf.programs, Path, uops, c)
    BY <1>1, PathType, FlightAlike
  <2>2. FlightOf(cf'.programs, Path', uops', c) = FlightOf(cf.programs, Path, uops, c)
    BY <1>1, <2>1
  <2> QED  BY <1>1, <2>2, InFlightIs, InFlightNext
<1> QED  BY <1>1, <1>2, LanesSame

\* A context change leaves nothing in flight behind.
LEMMA ScheduleFlight ==
    ASSUME ThreadInv, NEW expired, Schedule(expired) PROVE UNCHANGED <<Flight, Emulated>>
<1>1. UNCHANGED <<cf, pc, uops, rob, uopq, fetchq>>
  BY DEF Schedule
<1>2. context' = context \/ context = None \/ isPipelineEmpty
  BY DEF Schedule
<1>3. context' = context \/ Path = <<>>
  BY <1>2, EmptyIsRight DEF ThreadInv, PathInv
<1>4. Path' = Path
  BY <1>1 DEF Path
<1>5. ASSUME NEW c \in ContextIds PROVE InFlight(c)' = InFlight(c)
  <2>1. FlightOf(cf'.programs, Path', uops', c) = FlightOf(cf.programs, Path, uops, c)
    BY <1>1, <1>4
  <2>2. Path = <<>> => FlightOf(cf.programs, Path, uops, c) = <<>>
    BY EmptyFlight
  <2> QED  BY <1>3, <2>1, <2>2, InFlightIs, InFlightNext
<1> QED  BY <1>1, <1>5, LanesSame

\* A recovery does not change the flight.
LEMMA SquashFlight ==
    ASSUME ThreadInv, ThreadInv', NEW us, Squash(us) PROVE UNCHANGED <<Flight, Emulated>>
<1> DEFINE gone == Squashed(us)
           ps == cf.programs
<1>1. /\ SameUops(us)
      /\ rob' = Trimmed(rob, gone) /\ uopq' = Trimmed(uopq, gone)
      /\ fetchq' = Trimmed(fetchq, gone)
      /\ \A y \in Range(Path') : uops'[y] = us[y] /\ y \in Range(Path)
      /\ cf' = cf /\ context' = context /\ pc' = pc
  BY DEF Squash
<1>2. /\ rob \in Seq(UopIds) /\ uopq \in Seq(UopIds) /\ fetchq \in Seq(UopIds)
  BY DEF ThreadInv, ThreadTypes
<1>3. Path \in Seq(UopIds) /\ Range(Path) \in SUBSET UopIds
  <2>1. PathOf(rob, uopq, fetchq, Path)
    BY <1>2, PathIs DEF Path
  <2> QED  BY <2>1 DEF PathOf
<1>4. Path' \in Seq(UopIds)
  <2>1. rob' \in Seq(UopIds) /\ uopq' \in Seq(UopIds) /\ fetchq' \in Seq(UopIds)
    BY DEF ThreadInv, ThreadTypes
  <2>2. PathOf(rob', uopq', fetchq', Path')
    BY <2>1, PathIs DEF Path
  <2> QED  BY <2>2 DEF PathOf
<1>5. \A y \in Range(Path) : uops[y] # NoUop
  BY DEF ThreadInv, PathInv
<1>6. Alike(Path, uops, us)
  BY <1>1, <1>3, <1>5 DEF Alike, SameUops
<1>7. Alike(Path', us, uops')
  <2>1. \A y \in Range(Path') : us[y] # NoUop /\ uops'[y] = us[y]
    BY <1>1, <1>6 DEF Alike
  <2> QED  BY <2>1 DEF Alike
<1>8. ASSUME NEW c \in ContextIds PROVE InFlight(c)' = InFlight(c)
  <2>1. LastOf(ps, us, c) \cap gone = {}
    BY DEF LastOf, Squashed
  <2> HIDE DEF gone, ps
  <2>2. FlightOf(ps, Row(Trimmed(rob, gone), Trimmed(uopq, gone), Trimmed(fetchq, gone)), us, c)
          = FlightOf(ps, Row(rob, uopq, fetchq), us, c)
    BY <1>2, <2>1, FlightTrim
  <2>3. FlightOf(ps, Path', us, c) = FlightOf(ps, Path, us, c)
    <3>1. Path' = Row(Trimmed(rob, gone), Trimmed(uopq, gone), Trimmed(fetchq, gone))
      BY <1>1 DEF Path, Row
    <3>2. Path = Row(rob, uopq, fetchq)
      BY DEF Path, Row
    <3> QED  BY <2>2, <3>1, <3>2
  <2>4. FlightOf(ps, Path, us, c) = FlightOf(ps, Path, uops, c)
    BY <1>3, <1>6, FlightAlike
  <2>5. FlightOf(ps, Path', uops', c) = FlightOf(ps, Path', us, c)
    BY <1>4, <1>7, FlightAlike
  <2>6. FlightOf(cf'.programs, Path', uops', c) = FlightOf(cf.programs, Path, uops, c)
    BY <1>1, <2>3, <2>4, <2>5 DEF ps
  <2> QED  BY <1>1, <2>6, InFlightIs, InFlightNext
<1> QED  BY <1>1, <1>8, LanesSame

\* Only one lane changes.
LEMMA OneLane ==
    ASSUME NEW c \in ContextIds, NEW F, InFlight(c)' = F,
           \A d \in ContextIds : d # c => InFlight(d)' = InFlight(d)
    PROVE  Flight' = [Flight EXCEPT ![c] = F]
<1>1. Flight' = [d \in ContextIds |-> InFlight(d)']
  BY DEF Flight
<1>2. [Flight EXCEPT ![c] = F] = [d \in ContextIds |-> IF d = c THEN F ELSE InFlight(d)]
  BY DEF Flight
<1> QED  BY <1>1, <1>2

\* A commit delivers an instruction with its last uop.
LEMMA CommitFlight ==
    ASSUME ThreadInv, Commit
    PROVE  Ch!ChannelNext \/ UNCHANGED <<Flight, Emulated>>
<1>1. /\ Path # <<>> /\ Path' = Tail(Path) /\ Alike(Path', uops, uops') /\ context # None
      /\ UNCHANGED <<cf, pc>> /\ (context' = context \/ (context' = None /\ Path' = <<>>))
  BY CommitInv
<1>2. PICK c : c = context
  OBVIOUS
<1> DEFINE F == FlightOf(cf.programs, Path, uops, c)
           G == FlightOf(cf.programs, Tail(Path), uops, c)
<1>3. c \in ContextIds
  <2>1. c \in Contexts /\ cf \in Configs
    BY <1>1, <1>2 DEF ThreadInv, ThreadTypes
  <2> QED  BY <2>1, ConfigAssumption DEF Contexts
<1>4. Path \in Seq(UopIds) /\ Tail(Path) \in Seq(UopIds)
  BY <1>1, PathType, TailIndex
<1>5. G = F \/ (F # <<>> /\ G = Tail(F))
  BY <1>1, <1>4, FlightTail
<1>6. InFlight(c) = F
  BY <1>2, InFlightIs
<1>7. InFlight(c)' = G
  <2>1. FlightOf(cf.programs, Tail(Path), uops', c) = G
    <3>1. Alike(Tail(Path), uops, uops') /\ Tail(Path) \in Seq(UopIds)
      BY <1>1, <1>4
    <3> QED  BY <3>1, FlightAlike
  <2>2. FlightOf(cf'.programs, Path', uops', c) = G
    BY <1>1, <2>1
  <2>3. Path' = <<>> => G = <<>>
    BY <1>1, EmptyFlight
  <2> HIDE DEF G
  <2> QED  BY <1>1, <1>2, <2>2, <2>3, InFlightNext
<1> HIDE DEF F, G
<1>8. ASSUME NEW d \in ContextIds, d # c PROVE InFlight(d)' = InFlight(d)
  <2>1. InFlight(d) = <<>>
    BY <1>2, <1>8, InFlightIs
  <2>2. InFlight(d)' = IF d = context' THEN FlightOf(cf'.programs, Path', uops', d) ELSE <<>>
    BY InFlightNext
  <2>3. Path' = <<>> => FlightOf(cf'.programs, Path', uops', d) = <<>>
    BY EmptyFlight
  <2> QED  BY <1>1, <1>2, <1>8, <2>1, <2>2, <2>3
<1>9. Emulated' = Emulated
  BY <1>1 DEF Emulated, Contexts
<1>10. CASE G = F
  BY <1>1, <1>6, <1>7, <1>8, <1>10, LanesSame
<1>11. CASE F # <<>> /\ G = Tail(F)
  <2>1. Flight' = [Flight EXCEPT ![c] = G]
    BY <1>3, <1>7, <1>8, OneLane
  <2>2. Flight[c] = F
    BY <1>3, <1>6 DEF Flight
  <2>3. /\ Flight[c] # <<>> /\ Flight' = [Flight EXCEPT ![c] = Tail(@)]
        /\ Emulated' = Emulated
    BY <1>9, <1>11, <2>1, <2>2
  <2>4. Ch!Deliver(c)
    BY <2>3 DEF Ch!Deliver, Flight, Emulated
  <2> QED  BY <1>3, <2>4 DEF Ch!ChannelNext
<1> QED  BY <1>5, <1>10, <1>11

\* The wrong path is not in the flight.
LEMMA FetchWrongFlight ==
    ASSUME ThreadInv, FetchWrong PROVE UNCHANGED <<Flight, Emulated>>
<1>1. /\ context # None
      /\ \E mop \in cf.wrong : Fetched(mop, TRUE, 0)
      /\ UNCHANGED <<cf, context, evict, mapped, signal, pc, astray, uopq, rob, iq, loadq,
                   storeq, memory, events, rf, failed>>
  BY DEF FetchWrong, canFetch
<1>2. ThreadTypes
  BY DEF ThreadInv
<1>3. PICK mop \in Macros : Fetched(mop, TRUE, 0)
  <2>1. cf.wrong \subseteq Macros
    BY <1>2, ConfigAssumption DEF ThreadTypes
  <2> QED  BY <1>1, <2>1
<1>4. PICK new : Fetches(new, mop, TRUE, 0)
  BY <1>2, <1>3, FetchedEffect
<1>5. /\ Path' = Then(Path, new) /\ Path \in Seq(UopIds) /\ new \in Seq(UopIds)
      /\ Alike(Path, uops, uops')
  <2>1. UNCHANGED <<cf, context, evict, mapped, uopq, rob, iq, loadq, storeq, memory, events,
                       failed>>
    BY <1>1
  <2> QED  BY <1>1, <1>4, <2>1, FetchStep
<1>6. \A x \in Range(new) : uops'[x].spec
  <2>1. DOMAIN new = 1 .. Len(new)
    BY <1>5
  <2>2. \A i \in 1 .. Len(new) : uops'[new[i]].spec = TRUE
    BY <1>4 DEF Fetches
  <2> QED  BY <2>1, <2>2 DEF Range
<1>7. ASSUME NEW c \in ContextIds PROVE InFlight(c)' = InFlight(c)
  <2> DEFINE ps == cf.programs
             F == FlightOf(ps, Path, uops, c)
  <2> HIDE DEF ps
  <2>1. FlightOf(ps, Then(Path, new), uops', c)
          = Then(FlightOf(ps, Path, uops', c), FlightOf(ps, new, uops', c))
    BY <1>5, FlightConcat
  <2>2. FlightOf(ps, Path, uops', c) = F
    BY <1>5, FlightAlike
  <2>3. FlightOf(ps, new, uops', c) = <<>>
    <3>1. \A x \in Range(new) : x \notin LastOf(ps, uops', c)
      BY <1>6 DEF LastOf
    <3> QED  BY <1>5, <3>1, FlightNone
  <2>4. F \in Seq(Stamps(uops, c))
    BY <1>5, FlightType
  <2> HIDE DEF F
  <2>5. Then(F, <<>>) = F
    BY <2>4 DEF Then
  <2>6. FlightOf(cf'.programs, Path', uops', c) = FlightOf(cf.programs, Path, uops, c)
    BY <1>1, <1>5, <2>1, <2>2, <2>3, <2>5 DEF F, ps
  <2> QED  BY <1>1, <2>6, InFlightIs, InFlightNext
<1> QED  BY <1>1, <1>7, LanesSame

\* A fetch on the right path sends the next instruction of the context.
LEMMA FetchRightFlight ==
    ASSUME ThreadInv, FetchRight PROVE Ch!ChannelNext
<1>1. PICK c, pos, mop : /\ c = context /\ pos = pc[context] + 1
                         /\ mop = cf.programs[context][pc[context] + 1]
  OBVIOUS
<1>2. /\ context # None /\ Running(context)
      /\ Fetched(mop, FALSE, pos)
      /\ pc' = [pc EXCEPT ![c] = pos]
      /\ UNCHANGED <<cf, context, evict, mapped, spec, uopq, rob, iq, loadq, storeq,
                       memory, events, rf, failed>>
  BY <1>1 DEF FetchRight, canFetch
<1>3. /\ c \in Contexts /\ c \in ContextIds /\ pc[c] \in Nat /\ pos \in Nat /\ pos = pc[c] + 1
      /\ mop \in Macros /\ pos \in 1 .. MaxLength /\ mop = cf.programs[c][pos]
  BY <1>1, <1>2, NextInstruction
<1>4. ThreadTypes
  BY DEF ThreadInv
<1>5. PICK new : Fetches(new, mop, FALSE, pos)
  BY <1>2, <1>3, <1>4, FetchedEffect
<1>6. /\ Path' = Then(Path, new) /\ Path \in Seq(UopIds) /\ new \in Seq(UopIds)
      /\ Alike(Path, uops, uops')
  <2>1. UNCHANGED <<cf, context, evict, mapped, uopq, rob, iq, loadq, storeq, memory, events,
                       failed>>
    BY <1>2
  <2> QED  BY <1>2, <1>5, <2>1, FetchStep
<1> DEFINE ps == cf.programs
           F == FlightOf(ps, Path, uops, c)
           m == <<c, pos>>
           us == uops'
<1>7. FlightOf(ps, new, us, c) = <<m>>
  <2>1. /\ new # <<>> /\ Len(new) = Len(mop) /\ Len(new) \in Nat \ {0}
        /\ \A i \in 1 .. Len(new) : /\ IsUop(us[new[i]]) /\ us[new[i]].index = i - 1
                                    /\ us[new[i]].position = pos /\ us[new[i]].spec = FALSE
                                    /\ new[i] \in UopIds
    BY <1>5, <1>6 DEF Fetches
  <2> HIDE DEF us
  <2>2. \A i \in 1 .. Len(new) : new[i] \in LastOf(ps, us, c) <=> i = Len(new)
    <3> SUFFICES ASSUME NEW i \in 1 .. Len(new)
                 PROVE  new[i] \in LastOf(ps, us, c) <=> i = Len(new)
      OBVIOUS
    <3>1. us[new[i]] # NoUop /\ ~ us[new[i]].spec /\ new[i] \in UopIds
      BY <2>1 DEF IsUop, NoUop
    <3>2. us[new[i]].index + 1 = i
      BY <2>1
    <3>3. Len(ps[c][us[new[i]].position]) = Len(new)
      BY <1>3, <2>1
    <3> QED  BY <3>1, <3>2, <3>3 DEF LastOf
  <2>3. FlightOf(ps, new, us, c) = << <<c, us[new[Len(new)]].position>> >>
    BY <1>6, <2>1, <2>2, FlightNew
  <2>4. us[new[Len(new)]].position = pos
    BY <2>1
  <2> QED  BY <2>3, <2>4
<1> HIDE DEF ps, m
<1>8. FlightOf(ps, Path', uops', c) = Append(F, m)
  <2>1. FlightOf(ps, Then(Path, new), uops', c)
          = Then(FlightOf(ps, Path, uops', c), FlightOf(ps, new, uops', c))
    BY <1>6, FlightConcat
  <2>2. FlightOf(ps, Path, uops', c) = F
    BY <1>6, FlightAlike
  <2>3. F \in Seq(Stamps(uops, c))
    BY <1>6, FlightType
  <2> HIDE DEF F
  <2>4. Then(F, <<m>>) = Append(F, m)
    BY <2>3 DEF Then
  <2> QED  BY <1>6, <1>7, <2>1, <2>2, <2>4
<1> HIDE DEF F, us
<1>9. InFlight(c) = F /\ InFlight(c)' = Append(F, m)
  <2>1. context' = c /\ cf' = cf
    BY <1>1, <1>2
  <2>2. InFlight(c) = F
    BY <1>1, InFlightIs DEF F, ps
  <2>3. InFlight(c)' = FlightOf(cf'.programs, Path', uops', c)
    BY <2>1, InFlightNext
  <2> QED  BY <1>8, <2>1, <2>2, <2>3 DEF ps
<1>10. ASSUME NEW d \in ContextIds, d # c PROVE InFlight(d)' = InFlight(d)
  <2>1. context = c /\ context' = c
    BY <1>1, <1>2
  <2> QED  BY <1>10, <2>1, InFlightIs, InFlightNext
<1>11. Flight' = [Flight EXCEPT ![c] = Append(@, m)]
  <2>1. Flight' = [Flight EXCEPT ![c] = Append(F, m)]
    BY <1>3, <1>9, <1>10, OneLane
  <2>2. Flight[c] = F
    BY <1>3, <1>9 DEF Flight
  <2> QED  BY <2>1, <2>2
<1>12. m \notin Emulated /\ Emulated' = Emulated \cup {m}
  <2>1. \A d, i : <<d, i>> \in Emulated <=> d \in Contexts /\ i \in 1 .. pc[d]
    BY DEF Emulated
  <2>2. /\ Contexts' = Contexts /\ pc \in [Contexts -> Nat]
        /\ \A d \in Contexts : pc'[d] = IF d = c THEN pos ELSE pc[d]
    BY <1>2, <1>3, <1>4 DEF ThreadTypes, Contexts
  <2>3. \A d \in Contexts : \A i : i \in 1 .. pc'[d] <=> i \in 1 .. pc[d] \/ (d = c /\ i = pos)
    BY <1>3, <2>2
  <2>4. Emulated' = UNION {{<<d, i>> : i \in 1 .. pc'[d]} : d \in Contexts}
    BY <2>2 DEF Emulated
  <2>5. \A e : e \in Emulated' <=> e \in Emulated \/ e = m
    <3>1. \A e : e \in Emulated' <=> \E d \in Contexts : \E i \in 1 .. pc'[d] : e = <<d, i>>
      BY <2>4
    <3>2. \A e : e \in Emulated <=> \E d \in Contexts : \E i \in 1 .. pc[d] : e = <<d, i>>
      BY DEF Emulated
    <3> QED  BY <1>3, <2>3, <3>1, <3>2 DEF m
  <2>6. m \notin Emulated
    BY <1>3, <2>1 DEF m
  <2> QED  BY <2>5, <2>6
<1>13. m \in ContextIds \X (1 .. MaxLength)
  BY <1>3 DEF m
<1>14. Ch!Send(c, m)
  BY <1>11, <1>12 DEF Ch!Send, Flight, Emulated
<1> QED  BY <1>3, <1>13, <1>14 DEF Ch!ChannelNext

\* Every step is one of the channel.
LEMMA ChannelStep ==
    ThreadInv /\ ThreadInv' /\ [Next]_vars
        => [Ch!ChannelNext]_<<[c \in ContextIds |-> InFlight(c)],
                             UNION {{<<c, i>> : i \in 1 .. pc[c]} : c \in Contexts}>>
<1> SUFFICES ASSUME ThreadInv, ThreadInv', [Next]_vars
             PROVE  Ch!ChannelNext \/ UNCHANGED <<Flight, Emulated>>
  BY DEF Flight, Emulated
<1>1. ThreadInv /\ UNCHANGED <<cf, context, pc, uops, rob, uopq, fetchq>> => Quiet
  BY DEF Quiet, Path, Alike, ThreadInv, PathInv
<1>2. CASE SignalledSchedule \/ ExpiredSchedule
  BY <1>2, ScheduleFlight DEF SignalledSchedule, ExpiredSchedule
<1>3. CASE FetchRight
  BY <1>3, FetchRightFlight
<1>4. CASE FetchWrong
  BY <1>4, FetchWrongFlight
<1>5. CASE Decode
  <2>1. Path' = Path /\ UNCHANGED <<cf, context, pc, uops>>
    BY <1>5, DecodeInv DEF Decode
  <2>2. Quiet
    BY <2>1 DEF Quiet, Alike, ThreadInv, PathInv
  <2> QED  BY <2>2, QuietFlight
<1>6. CASE Dispatch
  <2>1. UNCHANGED <<cf, context, pc>>
    BY <1>6 DEF Dispatch
  <2>2. Quiet
    BY <1>6, <2>1, DispatchInv DEF Quiet
  <2> QED  BY <2>2, QuietFlight
<1>7. CASE IssueStore
  BY <1>1, <1>7, QuietFlight DEF IssueStore
<1>8. CASE CommitRecover
  <2>1. PICK us : us = uops
    OBVIOUS
  <2>2. Squash(us)
    BY <1>8, <2>1, CommitRecoverInv
  <2> QED  BY <2>2, SquashFlight
<1>9. CASE Commit
  BY <1>9, CommitFlight
<1>10. ASSUME NEW x \in UopIds, IssueLoad(x) \/ IssueInstruction(x) \/ MemoryAccessEnd(x)
       PROVE  UNCHANGED <<Flight, Emulated>>
  BY <1>1, <1>10, QuietFlight DEF IssueLoad, IssueInstruction, MemoryAccessEnd
<1>11. ASSUME NEW x \in UopIds, Writeback(x) PROVE UNCHANGED <<Flight, Emulated>>
  BY <1>11, WritebackInv, QuietFlight, SquashFlight
<1>12. CASE UNCHANGED vars
  BY <1>1, <1>12, QuietFlight DEF vars
<1> QED  BY <1>2, <1>3, <1>4, <1>5, <1>6, <1>7, <1>8, <1>9, <1>10, <1>11, <1>12
         DEF Next, Stages

\* Whatever is fetched, squashed or preempted, the thread commits the instructions of
\* each context once and in the order of its program.
THEOREM CommitOrder == Spec => CommitsInOrder
<1>1. Init => Ch!ChannelInit
  <2> SUFFICES ASSUME Init PROVE Ch!ChannelInit
    OBVIOUS
  <2>1. Path = <<>>
    BY DEF Init, Path
  <2>2. \A c : InFlight(c) = <<>>
    BY <2>1, InFlightIs, EmptyFlight
  <2>3. \A c \in Contexts : 1 .. pc[c] = {}
    BY DEF Init
  <2>4. UNION {{<<c, i>> : i \in 1 .. pc[c]} : c \in Contexts} = {}
    BY <2>3
  <2> QED  BY <2>2, <2>4 DEF Ch!ChannelInit
<1> QED  BY <1>1, ChannelStep, Invariance, PTL DEF Spec, CommitsInOrder, Ch!ChannelSpec
=============================================================================
