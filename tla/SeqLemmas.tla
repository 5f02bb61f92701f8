----------------------------- MODULE SeqLemmas ------------------------------
(***************************************************************************)
(* Facts about sequences used as buffers: what putting an element in or    *)
(* taking one out does to the set of elements, and when no element is in a *)
(* buffer twice; and about the searches for a least or a greatest element. *)
(* The proofs about the components cite them.                              *)
(***************************************************************************)
EXTENDS Integers, Sequences, FiniteSets, Functions, FunctionTheorems,
        FiniteSetTheorems, WellFoundedInduction, TLAPS

\* A buffer of some elements is a buffer of more.
LEMMA SeqWider ==
    ASSUME NEW S, NEW T, S \subseteq T, NEW q \in Seq(S)
    PROVE  q \in Seq(T)
  OBVIOUS

\* An element goes to the end of a buffer.
LEMMA AppendRange ==
    ASSUME NEW S, NEW q \in Seq(S), NEW x \in S
    PROVE  /\ Append(q, x) \in Seq(S)
           /\ Range(Append(q, x)) = Range(q) \cup {x}
           /\ IsInjective(q) /\ x \notin Range(q) => IsInjective(Append(q, x))
<1> DEFINE r == Append(q, x)
<1>1. /\ r \in Seq(S) /\ Len(r) = Len(q) + 1 /\ Len(q) \in Nat
      /\ DOMAIN r = 1 .. Len(q) + 1 /\ DOMAIN q = 1 .. Len(q)
      /\ \A i \in 1 .. Len(q) : r[i] = q[i]
      /\ r[Len(q) + 1] = x
  OBVIOUS
<1> HIDE DEF r
<1>2. Range(r) = Range(q) \cup {x}
  <2>1. ASSUME NEW i \in DOMAIN r
        PROVE  r[i] \in Range(q) \cup {x}
    <3>1. CASE i = Len(q) + 1
      BY <1>1, <3>1
    <3>2. CASE i \in 1 .. Len(q)
      BY <1>1, <3>2 DEF Range
    <3> QED  BY <1>1, <3>1, <3>2
  <2>2. ASSUME NEW i \in DOMAIN q
        PROVE  q[i] \in Range(r)
    <3>1. i \in DOMAIN r /\ r[i] = q[i]
      BY <1>1
    <3> QED  BY <3>1 DEF Range
  <2>3. x \in Range(r)
    <3>1. Len(q) + 1 \in DOMAIN r
      BY <1>1
    <3> QED  BY <1>1, <3>1 DEF Range
  <2> QED  BY <2>1, <2>2, <2>3 DEF Range
<1>3. ASSUME IsInjective(q), x \notin Range(q), NEW i \in DOMAIN r, NEW j \in DOMAIN r,
             r[i] = r[j]
      PROVE  i = j
  <2>1. \A k \in 1 .. Len(q) : q[k] # x
    BY <1>1, <1>3 DEF Range
  <2> QED  BY <1>1, <1>3, <2>1 DEF IsInjective
<1> QED  BY <1>1, <1>2, <1>3 DEF r, IsInjective

\* The first element leaves a buffer.
LEMMA TailRange ==
    ASSUME NEW S, NEW q \in Seq(S), q # <<>>
    PROVE  /\ Head(q) \in S /\ Tail(q) \in Seq(S)
           /\ Head(q) \in Range(q)
           /\ Range(q) = Range(Tail(q)) \cup {Head(q)}
           /\ IsInjective(q) => /\ Range(Tail(q)) = Range(q) \ {Head(q)}
                                /\ IsInjective(Tail(q))
<1> DEFINE r == Tail(q)
<1>1. /\ r \in Seq(S) /\ Len(r) = Len(q) - 1 /\ Len(q) \in Nat \ {0}
      /\ DOMAIN r = 1 .. Len(q) - 1 /\ DOMAIN q = 1 .. Len(q)
      /\ \A i \in 1 .. Len(q) - 1 : r[i] = q[i + 1]
      /\ Head(q) = q[1] /\ Head(q) \in S
  OBVIOUS
<1> HIDE DEF r
<1>2. 1 \in DOMAIN q /\ Head(q) \in Range(q)
  BY <1>1 DEF Range
<1>3. Range(r) \subseteq Range(q)
  <2>1. ASSUME NEW i \in DOMAIN r
        PROVE  r[i] \in Range(q)
    <3>1. i + 1 \in DOMAIN q /\ r[i] = q[i + 1]
      BY <1>1
    <3> QED  BY <3>1 DEF Range
  <2> QED  BY <2>1 DEF Range
<1>4. ASSUME NEW i \in DOMAIN q, i # 1
      PROVE  q[i] \in Range(r)
  <2>1. i - 1 \in DOMAIN r /\ r[i - 1] = q[i]
    BY <1>1, <1>4
  <2> QED  BY <2>1 DEF Range
<1>5. Range(q) \subseteq Range(r) \cup {Head(q)}
  BY <1>1, <1>4 DEF Range
<1>6. ASSUME IsInjective(q)
      PROVE  Head(q) \notin Range(r) /\ IsInjective(r)
  <2>1. ASSUME NEW i \in DOMAIN r, r[i] = Head(q)
        PROVE  FALSE
    <3>1. i + 1 \in DOMAIN q /\ r[i] = q[i + 1] /\ i + 1 # 1
      BY <1>1
    <3> QED  BY <1>1, <1>2, <1>6, <2>1, <3>1 DEF IsInjective
  <2>2. ASSUME NEW i \in DOMAIN r, NEW j \in DOMAIN r, r[i] = r[j]
        PROVE  i = j
    <3>1. i + 1 \in DOMAIN q /\ j + 1 \in DOMAIN q /\ q[i + 1] = q[j + 1]
      BY <1>1, <2>2
    <3>2. i + 1 = j + 1
      BY <1>6, <3>1 DEF IsInjective
    <3> QED  BY <1>1, <3>2
  <2> QED  BY <2>1, <2>2 DEF Range, IsInjective
<1> QED  BY <1>1, <1>2, <1>3, <1>5, <1>6 DEF r

\* The elements of the rest of a buffer move up.
LEMMA TailIndex ==
    ASSUME NEW S, NEW q \in Seq(S), q # <<>>
    PROVE  /\ Tail(q) \in Seq(S) /\ Head(q) = q[1]
           /\ Len(q) \in Nat \ {0} /\ Len(Tail(q)) = Len(q) - 1
           /\ \A i \in 1 .. Len(Tail(q)) : Tail(q)[i] = q[i + 1]
           /\ Tail(q) = <<>> \/ Len(q) > 1
<1>1. /\ Tail(q) \in Seq(S) /\ Head(q) = q[1]
      /\ Len(q) \in Nat \ {0} /\ Len(Tail(q)) = Len(q) - 1
      /\ \A i \in 1 .. Len(Tail(q)) : Tail(q)[i] = q[i + 1]
  OBVIOUS
<1>2. Tail(q) = <<>> \/ Len(Tail(q)) # 0
  BY <1>1
<1> QED  BY <1>1, <1>2

\* Two sequences with the same elements in the same places are equal.
LEMMA SeqEqual ==
    ASSUME NEW S, NEW T, NEW q \in Seq(S), NEW r \in Seq(T), Len(q) = Len(r),
           \A i \in 1 .. Len(q) : q[i] = r[i]
    PROVE  q = r
  OBVIOUS

\* The elements of two buffers put together, by position.
LEMMA ConcatIndex ==
    ASSUME NEW S, NEW q \in Seq(S), NEW r \in Seq(S)
    PROVE  /\ q \o r \in Seq(S) /\ Len(q \o r) = Len(q) + Len(r)
           /\ Len(q) \in Nat /\ Len(r) \in Nat
           /\ \A i \in 1 .. Len(q) : (q \o r)[i] = q[i]
           /\ \A i \in 1 .. Len(r) : (q \o r)[Len(q) + i] = r[i]
  OBVIOUS

\* One buffer is emptied into another one.
LEMMA ConcatRange ==
    ASSUME NEW S, NEW q \in Seq(S), NEW r \in Seq(S)
    PROVE  /\ q \o r \in Seq(S)
           /\ Range(q \o r) = Range(q) \cup Range(r)
           /\ IsInjective(q \o r) <=> /\ IsInjective(q) /\ IsInjective(r)
                                      /\ Range(q) \cap Range(r) = {}
<1> DEFINE c == q \o r
<1>1. /\ c \in Seq(S) /\ Len(q) \in Nat /\ Len(r) \in Nat
      /\ DOMAIN c = 1 .. Len(q) + Len(r)
      /\ DOMAIN q = 1 .. Len(q) /\ DOMAIN r = 1 .. Len(r)
      /\ \A i \in 1 .. Len(q) : c[i] = q[i]
      /\ \A i \in 1 .. Len(r) : c[Len(q) + i] = r[i]
  OBVIOUS
<1> HIDE DEF c
<1>2. \A i \in DOMAIN q : i \in DOMAIN c /\ c[i] = q[i]
  BY <1>1
<1>3. \A i \in DOMAIN r : Len(q) + i \in DOMAIN c /\ c[Len(q) + i] = r[i]
  BY <1>1
<1>4. \A i \in DOMAIN c : \/ i \in DOMAIN q /\ c[i] = q[i]
                          \/ i - Len(q) \in DOMAIN r /\ c[i] = r[i - Len(q)]
  <2> SUFFICES ASSUME NEW i \in DOMAIN c, i \notin DOMAIN q
               PROVE  i - Len(q) \in DOMAIN r /\ c[i] = r[i - Len(q)]
    BY <1>1
  <2>1. i - Len(q) \in 1 .. Len(r) /\ i = Len(q) + (i - Len(q))
    BY <1>1
  <2> QED  BY <1>1, <2>1
<1>5. Range(c) = Range(q) \cup Range(r)
  <2>1. Range(c) \subseteq Range(q) \cup Range(r)
    BY <1>4 DEF Range
  <2>2. Range(q) \subseteq Range(c)
    BY <1>2 DEF Range
  <2>3. Range(r) \subseteq Range(c)
    BY <1>3 DEF Range
  <2> QED  BY <2>1, <2>2, <2>3
<1>6. ASSUME IsInjective(c)
      PROVE  IsInjective(q) /\ IsInjective(r) /\ Range(q) \cap Range(r) = {}
  <2>1. IsInjective(q)
    BY <1>2, <1>6 DEF IsInjective
  <2>2. ASSUME NEW i \in DOMAIN r, NEW j \in DOMAIN r, r[i] = r[j]
        PROVE  i = j
    <3>1. Len(q) + i = Len(q) + j
      BY <1>3, <1>6, <2>2 DEF IsInjective
    <3> QED  BY <1>1, <3>1
  <2>3. ASSUME NEW i \in DOMAIN q, NEW j \in DOMAIN r, q[i] = r[j]
        PROVE  FALSE
    <3>1. i = Len(q) + j
      BY <1>2, <1>3, <1>6, <2>3 DEF IsInjective
    <3> QED  BY <1>1, <3>1
  <2> QED  BY <2>1, <2>2, <2>3 DEF Range, IsInjective
<1>7. ASSUME IsInjective(q), IsInjective(r), Range(q) \cap Range(r) = {},
             NEW i \in DOMAIN c, NEW j \in DOMAIN c, c[i] = c[j]
      PROVE  i = j
  <2>1. CASE i \in DOMAIN q /\ j \in DOMAIN q
    BY <1>2, <1>7, <2>1 DEF IsInjective
  <2>2. CASE i \notin DOMAIN q /\ j \notin DOMAIN q
    <3>1. i - Len(q) = j - Len(q)
      BY <1>4, <1>7, <2>2 DEF IsInjective
    <3> QED  BY <1>1, <3>1
  <2>3. CASE i \in DOMAIN q /\ j \notin DOMAIN q
    BY <1>2, <1>4, <1>7, <2>3 DEF Range
  <2>4. CASE i \notin DOMAIN q /\ j \in DOMAIN q
    BY <1>2, <1>4, <1>7, <2>4 DEF Range
  <2> QED  BY <2>1, <2>2, <2>3, <2>4
<1> QED  BY <1>1, <1>5, <1>6, <1>7 DEF c, IsInjective

\* A buffer without duplicates is as long as it has elements.
LEMMA LenIsCardinality ==
    ASSUME NEW S, NEW q \in Seq(S), IsInjective(q)
    PROVE  /\ IsFiniteSet(Range(q))
           /\ Cardinality(Range(q)) = Len(q)
<1>1. Len(q) \in Nat /\ q \in [1 .. Len(q) -> S] /\ DOMAIN q = 1 .. Len(q)
  OBVIOUS
<1>2. q \in Injection(1 .. Len(q), S)
  BY <1>1, Fun_IsInj DEF IsInjective
<1>3. q \in Bijection(1 .. Len(q), Range(q))
  BY <1>2, Fun_InjMeansBijImage
<1>4. ExistsBijection(1 .. Len(q), Range(q))
  BY <1>3, Fun_ExistsBij
<1> QED  BY <1>1, <1>4, FS_CountingElements, FS_NatBijection

\* A search for the element with the least number finds one.
LEMMA LeastExists ==
    ASSUME NEW S, S # {}, NEW f \in [S -> Nat]
    PROVE  \E x \in S : \A y \in S : f[x] <= f[y]
<1> DEFINE T == {f[x] : x \in S}
           R == OpToRel(<, Nat)
<1>1. T \subseteq Nat /\ T # {}
  OBVIOUS
<1>2. IsWellFoundedOn(R, Nat)
  BY NatLessThanWellFounded
<1>3. PICK n \in T : \A m \in T : ~ (<<m, n>> \in R)
  <2> HIDE DEF T, R
  <2> QED  BY <1>1, <1>2, WFMin
<1>4. ASSUME NEW m \in T, ~ (n <= m)
      PROVE  FALSE
  <2> HIDE DEF T
  <2>1. n \in Nat /\ m \in Nat /\ m < n
    BY <1>1, <1>4
  <2>2. <<m, n>> \in R
    BY <2>1 DEF OpToRel
  <2> QED  BY <1>3, <2>2
<1>5. PICK x \in S : n = f[x]
  BY <1>3
<1> QED  BY <1>4, <1>5

\* A set of numbers that are at most B has a greatest one.
LEMMA GreatestExists ==
    ASSUME NEW S \in SUBSET Int, S # {}, NEW B \in Int, \A n \in S : n <= B
    PROVE  \E n \in S : \A m \in S : m <= n
<1> DEFINE f == [n \in S |-> B - n]
<1>1. f \in [S -> Nat] /\ \A n \in S : f[n] = B - n
  OBVIOUS
<1> HIDE DEF f
<1>2. PICK n \in S : \A m \in S : f[n] <= f[m]
  BY <1>1, LeastExists
<1>3. \A m \in S : m <= n
  BY <1>1, <1>2
<1> QED  BY <1>3

\* A set of numbers up to n that has 0 and with each number the next one has them all.
LEMMA UpTo ==
    ASSUME NEW n \in Nat, NEW S, 0 \in S, \A i \in 0 .. n - 1 : i \in S => i + 1 \in S
    PROVE  \A i \in 0 .. n : i \in S
<1> SUFFICES ASSUME NEW i \in 0 .. n, i \notin S PROVE FALSE
  OBVIOUS
<1> DEFINE T == {k \in 0 .. n : k \notin S}
           f == [k \in T |-> k]
<1>1. T # {} /\ f \in [T -> Nat]
  OBVIOUS
<1>2. PICK k \in T : \A j \in T : f[k] <= f[j]
  <2> HIDE DEF T, f
  <2> QED BY <1>1, LeastExists
<1>3. k # 0 /\ k \in 1 .. n /\ k \notin S
  BY <1>2
<1>4. k - 1 \in 0 .. n - 1 /\ k - 1 \notin T
  BY <1>2, <1>3
<1>5. k - 1 \in S /\ k = (k - 1) + 1
  BY <1>3, <1>4
<1> QED BY <1>3, <1>4, <1>5

\* A sequence of values, each computed from the one before, exists.
Iterated(t, n, S, a, g) ==
    t \in [0 .. n -> S] /\ t[0] = a /\ \A x \in 1 .. n : t[x] = g[t[x - 1]]

\* A function can be applied again and again.
LEMMA Iterates ==
    ASSUME NEW n \in Nat, NEW S, NEW a \in S, NEW g \in [S -> S]
    PROVE  \E t : Iterated(t, n, S, a, g)
<1> DEFINE R(t, k) == /\ t \in [0 .. k -> S] /\ t[0] = a
                      /\ \A x \in 1 .. k : t[x] = g[t[x - 1]]
           K == {k \in 0 .. n : \E t : R(t, k)}
<1>1. 0 \in K
  <2>1. R([x \in 0 .. 0 |-> a], 0)
    OBVIOUS
  <2> HIDE DEF R
  <2> QED BY <2>1
<1>2. ASSUME NEW k \in 0 .. n - 1, k \in K
      PROVE  k + 1 \in K
  <2>1. PICK t : R(t, k)
    BY <1>2
  <2> DEFINE s == [x \in 0 .. k + 1 |-> IF x <= k THEN t[x] ELSE g[t[k]]]
  <2>2. R(s, k + 1)
    <3>1. s[0] = a /\ s \in [0 .. k + 1 -> S]
      BY <2>1
    <3>2. ASSUME NEW x \in 1 .. k + 1 PROVE s[x] = g[s[x - 1]]
      <4>1. CASE x <= k
        BY <2>1, <4>1
      <4>2. CASE x = k + 1
        BY <4>2
      <4> QED BY <4>1, <4>2
    <3> QED BY <3>1, <3>2
  <2>3. k + 1 \in 0 .. n
    OBVIOUS
  <2> HIDE DEF R
  <2> QED BY <2>2, <2>3
<1>3. n \in K
  <2> HIDE DEF K, R
  <2>1. \A k \in 0 .. n - 1 : k \in K => k + 1 \in K
    BY <1>2
  <2>2. \A k \in 0 .. n : k \in K
    BY <1>1, <2>1, UpTo
  <2> QED BY <2>2
<1> QED BY <1>3 DEF Iterated

\* Quotients and remainders.
LEMMA TimesMono ==
    ASSUME NEW d \in Nat, NEW a \in Nat, NEW b \in Nat, a <= b
    PROVE  a * d <= b * d
<1>1. PICK c \in Nat : b = a + c
  BY b = a + (b - a)
<1>2. b * d = a * d + c * d
  BY <1>1
<1>3. c * d \in Nat /\ a * d \in Nat
  OBVIOUS
<1> QED BY <1>2, <1>3

\* Division with remainder: it exists,
LEMMA DivMod ==
    ASSUME NEW d \in Nat \ {0}, NEW y \in Nat
    PROVE  /\ y = (y \div d) * d + (y % d) /\ y % d \in 0 .. d - 1 /\ y \div d \in Nat
  BY Z3

\* stays small,
LEMMA DivSmall ==
    ASSUME NEW d \in Nat \ {0}, NEW y \in 0 .. d * d - 1
    PROVE  y \div d \in 0 .. d - 1
<1>1. PICK q \in Nat, r \in 0 .. d - 1 : q = y \div d /\ y = q * d + r
  BY DivMod
<1>2. ASSUME d <= q PROVE FALSE
  <2>1. d * d <= q * d
    BY <1>2, TimesMono
  <2>2. d * d \in Nat /\ q * d \in Nat
    OBVIOUS
  <2> QED BY <1>1, <2>1, <2>2
<1> QED BY <1>1, <1>2

\* and is unique.
LEMMA DivOf ==
    ASSUME NEW d \in Nat \ {0}, NEW q \in 0 .. d - 1, NEW r \in 0 .. d - 1
    PROVE  /\ q * d + r \in 0 .. d * d - 1
           /\ (q * d + r) \div d = q /\ (q * d + r) % d = r
<1>1. q * d \in Nat /\ (d - 1) * d = d * d - d
  OBVIOUS
<1>2. q * d <= (d - 1) * d
  BY TimesMono
<1>3. q * d + r \in 0 .. d * d - 1
  BY <1>1, <1>2
<1>4. PICK a \in Nat, b \in 0 .. d - 1 : a = (q * d + r) \div d /\ b = (q * d + r) % d
                                        /\ q * d + r = a * d + b
  BY <1>1, DivMod
<1>5. ASSUME a < q PROVE FALSE
  <2>1. (a + 1) * d <= q * d
    BY <1>5, TimesMono
  <2>2. (a + 1) * d = a * d + d /\ a * d \in Nat
    OBVIOUS
  <2> QED BY <1>1, <1>4, <2>1, <2>2
<1>6. ASSUME q < a PROVE FALSE
  <2>1. (q + 1) * d <= a * d
    BY <1>6, TimesMono
  <2>2. (q + 1) * d = q * d + d /\ a * d \in Nat
    OBVIOUS
  <2> QED BY <1>1, <1>4, <2>1, <2>2
<1>7. a = q
  BY <1>5, <1>6
<1> QED BY <1>1, <1>3, <1>4, <1>7
=============================================================================
