------------------------- MODULE RegisterFile_proof -------------------------
(***************************************************************************)
(* Lemmas about register renaming: what Rename, UndoUop, CommitUop and     *)
(* WriteUop do to the books of the register file.  The proofs about the    *)
(* x86 thread cite them.                                                   *)
(***************************************************************************)
EXTENDS RegisterFile, SeqLemmas, TLAPS

(***************************************************************************)
(* An entry e = <<x, i>> is the i-th output of uop x, and us are the uops. *)
(* place gives the position of a uop in program order.                     *)
(***************************************************************************)
Dst(us, e) == us[e[1]].dst[e[2]]
New(us, e) == us[e[1]].out[e[2]]
Old(us, e) == us[e[1]].old[e[2]]
KindIn(us, e) == Kind(Dst(us, e))
IsDone(us, e) == us[e[1]].completed

Earlier(place, e, f) ==
    place[e[1]] < place[f[1]] \/ (place[e[1]] = place[f[1]] /\ e[2] < f[2])

(***************************************************************************)
(* The books: what must hold of register file rf when the outputs in E are *)
(* renamed and not committed, and the registers in H (pairs of kind and    *)
(* register) have been requested but not mapped yet.                       *)
(***************************************************************************)
FileTypes(rf) ==
    /\ DOMAIN rf = {"rat", "busy", "pending", "free", "top", "ok"}
    /\ DOMAIN rf.rat = Logical /\ \A l \in Logical : rf.rat[l] \in Physical(Kind(l))
    /\ DOMAIN rf.busy = Kinds /\ \A k \in Kinds : rf.busy[k] \in [Physical(k) -> Nat]
    /\ DOMAIN rf.pending = Kinds
    /\ \A k \in Kinds : rf.pending[k] \in [Physical(k) -> BOOLEAN]
    /\ DOMAIN rf.free = Kinds /\ \A k \in Kinds : rf.free[k] \in Seq(Physical(k))
    /\ rf.top \in 0 .. StackSize - 1
    /\ rf.ok = TRUE

EntryTypes(us, E, place) ==
    /\ IsFiniteSet(E)
    /\ \A e \in E :
        /\ e = <<e[1], e[2]>> /\ e[2] \in Nat /\ place[e[1]] \in Nat
        /\ Dst(us, e) \in Logical
        /\ New(us, e) \in Physical(KindIn(us, e))
        /\ Old(us, e) \in Physical(KindIn(us, e))
    /\ \A e, f \in E : place[e[1]] = place[f[1]] => e[1] = f[1]

\* A register has as many references as are mapped to it or remember it.
Mapped(rat, k, r) == {l \in Logical : Kind(l) = k /\ rat[l] = r}
Remembered(us, E, k, r) == {e \in E : KindIn(us, e) = k /\ Old(us, e) = r}
Counts(rf, us, E, H) ==
    \A k \in Kinds :
        /\ \A r \in Physical(k) :
            rf.busy[k][r] = Cardinality(Mapped(rf.rat, k, r))
                                + Cardinality(Remembered(us, E, k, r))
        /\ Range(rf.free[k]) = {r \in Physical(k) : rf.busy[k][r] = 0 /\ <<k, r>> \notin H}
        /\ IsInjective(rf.free[k])

\* Output f is the next one of the same logical register after e.
Follows(us, E, place, e, f) ==
    /\ Dst(us, e) = Dst(us, f) /\ Earlier(place, e, f)
    /\ \A z \in E : Dst(us, z) = Dst(us, e)
                        => ~ (Earlier(place, e, z) /\ Earlier(place, z, f))
IsLast(us, E, place, e) ==
    \A f \in E : Dst(us, f) = Dst(us, e) => ~ Earlier(place, e, f)
Chain(rf, us, E, place) ==
    /\ \A e, f \in E : Follows(us, E, place, e, f) => New(us, e) = Old(us, f)
    /\ \A e \in E : IsLast(us, E, place, e) => rf.rat[Dst(us, e)] = New(us, e)

\* Outputs that share a register are outputs of one uop.
Owned(us, E) ==
    \A e, f \in E : KindIn(us, e) = KindIn(us, f) /\ New(us, e) = New(us, f) => e[1] = f[1]

\* A pending register waits for a uop that has not completed.
PendingSound(rf, us, E) ==
    \A k \in Kinds : \A r \in Physical(k) : rf.pending[k][r] =>
        \E e \in E : KindIn(us, e) = k /\ New(us, e) = r /\ ~ IsDone(us, e)

Books(rf, us, E, place, H) ==
    /\ FileTypes(rf) /\ EntryTypes(us, E, place) /\ Counts(rf, us, E, H)
    /\ Chain(rf, us, E, place) /\ Owned(us, E) /\ PendingSound(rf, us, E)
-----------------------------------------------------------------------------
(***************************************************************************)
(* Counting.                                                               *)
(***************************************************************************)
\* A set has one member more than without one of its members.
LEMMA CardWithout ==
    ASSUME NEW S, IsFiniteSet(S), NEW x
    PROVE  /\ IsFiniteSet(S \ {x}) /\ Cardinality(S \ {x}) \in Nat /\ Cardinality(S) \in Nat
           /\ Cardinality(S) = Cardinality(S \ {x}) + (IF x \in S THEN 1 ELSE 0)
<1>1. IsFiniteSet(S \ {x}) /\ Cardinality(S \ {x}) \in Nat /\ Cardinality(S) \in Nat
  BY FS_RemoveElement, FS_CardinalityType, FS_Subset
<1>2. CASE x \in S
  BY <1>1, <1>2, FS_RemoveElement
<1>3. CASE x \notin S
  <2>1. S \ {x} = S
    BY <1>3
  <2>2. Cardinality(S \ {x}) = Cardinality(S)
    BY <2>1
  <2> QED  BY <1>1, <1>3, <2>2
<1> QED  BY <1>1, <1>2, <1>3

\* Whether l is of kind k and r is register q: one reference or none.
One(k, q, l, r) == IF k = Kind(l) /\ q = r THEN 1 ELSE 0

LEMMA KindType == \A l : Kind(l) \in Kinds
  BY DEF Kind, Kinds

LEMMA MappedFinite ==
    ASSUME NEW rat, NEW k, NEW q
    PROVE  IsFiniteSet(Mapped(rat, k, q)) /\ Cardinality(Mapped(rat, k, q)) \in Nat
<1>1. Mapped(rat, k, q) \in SUBSET Logical
  BY DEF Mapped
<1> QED  BY <1>1, FS_Subset, FS_CardinalityType, RegisterAssumption

LEMMA RememberedFinite ==
    ASSUME NEW us, NEW E, IsFiniteSet(E), NEW k, NEW q
    PROVE  /\ IsFiniteSet(Remembered(us, E, k, q))
           /\ Cardinality(Remembered(us, E, k, q)) \in Nat
<1>1. Remembered(us, E, k, q) \in SUBSET E
  BY DEF Remembered
<1> QED  BY <1>1, FS_Subset, FS_CardinalityType

\* Mapping l to r takes a reference from the register it was mapped to.
LEMMA CountMapped ==
    ASSUME NEW rat, DOMAIN rat = Logical, NEW l \in Logical, NEW r, NEW k, NEW q
    PROVE  Cardinality(Mapped([rat EXCEPT ![l] = r], k, q))
                = Cardinality(Mapped(rat, k, q)) + One(k, q, l, r) - One(k, q, l, rat[l])
<1> DEFINE S == Mapped(rat, k, q)
           T == Mapped([rat EXCEPT ![l] = r], k, q)
<1>1. S \ {l} = T \ {l}
  BY DEF Mapped
<1>2. (l \in S <=> (k = Kind(l) /\ q = rat[l])) /\ (l \in T <=> (k = Kind(l) /\ q = r))
  BY DEF Mapped
<1>3. IsFiniteSet(S) /\ IsFiniteSet(T)
  BY MappedFinite
<1> HIDE DEF S, T
<1>4. /\ Cardinality(S) = Cardinality(S \ {l}) + (IF l \in S THEN 1 ELSE 0)
      /\ Cardinality(T) = Cardinality(T \ {l}) + (IF l \in T THEN 1 ELSE 0)
      /\ Cardinality(S \ {l}) \in Nat
  BY <1>3, CardWithout
<1>5. Cardinality(T) = Cardinality(S) + One(k, q, l, r) - One(k, q, l, rat[l])
  BY <1>1, <1>2, <1>4 DEF One
<1> QED  BY <1>5 DEF S, T

\* The entries of E are the same for us and vs.
Agree(us, vs, E) ==
    \A e \in E : /\ Dst(us, e) = Dst(vs, e) /\ New(us, e) = New(vs, e)
                 /\ Old(us, e) = Old(vs, e) /\ IsDone(us, e) = IsDone(vs, e)

LEMMA CountRemembered ==
    ASSUME NEW us, NEW vs, NEW E, IsFiniteSet(E), Agree(us, vs, E), NEW e, e \notin E,
           NEW k, NEW q
    PROVE  /\ IsFiniteSet(E \cup {e})
           /\ Cardinality(Remembered(vs, E \cup {e}, k, q))
                = Cardinality(Remembered(us, E, k, q)) + One(k, q, Dst(vs, e), Old(vs, e))
<1> DEFINE S == Remembered(us, E, k, q)
           T == Remembered(vs, E \cup {e}, k, q)
<1>1. S = T \ {e}
  BY DEF Remembered, Agree, KindIn
<1>2. e \in T <=> (k = Kind(Dst(vs, e)) /\ q = Old(vs, e))
  BY DEF Remembered, KindIn
<1>3. IsFiniteSet(E \cup {e})
  BY FS_AddElement
<1>4. IsFiniteSet(T)
  BY <1>3, RememberedFinite
<1> HIDE DEF S, T
<1>5. /\ Cardinality(T) = Cardinality(S) + (IF e \in T THEN 1 ELSE 0)
      /\ Cardinality(S) \in Nat
  BY <1>1, <1>4, CardWithout
<1>6. Cardinality(T) = Cardinality(S) + One(k, q, Dst(vs, e), Old(vs, e))
  BY <1>2, <1>5 DEF One
<1> QED  BY <1>3, <1>6 DEF S, T
-----------------------------------------------------------------------------
(***************************************************************************)
(* The order of the entries of one logical register.                       *)
(***************************************************************************)
LEMMA EarlierOrder ==
    ASSUME NEW place, NEW e, NEW f, place[e[1]] \in Nat, place[f[1]] \in Nat,
           e[2] \in Nat, f[2] \in Nat, Earlier(place, e, f)
    PROVE  ~ Earlier(place, f, e) /\ e # f
  BY DEF Earlier

\* An entry that is not the last one is followed by another one.
LEMMA NextExists ==
    ASSUME NEW us, NEW E, NEW place, EntryTypes(us, E, place), NEW e \in E,
           ~ IsLast(us, E, place, e)
    PROVE  \E f \in E :
                /\ Follows(us, E, place, e, f)
                /\ \A z \in E : Dst(us, z) = Dst(us, e) /\ Earlier(place, e, z) /\ z # f
                                    => Earlier(place, f, z)
<1> DEFINE Y == {f \in E : Dst(us, f) = Dst(us, e) /\ Earlier(place, e, f)}
<1>1. /\ \A f \in E : f = <<f[1], f[2]>> /\ f[2] \in Nat /\ place[f[1]] \in Nat
      /\ \A f, g \in E : place[f[1]] = place[g[1]] => f[1] = g[1]
  BY DEF EntryTypes
<1>2. Y # {}
  BY DEF IsLast
<1>3. PICK f \in Y : \A z \in Y : place[f[1]] <= place[z[1]]
  <2> DEFINE p == [z \in Y |-> place[z[1]]]
  <2>1. p \in [Y -> Nat] /\ \A z \in Y : p[z] = place[z[1]]
    BY <1>1
  <2> HIDE DEF Y, p
  <2>2. \E f \in Y : \A z \in Y : p[f] <= p[z]
    BY <1>2, <2>1, LeastExists
  <2> QED  BY <2>1, <2>2
<1> DEFINE Z == {z \in Y : place[z[1]] = place[f[1]]}
<1>4. PICK g \in Z : \A z \in Z : g[2] <= z[2]
  <2> DEFINE p == [z \in Z |-> z[2]]
  <2>1. p \in [Z -> Nat] /\ (\A z \in Z : p[z] = z[2]) /\ Z # {}
    BY <1>1
  <2> HIDE DEF Z, p
  <2>2. \E h \in Z : \A z \in Z : p[h] <= p[z]
    BY <2>1, LeastExists
  <2> QED  BY <2>1, <2>2
<1>5. ASSUME NEW z \in Y, z # g
      PROVE  Earlier(place, g, z)
  <2>1. g \in E /\ z \in E /\ place[g[1]] <= place[z[1]]
    BY <1>3, <1>4
  <2>2. CASE place[z[1]] = place[g[1]]
    <3>1. z[1] = g[1] /\ g[2] <= z[2] /\ z \in Z
      BY <1>1, <1>4, <2>1, <2>2
    <3>2. z[2] # g[2]
      BY <1>1, <1>5, <2>1, <3>1
    <3> QED  BY <1>1, <2>1, <2>2, <3>1, <3>2 DEF Earlier
  <2> QED  BY <1>1, <2>1, <2>2 DEF Earlier
<1>6. g \in E /\ g \in Y
  BY <1>4
<1>7. ASSUME NEW z \in E, Dst(us, z) = Dst(us, e), Earlier(place, e, z), Earlier(place, z, g)
      PROVE  FALSE
  <2>1. z \in Y
    BY <1>7
  <2>2. z # g
    BY <1>1, <1>7, EarlierOrder
  <2> QED  BY <1>1, <1>5, <1>6, <1>7, <2>1, <2>2, EarlierOrder
<1> QED  BY <1>5, <1>6, <1>7 DEF Follows

\* The register of an output is mapped or remembered: it has a reference.
LEMMA OwnerIsBusy ==
    ASSUME NEW rf, NEW us, NEW E, NEW place, NEW H, FileTypes(rf), EntryTypes(us, E, place),
           Counts(rf, us, E, H), Chain(rf, us, E, place), NEW e \in E
    PROVE  rf.busy[KindIn(us, e)][New(us, e)] > 0
<1> DEFINE k == KindIn(us, e)
           r == New(us, e)
           M == Mapped(rf.rat, k, r)
           R == Remembered(us, E, k, r)
<1>1. k \in Kinds /\ r \in Physical(k) /\ Dst(us, e) \in Logical
  BY KindType DEF EntryTypes, KindIn
<1>2. rf.busy[k][r] = Cardinality(M) + Cardinality(R)
  BY <1>1 DEF Counts
<1>3. /\ IsFiniteSet(M) /\ Cardinality(M) \in Nat
      /\ IsFiniteSet(R) /\ Cardinality(R) \in Nat
  BY MappedFinite, RememberedFinite DEF EntryTypes
<1>4. M # {} \/ R # {}
  <2>1. CASE IsLast(us, E, place, e)
    <3>1. rf.rat[Dst(us, e)] = r
      BY <2>1 DEF Chain
    <3>2. Dst(us, e) \in M
      BY <1>1, <3>1 DEF Mapped, KindIn
    <3> QED  BY <3>2
  <2>2. CASE ~ IsLast(us, E, place, e)
    <3>1. PICK f \in E : Follows(us, E, place, e, f)
      BY <2>2, NextExists
    <3>2. New(us, e) = Old(us, f) /\ Dst(us, f) = Dst(us, e)
      BY <3>1 DEF Chain, Follows
    <3>3. f \in R
      BY <3>2 DEF Remembered, KindIn
    <3> QED  BY <3>3
  <2> QED  BY <2>1, <2>2
<1> HIDE DEF M, R
<1>5. Cardinality(M) # 0 \/ Cardinality(R) # 0
  BY <1>3, <1>4, FS_EmptySet
<1> QED  BY <1>2, <1>3, <1>5
-----------------------------------------------------------------------------
(***************************************************************************)
(* A register is requested.                                                *)
(***************************************************************************)
LEMMA FrontAndLast ==
    ASSUME NEW S, NEW q \in Seq(S), q # <<>>
    PROVE  /\ Front(q) \in Seq(S) /\ Len(Front(q)) = Len(q) - 1 /\ Len(q) \in Nat \ {0}
           /\ Last(q) \in S /\ Last(q) \in Range(q)
           /\ IsInjective(q) => /\ Range(Front(q)) = Range(q) \ {Last(q)}
                                /\ IsInjective(Front(q))
<1> DEFINE n == Len(q)
           r == Front(q)
<1>1. n \in Nat \ {0} /\ DOMAIN q = 1 .. n /\ \A i \in 1 .. n : q[i] \in S
  OBVIOUS
<1>2. /\ r = SubSeq(q, 1, n - 1) /\ r \in Seq(S) /\ Len(r) = n - 1 /\ DOMAIN r = 1 .. n - 1
      /\ \A i \in 1 .. n - 1 : r[i] = q[i]
  BY <1>1 DEF Front
<1>3. Last(q) = q[n] /\ Last(q) \in S /\ Last(q) \in Range(q)
  BY <1>1 DEF Last, Range
<1> HIDE DEF n, r
<1>4. ASSUME IsInjective(q)
      PROVE  Range(r) = Range(q) \ {Last(q)} /\ IsInjective(r)
  <2>1. \A i \in 1 .. n - 1 : q[i] # q[n]
    BY <1>1, <1>4 DEF IsInjective
  <2>2. Range(r) \subseteq Range(q) \ {Last(q)}
    <3> SUFFICES ASSUME NEW i \in 1 .. n - 1 PROVE r[i] \in Range(q) \ {Last(q)}
      BY <1>2 DEF Range
    <3>1. i \in DOMAIN q /\ r[i] = q[i]
      BY <1>1, <1>2
    <3> QED  BY <1>3, <2>1, <3>1 DEF Range
  <2>3. ASSUME NEW i \in 1 .. n, q[i] # q[n]
        PROVE  q[i] \in Range(r)
    <3>1. i \in DOMAIN r /\ r[i] = q[i]
      BY <1>1, <1>2, <2>3
    <3> QED  BY <3>1 DEF Range
  <2>4. Range(q) \ {Last(q)} \subseteq Range(r)
    BY <1>1, <1>3, <2>3 DEF Range
  <2>5. IsInjective(r)
    <3>1. \A i \in DOMAIN r : i \in DOMAIN q /\ r[i] = q[i]
      BY <1>1, <1>2
    <3> QED  BY <1>4, <3>1 DEF IsInjective
  <2> QED  BY <2>2, <2>4, <2>5
<1> QED  BY <1>1, <1>2, <1>3, <1>4 DEF n, r

\* Register r is requested: the register file becomes s, and G are the requested registers.
Requests(rf, k, H, r, s, G) ==
    /\ k \in Kinds /\ rf.free[k] # <<>>
    /\ r = Requested(rf, k) /\ s = Request(rf, k) /\ G = H \cup {<<k, r>>}

LEMMA RequestBooks ==
    ASSUME NEW rf, NEW us, NEW E, NEW place, NEW H, Books(rf, us, E, place, H),
           NEW k, NEW r, NEW s, NEW G, Requests(rf, k, H, r, s, G)
    PROVE  /\ r \in Physical(k) /\ rf.busy[k][r] = 0 /\ Books(s, us, E, place, G)
           /\ s.rat = rf.rat /\ s.pending = rf.pending /\ s.busy = rf.busy /\ s.top = rf.top
           /\ \A q \in Kinds : s.free[q] = IF q = k THEN Front(rf.free[k]) ELSE rf.free[q]
           /\ Len(Front(rf.free[k])) = Len(rf.free[k]) - 1 /\ Len(rf.free[k]) \in Nat
<1>0. /\ k \in Kinds /\ rf.free[k] # <<>>
      /\ r = Requested(rf, k) /\ s = Request(rf, k) /\ G = H \cup {<<k, r>>}
  BY DEF Requests
<1>1. /\ FileTypes(rf) /\ EntryTypes(us, E, place) /\ Counts(rf, us, E, H)
      /\ Chain(rf, us, E, place) /\ Owned(us, E) /\ PendingSound(rf, us, E)
  BY DEF Books
<1>2. rf.free[k] \in Seq(Physical(k)) /\ DOMAIN rf.free = Kinds
  BY <1>0, <1>1 DEF FileTypes
<1>3. /\ Range(rf.free[k]) = {q \in Physical(k) : rf.busy[k][q] = 0 /\ <<k, q>> \notin H}
      /\ IsInjective(rf.free[k])
  BY <1>0, <1>1 DEF Counts
<1>4. /\ Front(rf.free[k]) \in Seq(Physical(k)) /\ r \in Physical(k) /\ r \in Range(rf.free[k])
      /\ Len(Front(rf.free[k])) = Len(rf.free[k]) - 1 /\ Len(rf.free[k]) \in Nat
      /\ Range(Front(rf.free[k])) = Range(rf.free[k]) \ {r}
      /\ IsInjective(Front(rf.free[k]))
  BY <1>0, <1>2, <1>3, FrontAndLast DEF Requested
<1>5. rf.busy[k][r] = 0 /\ <<k, r>> \notin H
  BY <1>3, <1>4
<1>6. ~ rf.pending[k][r]
  <2> SUFFICES ASSUME rf.pending[k][r] PROVE FALSE
    OBVIOUS
  <2>1. PICK e \in E : KindIn(us, e) = k /\ New(us, e) = r
    BY <1>0, <1>1, <1>4 DEF PendingSound
  <2>2. rf.busy[k][r] > 0
    BY <1>1, <2>1, OwnerIsBusy
  <2> QED  BY <1>5, <2>2
<1>7. /\ DOMAIN s = DOMAIN rf /\ s.rat = rf.rat /\ s.busy = rf.busy
      /\ s.pending = rf.pending /\ s.top = rf.top
      /\ s.free = [rf.free EXCEPT ![k] = Front(@)]
      /\ s.ok = (rf.ok /\ rf.free[k] # <<>> /\ rf.busy[k][r] = 0 /\ ~ rf.pending[k][r])
  BY <1>0, <1>1 DEF Request, FileTypes
<1>8. s.ok = TRUE
  BY <1>0, <1>1, <1>5, <1>6, <1>7 DEF FileTypes
<1>9. FileTypes(s)
  BY <1>0, <1>1, <1>4, <1>7, <1>8 DEF FileTypes
<1>10. Counts(s, us, E, H \cup {<<k, r>>})
  <2> SUFFICES ASSUME NEW j \in Kinds
               PROVE  /\ \A q \in Physical(j) :
                          s.busy[j][q] = Cardinality(Mapped(s.rat, j, q))
                                            + Cardinality(Remembered(us, E, j, q))
                      /\ Range(s.free[j]) = {q \in Physical(j) :
                             s.busy[j][q] = 0 /\ <<j, q>> \notin H \cup {<<k, r>>}}
                      /\ IsInjective(s.free[j])
    BY DEF Counts
  <2>1. \A q \in Physical(j) : s.busy[j][q] = Cardinality(Mapped(s.rat, j, q))
                                                + Cardinality(Remembered(us, E, j, q))
    BY <1>1, <1>7 DEF Counts
  <2>2. CASE j = k
    <3>1. s.free[j] = Front(rf.free[k])
      BY <1>2, <1>7, <2>2
    <3> QED  BY <1>3, <1>4, <1>5, <1>7, <2>1, <2>2, <3>1
  <2>3. CASE j # k
    <3>1. s.free[j] = rf.free[j]
      BY <1>2, <1>7, <2>3
    <3>2. Range(rf.free[j]) = {q \in Physical(j) : rf.busy[j][q] = 0 /\ <<j, q>> \notin H}
          /\ IsInjective(rf.free[j])
      BY <1>1 DEF Counts
    <3> QED  BY <1>7, <2>1, <2>3, <3>1, <3>2
  <2> QED  BY <2>2, <2>3
<1>11. Chain(s, us, E, place) /\ PendingSound(s, us, E)
  BY <1>1, <1>7 DEF Chain, PendingSound
<1>12. Books(s, us, E, place, H \cup {<<k, r>>})
  BY <1>1, <1>9, <1>10, <1>11 DEF Books
<1>13. \A q \in Kinds : s.free[q] = IF q = k THEN Front(rf.free[k]) ELSE rf.free[q]
  BY <1>0, <1>2, <1>7
<1> QED  BY <1>0, <1>4, <1>5, <1>7, <1>12, <1>13
-----------------------------------------------------------------------------
(***************************************************************************)
(* An output is mapped, after all other outputs of its logical register.   *)
(***************************************************************************)
\* What the books say of entry e when it is added to E, mapped to r.
IsEntry(vs, E, place, e, l, r) ==
    /\ e \notin E /\ e = <<e[1], e[2]>> /\ e[2] \in Nat /\ place[e[1]] \in Nat
    /\ l \in Logical /\ r \in Physical(Kind(l))
    /\ Dst(vs, e) = l /\ New(vs, e) = r /\ ~ IsDone(vs, e)
    /\ \A f \in E : /\ place[f[1]] = place[e[1]] => f[1] = e[1]
                    /\ Dst(vs, f) = l => Earlier(place, f, e)
                    /\ KindIn(vs, f) = Kind(l) /\ New(vs, f) = r => f[1] = e[1]

LEMMA MapBooks ==
    ASSUME NEW rf, NEW us, NEW vs, NEW E, NEW place, NEW H, Books(rf, us, E, place, H),
           Agree(us, vs, E), NEW e, NEW l, NEW r, IsEntry(vs, E, place, e, l, r),
           Old(vs, e) = rf.rat[l],
           rf.busy[Kind(l)][r] > 0 \/ <<Kind(l), r>> \in H
    PROVE  /\ Books(MapTo(rf, l, r), vs, E \cup {e}, place, H \ {<<Kind(l), r>>})
           /\ MapTo(rf, l, r).free = rf.free /\ MapTo(rf, l, r).top = rf.top
           /\ MapTo(rf, l, r).busy[Kind(l)][r] > 0
           /\ MapTo(rf, l, r).pending[Kind(l)][r]
           /\ \A j \in Kinds : \A q \in Physical(j) :
                rf.pending[j][q] => MapTo(rf, l, r).pending[j][q]
<1> DEFINE k == Kind(l)
           s == MapTo(rf, l, r)
           F == E \cup {e}
           G == H \ {<<k, r>>}
<1>1. /\ FileTypes(rf) /\ EntryTypes(us, E, place) /\ Counts(rf, us, E, H)
      /\ Chain(rf, us, E, place) /\ Owned(us, E) /\ PendingSound(rf, us, E)
  BY DEF Books
<1>2. /\ e \notin E /\ e = <<e[1], e[2]>> /\ e[2] \in Nat /\ place[e[1]] \in Nat
      /\ l \in Logical /\ r \in Physical(k) /\ k \in Kinds
      /\ Dst(vs, e) = l /\ New(vs, e) = r /\ ~ IsDone(vs, e) /\ KindIn(vs, e) = k
      /\ \A f \in E : /\ place[f[1]] = place[e[1]] => f[1] = e[1]
                      /\ Dst(vs, f) = l => Earlier(place, f, e)
                      /\ KindIn(vs, f) = k /\ New(vs, f) = r => f[1] = e[1]
  BY KindType DEF IsEntry, KindIn
<1>3. /\ rf.rat[l] \in Physical(k) /\ rf.busy[k] \in [Physical(k) -> Nat]
      /\ rf.pending[k] \in [Physical(k) -> BOOLEAN]
      /\ DOMAIN rf.rat = Logical /\ DOMAIN rf.busy = Kinds /\ DOMAIN rf.pending = Kinds
  BY <1>1, <1>2 DEF FileTypes
<1>4. /\ DOMAIN s = DOMAIN rf /\ s.free = rf.free /\ s.top = rf.top /\ s.ok = rf.ok
      /\ s.rat = [rf.rat EXCEPT ![l] = r]
      /\ s.busy = [rf.busy EXCEPT ![k][r] = @ + 1]
      /\ s.pending = [rf.pending EXCEPT ![k][r] = TRUE]
  BY <1>1 DEF MapTo, FileTypes
<1>5. /\ \A j \in Kinds : \A q \in Physical(j) :
            /\ s.busy[j][q] = IF j = k /\ q = r THEN rf.busy[j][q] + 1 ELSE rf.busy[j][q]
            /\ rf.busy[j][q] \in Nat
            /\ s.pending[j][q] <=> (j = k /\ q = r) \/ rf.pending[j][q]
      /\ \A j \in Kinds : /\ s.busy[j] \in [Physical(j) -> Nat]
                          /\ s.pending[j] \in [Physical(j) -> BOOLEAN]
      /\ DOMAIN s.busy = Kinds /\ DOMAIN s.pending = Kinds
  <2>1. \A j \in Kinds : /\ rf.busy[j] \in [Physical(j) -> Nat]
                         /\ rf.pending[j] \in [Physical(j) -> BOOLEAN]
    BY <1>1 DEF FileTypes
  <2>2. /\ DOMAIN s.busy = Kinds /\ DOMAIN s.pending = Kinds
        /\ s.busy[k] = [rf.busy[k] EXCEPT ![r] = @ + 1]
        /\ s.pending[k] = [rf.pending[k] EXCEPT ![r] = TRUE]
        /\ \A j \in Kinds : j # k => s.busy[j] = rf.busy[j] /\ s.pending[j] = rf.pending[j]
    BY <1>2, <1>3, <1>4
  <2>3. s.busy[k] \in [Physical(k) -> Nat] /\ s.pending[k] \in [Physical(k) -> BOOLEAN]
    BY <1>2, <1>3, <2>2
  <2>4. \A q \in Physical(k) :
            /\ s.busy[k][q] = IF q = r THEN rf.busy[k][q] + 1 ELSE rf.busy[k][q]
            /\ s.pending[k][q] <=> q = r \/ rf.pending[k][q]
    BY <1>2, <1>3, <2>2
  <2>5. \A j \in Kinds : \A q \in Physical(j) : rf.busy[j][q] \in Nat
    BY <2>1
  <2> HIDE DEF k
  <2> QED  BY <2>1, <2>2, <2>3, <2>4, <2>5
<1>6. DOMAIN s.rat = Logical /\ \A m \in Logical : s.rat[m] = IF m = l THEN r ELSE rf.rat[m]
  BY <1>3, <1>4
<1> HIDE DEF s
<1>7. FileTypes(s)
  BY <1>1, <1>2, <1>4, <1>5, <1>6 DEF FileTypes
<1>8. \A f \in E : /\ Dst(vs, f) = Dst(us, f) /\ New(vs, f) = New(us, f)
                   /\ Old(vs, f) = Old(us, f) /\ IsDone(vs, f) = IsDone(us, f)
                   /\ KindIn(vs, f) = KindIn(us, f)
  BY DEF Agree, KindIn
<1>9. EntryTypes(vs, F, place)
  <2>1. IsFiniteSet(F)
    BY <1>1, FS_AddElement DEF EntryTypes
  <2>2. ASSUME NEW f \in F
        PROVE  /\ f = <<f[1], f[2]>> /\ f[2] \in Nat /\ place[f[1]] \in Nat
               /\ Dst(vs, f) \in Logical
               /\ New(vs, f) \in Physical(KindIn(vs, f))
               /\ Old(vs, f) \in Physical(KindIn(vs, f))
    <3>1. CASE f \in E
      BY <1>1, <1>8, <3>1 DEF EntryTypes
    <3>2. CASE f = e
      BY <1>2, <1>3, <3>2
    <3> QED  BY <3>1, <3>2
  <2>3. \A f, g \in F : place[f[1]] = place[g[1]] => f[1] = g[1]
    BY <1>1, <1>2 DEF EntryTypes
  <2> QED  BY <2>1, <2>2, <2>3 DEF EntryTypes
<1>10. Counts(s, vs, F, G)
  <2> SUFFICES ASSUME NEW j \in Kinds
               PROVE  /\ \A q \in Physical(j) :
                          s.busy[j][q] = Cardinality(Mapped(s.rat, j, q))
                                            + Cardinality(Remembered(vs, F, j, q))
                      /\ Range(s.free[j]) =
                            {q \in Physical(j) : s.busy[j][q] = 0 /\ <<j, q>> \notin G}
                      /\ IsInjective(s.free[j])
    BY DEF Counts
  <2>1. /\ \A q \in Physical(j) : rf.busy[j][q] = Cardinality(Mapped(rf.rat, j, q))
                                                + Cardinality(Remembered(us, E, j, q))
        /\ Range(rf.free[j]) = {q \in Physical(j) : rf.busy[j][q] = 0 /\ <<j, q>> \notin H}
        /\ IsInjective(rf.free[j])
    BY <1>1 DEF Counts
  <2>2. ASSUME NEW q \in Physical(j)
        PROVE  s.busy[j][q] = Cardinality(Mapped(s.rat, j, q))
                                + Cardinality(Remembered(vs, F, j, q))
    <3>1. Cardinality(Mapped(s.rat, j, q)) = Cardinality(Mapped(rf.rat, j, q))
                                        + One(j, q, l, r) - One(j, q, l, rf.rat[l])
      BY <1>2, <1>3, <1>4, CountMapped
    <3> IsFiniteSet(E) /\ e \notin E
      BY <1>1, <1>2 DEF EntryTypes
    <3>2. \A m, p : Cardinality(Remembered(vs, F, m, p)) =
                Cardinality(Remembered(us, E, m, p)) + One(m, p, Dst(vs, e), Old(vs, e))
      BY CountRemembered
    <3>3. /\ Cardinality(Mapped(rf.rat, j, q)) \in Nat
          /\ Cardinality(Remembered(us, E, j, q)) \in Nat
      BY <1>1, MappedFinite, RememberedFinite DEF EntryTypes
    <3>4. One(j, q, l, r) \in Int /\ One(j, q, l, rf.rat[l]) \in Int
      BY DEF One
    <3>5. /\ rf.busy[j][q] = Cardinality(Mapped(rf.rat, j, q))
                                + Cardinality(Remembered(us, E, j, q))
          /\ s.busy[j][q] = rf.busy[j][q] + One(j, q, l, r)
      BY <1>5, <2>1 DEF One
    <3>6. One(j, q, Dst(vs, e), Old(vs, e)) = One(j, q, l, rf.rat[l])
      BY <1>2
    <3>7. Cardinality(Remembered(vs, F, j, q)) =
                Cardinality(Remembered(us, E, j, q)) + One(j, q, l, rf.rat[l])
      BY <3>2, <3>6
    <3> QED  BY <3>1, <3>3, <3>4, <3>5, <3>7
  <2>3. Range(s.free[j]) = {q \in Physical(j) : s.busy[j][q] = 0 /\ <<j, q>> \notin G}
    <3>1. ASSUME NEW q \in Physical(j)
          PROVE  (rf.busy[j][q] = 0 /\ <<j, q>> \notin H)
                    <=> (s.busy[j][q] = 0 /\ <<j, q>> \notin G)
      <4>1. CASE j = k /\ q = r
        <5>1. s.busy[j][q] = rf.busy[j][q] + 1 /\ rf.busy[j][q] \in Nat
          BY <1>5, <4>1
        <5>2. rf.busy[j][q] > 0 \/ <<j, q>> \in H
          BY <4>1
        <5> QED  BY <5>1, <5>2
      <4>2. CASE ~ (j = k /\ q = r)
        <5>1. s.busy[j][q] = rf.busy[j][q]
          BY <1>5, <4>2
        <5>2. <<j, q>> # <<k, r>>
          BY <4>2
        <5>3. <<j, q>> \in H <=> <<j, q>> \in G
          BY <5>2
        <5> QED  BY <5>1, <5>3
      <4> QED  BY <4>1, <4>2
    <3> QED  BY <1>4, <2>1, <3>1
  <2> QED  BY <1>4, <2>1, <2>2, <2>3
<1>11. Chain(s, vs, F, place)
  <2>1. \A f \in F : f[2] \in Nat /\ place[f[1]] \in Nat
    BY <1>9 DEF EntryTypes
  <2>2. \A f \in E : Earlier(place, f, e) => ~ Earlier(place, e, f)
    BY <2>1, EarlierOrder
  <2>3. ~ Earlier(place, e, e)
    BY <2>1, EarlierOrder
  <2>4. ASSUME NEW f \in F, NEW g \in F, Follows(vs, F, place, f, g)
        PROVE  New(vs, f) = Old(vs, g)
    <3>1. f # e
      <4> SUFFICES ASSUME f = e PROVE FALSE
        OBVIOUS
      <4>1. Dst(vs, g) = l /\ Earlier(place, e, g)
        BY <1>2, <2>4 DEF Follows
      <4> QED  BY <1>2, <2>2, <2>3, <4>1
    <3>2. CASE g \in E
      <4>1. Follows(us, E, place, f, g)
        BY <1>8, <2>4, <3>1, <3>2 DEF Follows
      <4> QED  BY <1>1, <1>8, <3>1, <3>2, <4>1 DEF Chain
    <3>3. CASE g = e
      <4>1. IsLast(us, E, place, f)
        <5> SUFFICES ASSUME NEW z \in E, Dst(us, z) = Dst(us, f), Earlier(place, f, z)
                     PROVE  FALSE
          BY DEF IsLast
        <5>1. Dst(vs, f) = l /\ Dst(vs, z) = l
          BY <1>2, <1>8, <2>4, <3>1, <3>3 DEF Follows
        <5>2. Earlier(place, z, e)
          BY <1>2, <5>1
        <5> QED  BY <1>2, <2>4, <3>3, <5>1, <5>2 DEF Follows
      <4>2. rf.rat[l] = New(us, f)
        <5>1. Dst(us, f) = l
          BY <1>2, <1>8, <2>4, <3>1, <3>3 DEF Follows
        <5> QED  BY <1>1, <3>1, <4>1, <5>1 DEF Chain
      <4> QED  BY <1>8, <3>1, <3>3, <4>2
    <3> QED  BY <3>2, <3>3
  <2>5. ASSUME NEW f \in F, IsLast(vs, F, place, f)
        PROVE  s.rat[Dst(vs, f)] = New(vs, f)
    <3>1. CASE f = e
      BY <1>2, <1>6, <3>1
    <3>2. CASE f # e
      <4>1. Dst(vs, f) # l
        BY <1>2, <2>5, <3>2 DEF IsLast
      <4>2. IsLast(us, E, place, f)
        BY <1>8, <2>5, <3>2 DEF IsLast
      <4>3. rf.rat[Dst(us, f)] = New(us, f) /\ Dst(us, f) \in Logical
        BY <1>1, <3>2, <4>2 DEF Chain, EntryTypes
      <4> QED  BY <1>6, <1>8, <3>2, <4>1, <4>3
    <3> QED  BY <3>1, <3>2
  <2> QED  BY <2>4, <2>5 DEF Chain
<1>12. Owned(vs, F)
  BY <1>1, <1>2, <1>8 DEF Owned
<1>13. PendingSound(s, vs, F)
  <2> SUFFICES ASSUME NEW j \in Kinds, NEW q \in Physical(j), s.pending[j][q]
               PROVE  \E f \in F : KindIn(vs, f) = j /\ New(vs, f) = q /\ ~ IsDone(vs, f)
    BY DEF PendingSound
  <2>1. CASE j = k /\ q = r
    BY <1>2, <2>1
  <2>2. CASE ~ (j = k /\ q = r)
    <3>1. rf.pending[j][q]
      BY <1>5, <2>2
    <3>2. PICK f \in E : KindIn(us, f) = j /\ New(us, f) = q /\ ~ IsDone(us, f)
      BY <1>1, <3>1 DEF PendingSound
    <3> QED  BY <1>8, <3>2
  <2> QED  BY <2>1, <2>2
<1>14. Books(s, vs, F, place, G)
  BY <1>7, <1>9, <1>10, <1>11, <1>12, <1>13 DEF Books
<1>15. s.busy[k][r] > 0 /\ s.pending[k][r]
  <2>1. s.busy[k][r] = rf.busy[k][r] + 1 /\ rf.busy[k][r] \in Nat /\ s.pending[k][r]
    BY <1>2, <1>5
  <2> QED  BY <2>1
<1>16. \A j \in Kinds : \A q \in Physical(j) : rf.pending[j][q] => s.pending[j][q]
  BY <1>5
<1> QED  BY <1>4, <1>14, <1>15, <1>16 DEF s
-----------------------------------------------------------------------------
(***************************************************************************)
(* A reference is dropped, because an output is undone or committed.       *)
(***************************************************************************)
\* Each free list has the registers without references, once.
FreeExact(rf) ==
    \A k \in Kinds : /\ Range(rf.free[k]) = {r \in Physical(k) : rf.busy[k][r] = 0}
                     /\ IsInjective(rf.free[k])

LEMMA ReleaseEffect ==
    ASSUME NEW rf, FileTypes(rf), FreeExact(rf), NEW k \in Kinds, NEW r \in Physical(k),
           rf.busy[k][r] > 0
    PROVE  LET s == Release(rf, k, r)
           IN  /\ FileTypes(s) /\ FreeExact(s)
               /\ s.rat = rf.rat /\ s.pending = rf.pending /\ s.top = rf.top
               /\ \A j \in Kinds : \A q \in Physical(j) :
                    /\ rf.busy[j][q] \in Nat
                    /\ s.busy[j][q] = IF j = k /\ q = r THEN rf.busy[j][q] - 1
                                                        ELSE rf.busy[j][q]
<1> DEFINE s == Release(rf, k, r)
           n == rf.busy[k][r]
<1>1. /\ rf.busy[k] \in [Physical(k) -> Nat] /\ DOMAIN rf.busy = Kinds
      /\ rf.free[k] \in Seq(Physical(k)) /\ DOMAIN rf.free = Kinds
      /\ n \in Nat \ {0}
      /\ Range(rf.free[k]) = {q \in Physical(k) : rf.busy[k][q] = 0}
      /\ IsInjective(rf.free[k])
      /\ \A j \in Kinds : /\ rf.busy[j] \in [Physical(j) -> Nat]
                          /\ rf.free[j] \in Seq(Physical(j))
  BY DEF FileTypes, FreeExact
<1> DEFINE tail == IF n = 1 THEN Append(rf.free[k], r) ELSE rf.free[k]
<1>2. /\ DOMAIN s = DOMAIN rf /\ s.rat = rf.rat /\ s.pending = rf.pending /\ s.top = rf.top
      /\ s.busy = [rf.busy EXCEPT ![k][r] = @ - 1]
      /\ s.free = [rf.free EXCEPT ![k] = tail]
      /\ s.ok = (rf.ok /\ n > 0)
  BY DEF Release, FileTypes
<1> HIDE DEF s
<1>3. /\ DOMAIN s.busy = Kinds /\ s.busy[k] = [rf.busy[k] EXCEPT ![r] = @ - 1]
      /\ DOMAIN s.free = Kinds /\ s.free[k] = tail
      /\ \A j \in Kinds : j # k => s.busy[j] = rf.busy[j] /\ s.free[j] = rf.free[j]
  BY <1>1, <1>2
<1>4. /\ s.busy[k] \in [Physical(k) -> Nat]
      /\ \A q \in Physical(k) : s.busy[k][q] = IF q = r THEN n - 1 ELSE rf.busy[k][q]
  BY <1>1, <1>3
<1>5. /\ tail \in Seq(Physical(k))
      /\ Range(tail) = {q \in Physical(k) : s.busy[k][q] = 0}
      /\ IsInjective(tail)
  <2>1. CASE n = 1
    <3>1. r \notin Range(rf.free[k])
      BY <1>1, <2>1
    <3>2. /\ tail \in Seq(Physical(k)) /\ Range(tail) = Range(rf.free[k]) \cup {r}
          /\ IsInjective(tail)
      BY <1>1, <2>1, <3>1, AppendRange
    <3>3. \A q \in Physical(k) : s.busy[k][q] = 0 <=> (q = r \/ rf.busy[k][q] = 0)
      BY <1>4, <2>1
    <3> QED  BY <1>1, <3>2, <3>3
  <2>2. CASE n # 1
    <3>1. n - 1 # 0 /\ n # 0
      BY <1>1, <2>2
    <3>2. \A q \in Physical(k) : s.busy[k][q] = 0 <=> rf.busy[k][q] = 0
      BY <1>4, <3>1
    <3> QED  BY <1>1, <2>2, <3>2
  <2> QED  BY <2>1, <2>2
<1> HIDE DEF tail
<1>6. FileTypes(s)
  <2>1. s.ok = TRUE
    BY <1>1, <1>2 DEF FileTypes
  <2>2. \A j \in Kinds : s.busy[j] \in [Physical(j) -> Nat] /\ s.free[j] \in Seq(Physical(j))
    BY <1>1, <1>3, <1>4, <1>5
  <2> QED  BY <1>2, <1>3, <2>1, <2>2 DEF FileTypes
<1>7. FreeExact(s)
  <2> SUFFICES ASSUME NEW j \in Kinds
               PROVE  /\ Range(s.free[j]) = {q \in Physical(j) : s.busy[j][q] = 0}
                      /\ IsInjective(s.free[j])
    BY DEF FreeExact
  <2>1. CASE j = k
    BY <1>3, <1>5, <2>1
  <2>2. CASE j # k
    BY <1>3, <2>2 DEF FreeExact
  <2> QED  BY <2>1, <2>2
<1>8. \A j \in Kinds : \A q \in Physical(j) :
            /\ rf.busy[j][q] \in Nat
            /\ s.busy[j][q] = IF j = k /\ q = r THEN rf.busy[j][q] - 1 ELSE rf.busy[j][q]
  BY <1>1, <1>3, <1>4
<1> QED  BY <1>2, <1>6, <1>7, <1>8 DEF s

\* Books without requested registers have exact free lists.
LEMMA BooksFree ==
    ASSUME NEW rf, NEW us, NEW E, Counts(rf, us, E, {})
    PROVE  FreeExact(rf)
  BY DEF Counts, FreeExact

\* The counts, from how many references each register has.
LEMMA CountsFrom ==
    ASSUME NEW rf, NEW us, NEW E, FreeExact(rf),
           \A k \in Kinds : \A r \in Physical(k) :
               rf.busy[k][r] = Cardinality(Mapped(rf.rat, k, r))
                                + Cardinality(Remembered(us, E, k, r))
    PROVE  Counts(rf, us, E, {})
  BY DEF Counts, FreeExact

\* Fewer entries have the same types.
LEMMA FewerEntries ==
    ASSUME NEW us, NEW E, NEW place, NEW F \in SUBSET E, EntryTypes(us, E, place), Owned(us, E)
    PROVE  EntryTypes(us, F, place) /\ Owned(us, F)
  BY FS_Subset DEF EntryTypes, Owned

\* An entry leaves E: the counts of what is remembered.
LEMMA CountForgotten ==
    ASSUME NEW us, NEW E, IsFiniteSet(E), NEW e \in E
    PROVE  \A k, q : /\ Cardinality(Remembered(us, E, k, q)) =
                            Cardinality(Remembered(us, E \ {e}, k, q))
                                + One(k, q, Dst(us, e), Old(us, e))
                     /\ Cardinality(Remembered(us, E \ {e}, k, q)) \in Nat
<1> DEFINE F == E \ {e}
<1>1. IsFiniteSet(F) /\ e \notin F /\ F \cup {e} = E
  BY FS_Subset
<1>2. Agree(us, us, F)
  BY DEF Agree
<1> HIDE DEF F
<1>3. \A k, q : Cardinality(Remembered(us, F \cup {e}, k, q)) =
            Cardinality(Remembered(us, F, k, q)) + One(k, q, Dst(us, e), Old(us, e))
  BY <1>1, <1>2, CountRemembered
<1>4. \A k, q : Cardinality(Remembered(us, F, k, q)) \in Nat
  BY <1>1, RememberedFinite
<1> QED  BY <1>1, <1>3, <1>4 DEF F

\* The last output of its logical register is undone.
LEMMA UndoBooks ==
    ASSUME NEW rf, NEW us, NEW E, NEW place, Books(rf, us, E, place, {}), NEW e \in E,
           NEW l, l = Dst(us, e), ~ rf.pending[Kind(l)][New(us, e)],
           \A f \in E \ {e} : Dst(us, f) = l => Earlier(place, f, e)
    PROVE  LET s == Release(rf, Kind(l), New(us, e))
               t == [s EXCEPT !.rat[l] = Old(us, e)]
           IN  /\ ~ s.pending[Kind(l)][New(us, e)] /\ s.busy[Kind(l)][Old(us, e)] > 0
               /\ Books(t, us, E \ {e}, place, {})
               /\ t.pending = rf.pending /\ t.top = rf.top
<1> DEFINE k == Kind(l)
           r == New(us, e)
           o == Old(us, e)
           F == E \ {e}
           s == Release(rf, k, r)
           t == [s EXCEPT !.rat[l] = o]
<1>1. /\ FileTypes(rf) /\ EntryTypes(us, E, place) /\ Counts(rf, us, E, {})
      /\ Chain(rf, us, E, place) /\ Owned(us, E) /\ PendingSound(rf, us, E)
      /\ FreeExact(rf)
  BY BooksFree DEF Books
<1>2. /\ l \in Logical /\ r \in Physical(k) /\ o \in Physical(k) /\ k \in Kinds
      /\ KindIn(us, e) = k /\ IsFiniteSet(E)
      /\ \A f \in E : f[2] \in Nat /\ place[f[1]] \in Nat
  BY <1>1, KindType DEF EntryTypes, KindIn
<1>3. /\ ~ Earlier(place, e, e)
      /\ \A f \in E : Earlier(place, f, e) => ~ Earlier(place, e, f)
  BY <1>2, EarlierOrder
<1>4. rf.rat[l] = r
  <2>1. IsLast(us, E, place, e)
    BY <1>3 DEF IsLast
  <2> QED  BY <1>1, <2>1 DEF Chain
<1>5. rf.busy[k][r] > 0
  BY <1>1, <1>2, OwnerIsBusy
<1>6. /\ FileTypes(s) /\ FreeExact(s)
      /\ s.rat = rf.rat /\ s.pending = rf.pending /\ s.top = rf.top
      /\ \A j \in Kinds : \A q \in Physical(j) :
            /\ rf.busy[j][q] \in Nat
            /\ s.busy[j][q] = IF j = k /\ q = r THEN rf.busy[j][q] - 1 ELSE rf.busy[j][q]
  BY <1>1, <1>2, <1>5, ReleaseEffect
<1> HIDE DEF s
<1>7. /\ DOMAIN t = DOMAIN s /\ t.rat = [rf.rat EXCEPT ![l] = o] /\ t.busy = s.busy
      /\ t.pending = rf.pending /\ t.free = s.free /\ t.top = rf.top /\ t.ok = s.ok
  BY <1>6 DEF FileTypes
<1> HIDE DEF t
<1>8. DOMAIN rf.rat = Logical /\ \A m \in Logical : rf.rat[m] \in Physical(Kind(m))
  BY <1>1 DEF FileTypes
<1>9. DOMAIN t.rat = Logical /\ \A m \in Logical : t.rat[m] = IF m = l THEN o ELSE rf.rat[m]
  BY <1>7, <1>8
<1>10. FileTypes(t) /\ FreeExact(t)
  <2>1. FreeExact(t)
    BY <1>6, <1>7 DEF FreeExact
  <2>2. DOMAIN t.rat = Logical /\ \A m \in Logical : t.rat[m] \in Physical(Kind(m))
    BY <1>2, <1>8, <1>9
  <2> QED  BY <1>6, <1>7, <2>1, <2>2 DEF FileTypes
<1>11. EntryTypes(us, F, place) /\ Owned(us, F)
  BY <1>1, FewerEntries
<1>12. Counts(t, us, F, {})
  <2> SUFFICES ASSUME NEW j \in Kinds, NEW q \in Physical(j)
               PROVE  t.busy[j][q] = Cardinality(Mapped(t.rat, j, q))
                                        + Cardinality(Remembered(us, F, j, q))
    BY <1>10, CountsFrom
  <2>1. rf.busy[j][q] = Cardinality(Mapped(rf.rat, j, q)) + Cardinality(Remembered(us, E, j, q))
    BY <1>1 DEF Counts
  <2>2. Cardinality(Mapped(t.rat, j, q)) = Cardinality(Mapped(rf.rat, j, q))
                                        + One(j, q, l, o) - One(j, q, l, rf.rat[l])
    BY <1>2, <1>7, <1>8, CountMapped
  <2>3. \A m, p : /\ Cardinality(Remembered(us, E, m, p)) =
                        Cardinality(Remembered(us, F, m, p)) + One(m, p, l, o)
                  /\ Cardinality(Remembered(us, F, m, p)) \in Nat
    BY <1>2, CountForgotten
  <2>4. /\ Cardinality(Remembered(us, E, j, q)) =
                        Cardinality(Remembered(us, F, j, q)) + One(j, q, l, o)
        /\ Cardinality(Remembered(us, F, j, q)) \in Nat
    BY <2>3
  <2>5. Cardinality(Mapped(rf.rat, j, q)) \in Nat
    BY MappedFinite
  <2>6. t.busy[j][q] = rf.busy[j][q] - One(j, q, l, r) /\ rf.busy[j][q] \in Nat
    BY <1>6, <1>7 DEF One
  <2>7. One(j, q, l, r) \in Int /\ One(j, q, l, o) \in Int /\ One(j, q, l, rf.rat[l]) = One(j, q, l, r)
    BY <1>4 DEF One
  <2> QED  BY <2>1, <2>2, <2>4, <2>5, <2>6, <2>7
<1>13. s.busy[k][o] > 0
  <2>1. t.busy[k][o] = Cardinality(Mapped(t.rat, k, o)) + Cardinality(Remembered(us, F, k, o))
    BY <1>2, <1>12 DEF Counts
  <2>2. l \in Mapped(t.rat, k, o)
    BY <1>2, <1>9 DEF Mapped
  <2>3. /\ IsFiniteSet(Mapped(t.rat, k, o)) /\ Cardinality(Mapped(t.rat, k, o)) \in Nat
        /\ Cardinality(Remembered(us, F, k, o)) \in Nat
    BY <1>11, MappedFinite, RememberedFinite DEF EntryTypes
  <2>4. Cardinality(Mapped(t.rat, k, o)) # 0
    BY <2>2, <2>3, FS_EmptySet
  <2> QED  BY <1>7, <2>1, <2>3, <2>4
<1>14. Chain(t, us, F, place)
  <2>1. ASSUME NEW f \in F, NEW g \in F, Follows(us, F, place, f, g)
        PROVE  New(us, f) = Old(us, g)
    <3>1. ASSUME Dst(us, e) = Dst(us, f), Earlier(place, f, e), Earlier(place, e, g)
          PROVE  FALSE
      <4>1. Dst(us, g) = l
        BY <2>1, <3>1 DEF Follows
      <4> QED  BY <1>3, <3>1, <4>1
    <3>2. Follows(us, E, place, f, g)
      BY <2>1, <3>1 DEF Follows
    <3> QED  BY <1>1, <3>2 DEF Chain
  <2>2. ASSUME NEW f \in F, IsLast(us, F, place, f)
        PROVE  t.rat[Dst(us, f)] = New(us, f)
    <3>1. CASE Dst(us, f) = l
      <4>1. Earlier(place, f, e)
        BY <3>1
      <4>2. Follows(us, E, place, f, e)
        BY <1>3, <2>2, <3>1, <4>1 DEF Follows, IsLast
      <4>3. New(us, f) = o
        BY <1>1, <4>2 DEF Chain
      <4> QED  BY <1>2, <1>9, <3>1, <4>3
    <3>2. CASE Dst(us, f) # l
      <4>1. IsLast(us, E, place, f)
        BY <2>2, <3>2 DEF IsLast
      <4>2. rf.rat[Dst(us, f)] = New(us, f) /\ Dst(us, f) \in Logical
        BY <1>1, <4>1 DEF Chain, EntryTypes
      <4> QED  BY <1>9, <3>2, <4>2
    <3> QED  BY <3>1, <3>2
  <2> QED  BY <2>1, <2>2 DEF Chain
<1>15. PendingSound(t, us, F)
  <2> SUFFICES ASSUME NEW j \in Kinds, NEW q \in Physical(j), rf.pending[j][q]
               PROVE  \E f \in F : KindIn(us, f) = j /\ New(us, f) = q /\ ~ IsDone(us, f)
    BY <1>7 DEF PendingSound
  <2>1. PICK f \in E : KindIn(us, f) = j /\ New(us, f) = q /\ ~ IsDone(us, f)
    BY <1>1 DEF PendingSound
  <2>2. f # e
    BY <1>2, <2>1
  <2> QED  BY <2>1, <2>2
<1>16. Books(t, us, F, place, {})
  BY <1>10, <1>11, <1>12, <1>14, <1>15 DEF Books
<1>17. ~ s.pending[k][r]
  BY <1>6
<1> QED  BY <1>7, <1>13, <1>16, <1>17 DEF s, t

\* The first output of its logical register is committed, by a uop that is done.
LEMMA DropBooks ==
    ASSUME NEW rf, NEW us, NEW E, NEW place, Books(rf, us, E, place, {}), NEW e \in E,
           NEW l, l = Dst(us, e), IsDone(us, e),
           \A f \in E \ {e} : Dst(us, f) = l => Earlier(place, e, f)
    PROVE  LET s == Release(rf, Kind(l), Old(us, e))
           IN  /\ s.busy[Kind(l)][Old(us, e)] = 0 => ~ s.pending[Kind(l)][Old(us, e)]
               /\ Books(s, us, E \ {e}, place, {})
               /\ s.pending = rf.pending /\ s.top = rf.top
<1> DEFINE k == Kind(l)
           o == Old(us, e)
           F == E \ {e}
           s == Release(rf, k, o)
<1>1. /\ FileTypes(rf) /\ EntryTypes(us, E, place) /\ Counts(rf, us, E, {})
      /\ Chain(rf, us, E, place) /\ Owned(us, E) /\ PendingSound(rf, us, E)
      /\ FreeExact(rf)
  BY BooksFree DEF Books
<1>2. /\ l \in Logical /\ o \in Physical(k) /\ k \in Kinds
      /\ KindIn(us, e) = k /\ IsFiniteSet(E)
      /\ \A f \in E : f[2] \in Nat /\ place[f[1]] \in Nat
  BY <1>1, KindType DEF EntryTypes, KindIn
<1>3. /\ ~ Earlier(place, e, e)
      /\ \A f \in E : Earlier(place, e, f) => ~ Earlier(place, f, e)
  BY <1>2, EarlierOrder
<1>4. rf.busy[k][o] > 0
  <2>1. rf.busy[k][o] = Cardinality(Mapped(rf.rat, k, o)) + Cardinality(Remembered(us, E, k, o))
    BY <1>1, <1>2 DEF Counts
  <2>2. e \in Remembered(us, E, k, o)
    BY <1>2 DEF Remembered
  <2>3. /\ Cardinality(Mapped(rf.rat, k, o)) \in Nat
        /\ IsFiniteSet(Remembered(us, E, k, o)) /\ Cardinality(Remembered(us, E, k, o)) \in Nat
    BY <1>2, MappedFinite, RememberedFinite
  <2>4. Cardinality(Remembered(us, E, k, o)) # 0
    BY <2>2, <2>3, FS_EmptySet
  <2> QED  BY <2>1, <2>3, <2>4
<1>5. /\ FileTypes(s) /\ FreeExact(s)
      /\ s.rat = rf.rat /\ s.pending = rf.pending /\ s.top = rf.top
      /\ \A j \in Kinds : \A q \in Physical(j) :
            /\ rf.busy[j][q] \in Nat
            /\ s.busy[j][q] = IF j = k /\ q = o THEN rf.busy[j][q] - 1 ELSE rf.busy[j][q]
  BY <1>1, <1>2, <1>4, ReleaseEffect
<1> HIDE DEF s
<1>6. EntryTypes(us, F, place) /\ Owned(us, F)
  BY <1>1, FewerEntries
<1>7. Counts(s, us, F, {})
  <2> SUFFICES ASSUME NEW j \in Kinds, NEW q \in Physical(j)
               PROVE  s.busy[j][q] = Cardinality(Mapped(s.rat, j, q))
                                        + Cardinality(Remembered(us, F, j, q))
    BY <1>5, CountsFrom
  <2>1. rf.busy[j][q] = Cardinality(Mapped(rf.rat, j, q)) + Cardinality(Remembered(us, E, j, q))
    BY <1>1 DEF Counts
  <2>2. \A m, p : /\ Cardinality(Remembered(us, E, m, p)) =
                        Cardinality(Remembered(us, F, m, p)) + One(m, p, l, o)
                  /\ Cardinality(Remembered(us, F, m, p)) \in Nat
    BY <1>2, CountForgotten
  <2>3. /\ Cardinality(Remembered(us, E, j, q)) =
                        Cardinality(Remembered(us, F, j, q)) + One(j, q, l, o)
        /\ Cardinality(Remembered(us, F, j, q)) \in Nat
    BY <2>2
  <2>4. Cardinality(Mapped(rf.rat, j, q)) \in Nat
    BY MappedFinite
  <2>5. s.busy[j][q] = rf.busy[j][q] - One(j, q, l, o) /\ rf.busy[j][q] \in Nat
        /\ One(j, q, l, o) \in Int
    BY <1>5 DEF One
  <2> QED  BY <1>5, <2>1, <2>3, <2>4, <2>5
<1>8. Chain(s, us, F, place)
  <2>1. ASSUME NEW f \in F, NEW g \in F, Follows(us, F, place, f, g)
        PROVE  New(us, f) = Old(us, g)
    <3>1. ASSUME Dst(us, e) = Dst(us, f), Earlier(place, f, e)
          PROVE  FALSE
      BY <1>3, <3>1
    <3>2. Follows(us, E, place, f, g)
      BY <2>1, <3>1 DEF Follows
    <3> QED  BY <1>1, <3>2 DEF Chain
  <2>2. ASSUME NEW f \in F, IsLast(us, F, place, f)
        PROVE  s.rat[Dst(us, f)] = New(us, f)
    <3>1. ASSUME Dst(us, e) = Dst(us, f), Earlier(place, f, e)
          PROVE  FALSE
      BY <1>3, <3>1
    <3>2. IsLast(us, E, place, f)
      BY <2>2, <3>1 DEF IsLast
    <3> QED  BY <1>1, <1>5, <3>2 DEF Chain
  <2> QED  BY <2>1, <2>2 DEF Chain
<1>9. PendingSound(s, us, F)
  <2> SUFFICES ASSUME NEW j \in Kinds, NEW q \in Physical(j), rf.pending[j][q]
               PROVE  \E f \in F : KindIn(us, f) = j /\ New(us, f) = q /\ ~ IsDone(us, f)
    BY <1>5 DEF PendingSound
  <2>1. PICK f \in E : KindIn(us, f) = j /\ New(us, f) = q /\ ~ IsDone(us, f)
    BY <1>1 DEF PendingSound
  <2> QED  BY <2>1
<1>10. s.busy[k][o] = 0 => ~ s.pending[k][o]
  <2> SUFFICES ASSUME s.pending[k][o] PROVE s.busy[k][o] # 0
    OBVIOUS
  <2>1. PICK f \in F : KindIn(us, f) = k /\ New(us, f) = o
    BY <1>2, <1>9 DEF PendingSound
  <2>2. s.busy[k][o] > 0
    BY <1>5, <1>6, <1>7, <1>8, <2>1, OwnerIsBusy
  <2> QED  BY <2>2
<1>11. Books(s, us, F, place, {})
  BY <1>5, <1>6, <1>7, <1>8, <1>9 DEF Books
<1> QED  BY <1>5, <1>10, <1>11 DEF s
-----------------------------------------------------------------------------
(***************************************************************************)
(* A uop writes its outputs.                                               *)
(***************************************************************************)
\* Register q of kind k is an output of u.
Writes(u, k, q) == \E i \in DOMAIN u.out : Kind(u.inst.out[i]) = k /\ u.out[i] = q

LEMMA WriteEffect ==
    ASSUME NEW rf, FileTypes(rf), NEW u
    PROVE  LET s == WriteUop(rf, u)
           IN  /\ FileTypes(s) /\ s.rat = rf.rat /\ s.busy = rf.busy /\ s.free = rf.free
               /\ s.top = rf.top
               /\ \A k \in Kinds : \A q \in Physical(k) :
                    s.pending[k][q] <=> rf.pending[k][q] /\ ~ Writes(u, k, q)
<1> DEFINE s == WriteUop(rf, u)
           p == [k \in Kinds |-> [r \in Physical(k) |->
                    rf.pending[k][r] /\ ~ \E i \in DOMAIN u.out :
                                Kind(u.inst.out[i]) = k /\ u.out[i] = r]]
<1>1. /\ DOMAIN s = DOMAIN rf /\ s.rat = rf.rat /\ s.busy = rf.busy /\ s.free = rf.free
      /\ s.top = rf.top /\ s.ok = rf.ok /\ s.pending = p
  BY DEF WriteUop, FileTypes
<1>2. \A k \in Kinds : \A q \in Physical(k) :
            p[k][q] = (rf.pending[k][q] /\ ~ Writes(u, k, q))
  BY DEF Writes
<1>3. DOMAIN p = Kinds /\ \A k \in Kinds : p[k] \in [Physical(k) -> BOOLEAN]
  OBVIOUS
<1> HIDE DEF s, p
<1>4. FileTypes(s)
  BY <1>1, <1>3 DEF FileTypes
<1> QED  BY <1>1, <1>2, <1>4 DEF s

\* vs are the uops us, where uop x may be done now.
Completes(us, vs, E, x) ==
    \A e \in E : /\ Dst(us, e) = Dst(vs, e) /\ New(us, e) = New(vs, e)
                 /\ Old(us, e) = Old(vs, e)
                 /\ IsDone(us, e) = IsDone(vs, e) \/ e[1] = x

LEMMA WriteBooks ==
    ASSUME NEW rf, NEW us, NEW vs, NEW E, NEW place, NEW H, Books(rf, us, E, place, H),
           NEW x, NEW u, Completes(us, vs, E, x),
           \A e \in E : e[1] = x => Writes(u, KindIn(us, e), New(us, e))
    PROVE  Books(WriteUop(rf, u), vs, E, place, H)
<1> DEFINE s == WriteUop(rf, u)
<1>1. /\ FileTypes(rf) /\ EntryTypes(us, E, place) /\ Counts(rf, us, E, H)
      /\ Chain(rf, us, E, place) /\ Owned(us, E) /\ PendingSound(rf, us, E)
  BY DEF Books
<1>2. /\ FileTypes(s) /\ s.rat = rf.rat /\ s.busy = rf.busy /\ s.free = rf.free
      /\ \A k \in Kinds : \A q \in Physical(k) :
            s.pending[k][q] <=> rf.pending[k][q] /\ ~ Writes(u, k, q)
  BY <1>1, WriteEffect
<1> HIDE DEF s
<1>3. \A e \in E : /\ Dst(us, e) = Dst(vs, e) /\ New(us, e) = New(vs, e)
                   /\ Old(us, e) = Old(vs, e) /\ KindIn(us, e) = KindIn(vs, e)
                   /\ IsDone(us, e) = IsDone(vs, e) \/ e[1] = x
  BY DEF Completes, KindIn
<1>4. EntryTypes(vs, E, place) /\ Owned(vs, E)
  BY <1>1, <1>3 DEF EntryTypes, Owned
<1>5. Counts(s, vs, E, H)
  <2>1. \A k, q : Remembered(us, E, k, q) = Remembered(vs, E, k, q)
    BY <1>3 DEF Remembered
  <2> QED  BY <1>1, <1>2, <2>1 DEF Counts
<1>6. Chain(s, vs, E, place)
  <2>1. \A e, f \in E : Follows(vs, E, place, e, f) => Follows(us, E, place, e, f)
    BY <1>3 DEF Follows
  <2>2. \A e \in E : IsLast(vs, E, place, e) => IsLast(us, E, place, e)
    BY <1>3 DEF IsLast
  <2> QED  BY <1>1, <1>2, <1>3, <2>1, <2>2 DEF Chain
<1>7. PendingSound(s, vs, E)
  <2> SUFFICES ASSUME NEW j \in Kinds, NEW q \in Physical(j), s.pending[j][q]
               PROVE  \E f \in E : KindIn(vs, f) = j /\ New(vs, f) = q /\ ~ IsDone(vs, f)
    BY DEF PendingSound
  <2>1. rf.pending[j][q] /\ ~ Writes(u, j, q)
    BY <1>2
  <2>2. PICK f \in E : KindIn(us, f) = j /\ New(us, f) = q /\ ~ IsDone(us, f)
    BY <1>1, <2>1 DEF PendingSound
  <2>3. f[1] # x
    BY <2>1, <2>2
  <2> QED  BY <1>3, <2>2, <2>3
<1> QED  BY <1>2, <1>4, <1>5, <1>6, <1>7 DEF s, Books
-----------------------------------------------------------------------------
(***************************************************************************)
(* The sequences of states of the loops: each one is the state before it   *)
(* with one more output.                                                   *)
(***************************************************************************)
\* The loop of UndoUop.
LEMMA UndoneIs ==
    ASSUME NEW rf, NEW u, NEW n \in Nat, Len(u.out) = n
    PROVE  LET t == Undone(rf, u)
           IN  /\ DOMAIN t = 0 .. n /\ t[0] = rf
               /\ \A i \in 1 .. n : t[i] = UndoOutput(t[i - 1], u, n + 1 - i)
<1> DEFINE R(t, k) == t = [i \in 0 .. k |-> IF i = 0 THEN rf ELSE UndoOutput(t[i - 1], u, n + 1 - i)]
           S == {k \in 0 .. n : \E t : R(t, k)}
<1>1. 0 \in S
  <2>1. R([i \in 0 .. 0 |-> rf], 0)
    OBVIOUS
  <2> HIDE DEF R
  <2> QED BY <2>1
<1>2. ASSUME NEW k \in 0 .. n - 1, k \in S
      PROVE  k + 1 \in S
  <2>1. PICK t : R(t, k)
    BY <1>2
  <2> DEFINE s == [i \in 0 .. k + 1 |-> IF i <= k THEN t[i] ELSE UndoOutput(t[k], u, n + 1 - i)]
  <2>2. R(s, k + 1)
    <3>1. ASSUME NEW i \in 0 .. k + 1
          PROVE  s[i] = IF i = 0 THEN rf ELSE UndoOutput(s[i - 1], u, n + 1 - i)
      <4>1. CASE i = 0
        BY <2>1, <4>1
      <4>2. CASE i \in 1 .. k
        <5>1. s[i] = t[i] /\ i # 0 /\ s[i - 1] = t[i - 1]
          BY <4>2
        <5>2. t[i] = UndoOutput(t[i - 1], u, n + 1 - i)
          BY <2>1, <4>2
        <5> QED BY <5>1, <5>2
      <4>3. CASE i = k + 1
        <5>1. s[i] = UndoOutput(t[k], u, n + 1 - i) /\ i - 1 = k /\ s[i - 1] = t[k] /\ i # 0
          BY <4>3
        <5> QED BY <5>1
      <4> QED BY <4>1, <4>2, <4>3
    <3> QED BY <3>1
  <2>3. k + 1 \in 0 .. n
    OBVIOUS
  <2> HIDE DEF R
  <2> QED BY <2>2, <2>3
<1>3. n \in S
  <2> HIDE DEF S, R
  <2>1. \A k \in 0 .. n - 1 : k \in S => k + 1 \in S
    BY <1>2
  <2>2. \A k \in 0 .. n : k \in S
    BY <1>1, <2>1, UpTo
  <2> QED BY <2>2
<1>4. PICK t : R(t, n)
  BY <1>3
<1>5. R(Undone(rf, u), n)
  BY <1>4 DEF Undone
<1> QED BY <1>5

\* The loop of CommitUop.
LEMMA CommittedIs ==
    ASSUME NEW rf, NEW u, NEW n \in Nat, Len(u.old) = n
    PROVE  LET t == Committed(rf, u)
           IN  /\ DOMAIN t = 0 .. n /\ t[0] = rf
               /\ \A i \in 1 .. n : t[i] = CommitOutput(t[i - 1], u, i)
<1> DEFINE R(t, k) == t = [i \in 0 .. k |-> IF i = 0 THEN rf ELSE CommitOutput(t[i - 1], u, i)]
           S == {k \in 0 .. n : \E t : R(t, k)}
<1>1. 0 \in S
  <2>1. R([i \in 0 .. 0 |-> rf], 0)
    OBVIOUS
  <2> HIDE DEF R
  <2> QED BY <2>1
<1>2. ASSUME NEW k \in 0 .. n - 1, k \in S
      PROVE  k + 1 \in S
  <2>1. PICK t : R(t, k)
    BY <1>2
  <2> DEFINE s == [i \in 0 .. k + 1 |-> IF i <= k THEN t[i] ELSE CommitOutput(t[k], u, i)]
  <2>2. R(s, k + 1)
    <3>1. ASSUME NEW i \in 0 .. k + 1
          PROVE  s[i] = IF i = 0 THEN rf ELSE CommitOutput(s[i - 1], u, i)
      <4>1. CASE i = 0
        BY <2>1, <4>1
      <4>2. CASE i \in 1 .. k
        <5>1. s[i] = t[i] /\ i # 0 /\ s[i - 1] = t[i - 1]
          BY <4>2
        <5>2. t[i] = CommitOutput(t[i - 1], u, i)
          BY <2>1, <4>2
        <5> QED BY <5>1, <5>2
      <4>3. CASE i = k + 1
        <5>1. s[i] = CommitOutput(t[k], u, i) /\ i - 1 = k /\ s[i - 1] = t[k] /\ i # 0
          BY <4>3
        <5> QED BY <5>1
      <4> QED BY <4>1, <4>2, <4>3
    <3> QED BY <3>1
  <2>3. k + 1 \in 0 .. n
    OBVIOUS
  <2> HIDE DEF R
  <2> QED BY <2>2, <2>3
<1>3. n \in S
  <2> HIDE DEF S, R
  <2>1. \A k \in 0 .. n - 1 : k \in S => k + 1 \in S
    BY <1>2
  <2>2. \A k \in 0 .. n : k \in S
    BY <1>1, <2>1, UpTo
  <2> QED BY <2>2
<1>4. PICK t : R(t, n)
  BY <1>3
<1>5. R(Committed(rf, u), n)
  BY <1>4 DEF Committed
<1> QED BY <1>5

\* The loop of Rename over the flags.
LEMMA FlagsIs ==
    ASSUME NEW first, NEW dst, NEW r, NEW n \in Nat, Len(dst) = n
    PROVE  LET t == FlagsRenamed(first, dst, r)
           IN  /\ DOMAIN t = 0 .. n /\ t[0] = first
               /\ \A i \in 1 .. n : t[i] = FlagsStep(t[i - 1], i, dst[i], r)
<1> DEFINE R(t, k) == t = [i \in 0 .. k |-> IF i = 0 THEN first ELSE FlagsStep(t[i - 1], i, dst[i], r)]
           S == {k \in 0 .. n : \E t : R(t, k)}
<1>1. 0 \in S
  <2>1. R([i \in 0 .. 0 |-> first], 0)
    OBVIOUS
  <2> HIDE DEF R
  <2> QED BY <2>1
<1>2. ASSUME NEW k \in 0 .. n - 1, k \in S
      PROVE  k + 1 \in S
  <2>1. PICK t : R(t, k)
    BY <1>2
  <2> DEFINE s == [i \in 0 .. k + 1 |-> IF i <= k THEN t[i] ELSE FlagsStep(t[k], i, dst[i], r)]
  <2>2. R(s, k + 1)
    <3>1. ASSUME NEW i \in 0 .. k + 1
          PROVE  s[i] = IF i = 0 THEN first ELSE FlagsStep(s[i - 1], i, dst[i], r)
      <4>1. CASE i = 0
        BY <2>1, <4>1
      <4>2. CASE i \in 1 .. k
        <5>1. s[i] = t[i] /\ i # 0 /\ s[i - 1] = t[i - 1]
          BY <4>2
        <5>2. t[i] = FlagsStep(t[i - 1], i, dst[i], r)
          BY <2>1, <4>2
        <5> QED BY <5>1, <5>2
      <4>3. CASE i = k + 1
        <5>1. s[i] = FlagsStep(t[k], i, dst[i], r) /\ i - 1 = k /\ s[i - 1] = t[k] /\ i # 0
          BY <4>3
        <5> QED BY <5>1
      <4> QED BY <4>1, <4>2, <4>3
    <3> QED BY <3>1
  <2>3. k + 1 \in 0 .. n
    OBVIOUS
  <2> HIDE DEF R
  <2> QED BY <2>2, <2>3
<1>3. n \in S
  <2> HIDE DEF S, R
  <2>1. \A k \in 0 .. n - 1 : k \in S => k + 1 \in S
    BY <1>2
  <2>2. \A k \in 0 .. n : k \in S
    BY <1>1, <2>1, UpTo
  <2> QED BY <2>2
<1>4. PICK t : R(t, n)
  BY <1>3
<1>5. R(FlagsRenamed(first, dst, r), n)
  BY <1>4 DEF FlagsRenamed
<1> QED BY <1>5

\* The loop of Rename over the other outputs.
LEMMA PlainIs ==
    ASSUME NEW rf, NEW dst, NEW n \in Nat, Len(dst) = n
    PROVE  LET t == PlainRenamed(rf, dst)
           IN  /\ DOMAIN t = 0 .. n /\ t[0] = [rf |-> rf, out |-> [i \in DOMAIN dst |-> -1],
                         old |-> [i \in DOMAIN dst |-> -1]]
               /\ \A i \in 1 .. n : t[i] = PlainStep(t[i - 1], i, dst[i])
<1> DEFINE a == [rf |-> rf, out |-> [i \in DOMAIN dst |-> -1],
                     old |-> [i \in DOMAIN dst |-> -1]]
           R(t, k) == t = [i \in 0 .. k |-> IF i = 0 THEN a ELSE PlainStep(t[i - 1], i, dst[i])]
           S == {k \in 0 .. n : \E t : R(t, k)}
<1> HIDE DEF a
<1>1. 0 \in S
  <2>1. R([i \in 0 .. 0 |-> a], 0)
    OBVIOUS
  <2> HIDE DEF R
  <2> QED BY <2>1
<1>2. ASSUME NEW k \in 0 .. n - 1, k \in S
      PROVE  k + 1 \in S
  <2>1. PICK t : R(t, k)
    BY <1>2
  <2> DEFINE s == [i \in 0 .. k + 1 |-> IF i <= k THEN t[i] ELSE PlainStep(t[k], i, dst[i])]
  <2>2. R(s, k + 1)
    <3>1. ASSUME NEW i \in 0 .. k + 1
          PROVE  s[i] = IF i = 0 THEN a ELSE PlainStep(s[i - 1], i, dst[i])
      <4>1. CASE i = 0
        BY <2>1, <4>1
      <4>2. CASE i \in 1 .. k
        <5>1. s[i] = t[i] /\ i # 0 /\ s[i - 1] = t[i - 1]
          BY <4>2
        <5>2. t[i] = PlainStep(t[i - 1], i, dst[i])
          BY <2>1, <4>2
        <5> QED BY <5>1, <5>2
      <4>3. CASE i = k + 1
        <5>1. s[i] = PlainStep(t[k], i, dst[i]) /\ i - 1 = k /\ s[i - 1] = t[k] /\ i # 0
          BY <4>3
        <5> QED BY <5>1
      <4> QED BY <4>1, <4>2, <4>3
    <3> QED BY <3>1
  <2>3. k + 1 \in 0 .. n
    OBVIOUS
  <2> HIDE DEF R
  <2> QED BY <2>2, <2>3
<1>3. n \in S
  <2> HIDE DEF S, R
  <2>1. \A k \in 0 .. n - 1 : k \in S => k + 1 \in S
    BY <1>2
  <2>2. \A k \in 0 .. n : k \in S
    BY <1>1, <2>1, UpTo
  <2> QED BY <2>2
<1>4. PICK s : R(s, n)
  BY <1>3
<1>5. R(PlainRenamed(rf, dst), n)
  BY <1>4 DEF PlainRenamed, a
<1>6. LET t == PlainRenamed(rf, dst)
      IN  /\ DOMAIN t = 0 .. n /\ t[0] = a
          /\ \A i \in 1 .. n : t[i] = PlainStep(t[i - 1], i, dst[i])
  BY <1>5
<1> QED BY <1>6 DEF a
-----------------------------------------------------------------------------
(***************************************************************************)
(* The top of the stack.                                                   *)
(***************************************************************************)
TopAfter(top, op) ==
    CASE op = "fp_pop" -> (top + 1) % StackSize
      [] op = "fp_push" -> (top + StackSize - 1) % StackSize
      [] OTHER -> top
RelativeTo(top, l) == IF l \in FpRegs THEN (l + top) % StackSize ELSE l

LEMMA TopType ==
    ASSUME NEW top \in 0 .. StackSize - 1, NEW op
    PROVE  TopAfter(top, op) \in 0 .. StackSize - 1
<1>1. top \in Nat /\ StackSize \in Nat \ {0}
  BY RegisterAssumption
<1>2. (top + 1) % StackSize \in 0 .. StackSize - 1
  BY <1>1
<1>3. (top + StackSize - 1) % StackSize \in 0 .. StackSize - 1
  BY <1>1
<1> QED BY <1>2, <1>3 DEF TopAfter

\* Undoing an operation turns the stack back.
LEMMA TurnBack ==
    ASSUME NEW top \in 0 .. StackSize - 1, NEW op
    PROVE  TopAfter(TopAfter(top, op), InverseTurn(op)) = top
<1>1. top \in Nat /\ StackSize \in Nat \ {0}
  BY RegisterAssumption
<1>2. CASE op = "fp_pop"
  <2>1. TopAfter(TopAfter(top, op), InverseTurn(op))
            = (((top + 1) % StackSize) + StackSize - 1) % StackSize
    BY <1>2 DEF TopAfter, InverseTurn
  <2>2. CASE top = StackSize - 1
    <3>1. (top + 1) % StackSize = 0
      BY <1>1, <2>2
    <3>2. (0 + StackSize - 1) % StackSize = StackSize - 1
      BY <1>1
    <3> QED BY <2>1, <2>2, <3>1, <3>2
  <2>3. CASE top < StackSize - 1
    <3>1. (top + 1) % StackSize = top + 1
      BY <1>1, <2>3
    <3>2. (top + 1 + StackSize - 1) % StackSize = top
      BY <1>1, <2>3
    <3> QED BY <2>1, <3>1, <3>2
  <2> QED BY <1>1, <2>2, <2>3
<1>3. CASE op = "fp_push"
  <2>1. TopAfter(TopAfter(top, op), InverseTurn(op))
            = (((top + StackSize - 1) % StackSize) + 1) % StackSize
    BY <1>3 DEF TopAfter, InverseTurn
  <2>2. CASE top = 0
    <3>1. (top + StackSize - 1) % StackSize = StackSize - 1
      BY <1>1, <2>2
    <3>2. (StackSize - 1 + 1) % StackSize = 0
      BY <1>1
    <3> QED BY <2>1, <2>2, <3>1, <3>2
  <2>3. CASE top > 0
    <3>1. (top + StackSize - 1) % StackSize = top - 1
      BY <1>1, <2>3
    <3>2. (top - 1 + 1) % StackSize = top
      BY <1>1, <2>3
    <3> QED BY <2>1, <3>1, <3>2
  <2> QED BY <1>1, <2>2, <2>3
<1>4. CASE op # "fp_pop" /\ op # "fp_push"
  BY <1>4 DEF TopAfter, InverseTurn
<1> QED BY <1>2, <1>3, <1>4

LEMMA TurnedIs ==
    ASSUME NEW rf, FileTypes(rf), NEW op
    PROVE  /\ Turned(rf, op) = [rf EXCEPT !.top = TopAfter(rf.top, op)]
           /\ Turned(rf, op).top = TopAfter(rf.top, op)
           /\ TopAfter(rf.top, op) \in 0 .. StackSize - 1
<1>1. rf.top \in 0 .. StackSize - 1 /\ "top" \in DOMAIN rf
  BY DEF FileTypes
<1>2. TopAfter(rf.top, op) \in 0 .. StackSize - 1
  BY <1>1, TopType
<1>3. Turned(rf, op) = [rf EXCEPT !.top = TopAfter(rf.top, op)]
  BY DEF Turned, TopAfter
<1> QED BY <1>1, <1>2, <1>3

\* The books do not depend on the top of the stack.
LEMMA TurnedBooks ==
    ASSUME NEW rf, NEW us, NEW E, NEW place, NEW H, Books(rf, us, E, place, H), NEW op
    PROVE  /\ Books(Turned(rf, op), us, E, place, H)
           /\ Turned(rf, op).pending = rf.pending /\ Turned(rf, op).free = rf.free
           /\ Turned(rf, op).top = TopAfter(rf.top, op)
<1> DEFINE t == Turned(rf, op)
<1>1. FileTypes(rf)
  BY DEF Books
<1>2. /\ DOMAIN t = {"rat", "busy", "pending", "free", "top", "ok"}
      /\ t.rat = rf.rat /\ t.busy = rf.busy /\ t.pending = rf.pending /\ t.free = rf.free
      /\ t.ok = rf.ok /\ t.top = TopAfter(rf.top, op) /\ t.top \in 0 .. StackSize - 1
  <2>1. t = [rf EXCEPT !.top = TopAfter(rf.top, op)]
    BY <1>1, TurnedIs
  <2>2. TopAfter(rf.top, op) \in 0 .. StackSize - 1 /\ "top" \in DOMAIN rf
    BY <1>1, TurnedIs DEF FileTypes
  <2>3. DOMAIN t = DOMAIN rf
    BY <2>1
  <2> QED BY <1>1, <2>1, <2>2, <2>3 DEF FileTypes
<1> HIDE DEF t
<1>3. FileTypes(t)
  BY <1>1, <1>2 DEF FileTypes
<1>4. Counts(t, us, E, H)
  BY <1>2 DEF Books, Counts
<1>5. Chain(t, us, E, place) /\ PendingSound(t, us, E)
  BY <1>2 DEF Books, Chain, PendingSound
<1> QED BY <1>2, <1>3, <1>4, <1>5 DEF Books, t

\* Taking a register relative to the stack keeps its kind.
LEMMA RelativeKind ==
    ASSUME NEW l \in Logical, NEW top \in 0 .. StackSize - 1
    PROVE  /\ RelativeTo(top, l) \in Logical /\ Kind(RelativeTo(top, l)) = Kind(l)
           /\ IsFlag(RelativeTo(top, l)) <=> IsFlag(l)
<1>1. CASE l \in FpRegs
  <2>1. l \in Nat /\ top \in Nat /\ StackSize \in Nat \ {0}
    BY RegisterAssumption
  <2>2. (l + top) % StackSize \in 0 .. StackSize - 1
    BY <2>1
  <2>3. RelativeTo(top, l) \in FpRegs
    BY <1>1, <2>2, RegisterAssumption DEF RelativeTo
  <2>4. l \notin FlagRegs /\ RelativeTo(top, l) \notin FlagRegs
    BY <1>1, <2>3, RegisterAssumption
  <2> QED BY <1>1, <2>3, <2>4 DEF Logical, Kind, IsFlag
<1>2. CASE l \notin FpRegs
  BY <1>2 DEF RelativeTo
<1> QED BY <1>1, <1>2

LEMMA FlagKind == \A l \in Logical : IsFlag(l) => Kind(l) = "int"
  BY RegisterAssumption DEF IsFlag, Kind

LEMMA RelativeIs == \A rf, l : Relative(rf, l) = RelativeTo(rf.top, l)
  BY DEF Relative, RelativeTo
-----------------------------------------------------------------------------
(***************************************************************************)
(* The books depend on the entries and on their order only.                *)
(***************************************************************************)
SameOrder(E, place, spot) ==
    \A e, f \in E : place[e[1]] < place[f[1]] <=> spot[e[1]] < spot[f[1]]

LEMMA BooksSame ==
    ASSUME NEW rf, NEW us, NEW vs, NEW E, NEW place, NEW spot, NEW H,
           Books(rf, us, E, place, H), Agree(us, vs, E), SameOrder(E, place, spot),
           \A e \in E : spot[e[1]] \in Nat
    PROVE  Books(rf, vs, E, spot, H)
<1>1. EntryTypes(us, E, place) /\ FileTypes(rf)
  BY DEF Books
<1>2. \A e \in E : /\ Dst(us, e) = Dst(vs, e) /\ New(us, e) = New(vs, e)
                   /\ Old(us, e) = Old(vs, e) /\ (IsDone(us, e) <=> IsDone(vs, e))
                   /\ KindIn(us, e) = KindIn(vs, e)
  BY DEF Agree, KindIn
<1>3. \A e, f \in E : place[e[1]] = place[f[1]] <=> spot[e[1]] = spot[f[1]]
  BY <1>1 DEF EntryTypes, SameOrder
<1>4. EntryTypes(vs, E, spot)
  BY <1>1, <1>2, <1>3 DEF EntryTypes
<1>5. \A e, f \in E : Earlier(place, e, f) <=> Earlier(spot, e, f)
  BY <1>3 DEF Earlier, SameOrder
<1>6. Counts(rf, vs, E, H)
  <2>1. \A k, r : Remembered(us, E, k, r) = Remembered(vs, E, k, r)
    BY <1>2 DEF Remembered
  <2> QED BY <2>1 DEF Books, Counts
<1>7. Chain(rf, vs, E, spot)
  <2>1. \A e, f \in E : Follows(us, E, place, e, f) <=> Follows(vs, E, spot, e, f)
    BY <1>2, <1>5 DEF Follows
  <2>2. \A e \in E : IsLast(us, E, place, e) <=> IsLast(vs, E, spot, e)
    BY <1>2, <1>5 DEF IsLast
  <2> QED BY <1>2, <2>1, <2>2 DEF Books, Chain
<1>8. Owned(vs, E)
  BY <1>2 DEF Books, Owned
<1>9. PendingSound(rf, vs, E)
  BY <1>2 DEF Books, PendingSound
<1> QED BY <1>1, <1>4, <1>6, <1>7, <1>8, <1>9 DEF Books
-----------------------------------------------------------------------------
(***************************************************************************)
(* UndoUop and CommitUop.                                                  *)
(***************************************************************************)
\* The outputs of u are the entries of uop x in E; they were renamed when the top
\* of the stack was top.
Outputs(us, E, x, n, top) ==
    LET u == us[x]
    IN  /\ n \in Nat /\ Len(u.out) = n /\ Len(u.old) = n
        /\ \A i \in 1 .. n : /\ <<x, i>> \in E /\ u.inst.out[i] \in Logical
                             /\ u.dst[i] = RelativeTo(top, u.inst.out[i])
        /\ \A e \in E : e[1] = x => e[2] \in 1 .. n

\* The books when the entries of x from i on are gone.
Without(E, x, i, j) == E \ {<<x, m>> : m \in i .. j}

\* Entry <<x, j>> of F is the youngest one; it is not pending and the top of the stack is
\* what it was when it was renamed; t is the file without it.
YoungestOutput(rf, us, F, place, x, j, t, G) ==
    /\ t = UndoOutput(rf, us[x], j) /\ G = F \ {<<x, j>>} /\ j \in Nat /\ <<x, j>> \in F /\ Books(rf, us, F, place, {})
    /\ \A f \in F : IF f[1] = x THEN f[2] <= j ELSE place[f[1]] < place[x]
    /\ us[x].inst.out[j] \in Logical /\ us[x].dst[j] = RelativeTo(rf.top, us[x].inst.out[j])
    /\ ~ rf.pending[Kind(us[x].dst[j])][us[x].out[j]]

LEMMA UndoOutputBooks ==
    ASSUME NEW rf, NEW us, NEW F, NEW place, NEW x, NEW j, NEW z, NEW G,
           YoungestOutput(rf, us, F, place, x, j, z, G)
    PROVE  Books(z, us, G, place, {}) /\ z.pending = rf.pending /\ z.top = rf.top
<1> DEFINE e == <<x, j>>
           l == us[x].dst[j]
           s == Release(rf, Kind(l), us[x].out[j])
           t == [s EXCEPT !.rat[l] = us[x].old[j]]
<1>1. e[1] = x /\ e[2] = j /\ Dst(us, e) = l /\ New(us, e) = us[x].out[j] /\ Old(us, e) = us[x].old[j]
  BY DEF Dst, New, Old
<1>2. /\ FileTypes(rf) /\ EntryTypes(us, F, place) /\ Books(rf, us, F, place, {}) /\ j \in Nat
      /\ \A f \in F : IF f[1] = x THEN f[2] <= j ELSE place[f[1]] < place[x]
      /\ z = UndoOutput(rf, us[x], j) /\ G = F \ {<<x, j>>}
  BY DEF Books, YoungestOutput
<1>3. \A f \in F \ {e} : Dst(us, f) = l => Earlier(place, f, e)
  <2> SUFFICES ASSUME NEW f \in F \ {e} PROVE Earlier(place, f, e)
    OBVIOUS
  <2>1. f = <<f[1], f[2]>> /\ f[2] \in Nat
    BY <1>2 DEF EntryTypes
  <2>2. CASE f[1] # x
    BY <1>1, <1>2, <2>2 DEF Earlier
  <2>3. CASE f[1] = x
    <3>1. f[2] <= j
      BY <1>2, <2>3
    <3>2. f[2] # j
      BY <2>1, <2>3
    <3>3. f[2] < j
      BY <1>2, <2>1, <3>1, <3>2
    <3> QED BY <1>1, <2>3, <3>3 DEF Earlier
  <2> QED BY <2>2, <2>3
<1>4. /\ ~ s.pending[Kind(l)][us[x].out[j]] /\ s.busy[Kind(l)][us[x].old[j]] > 0
      /\ Books(t, us, F \ {e}, place, {})
      /\ t.pending = rf.pending /\ t.top = rf.top
  <2> HIDE DEF e
  <2>1. e \in F /\ l = Dst(us, e) /\ ~ rf.pending[Kind(l)][New(us, e)]
    BY <1>1 DEF e, YoungestOutput
  <2>2. Books(rf, us, F, place, {})
    BY <1>2
  <2> HIDE DEF l
  <2> QED BY <1>1, <1>3, <2>1, <2>2, UndoBooks
<1>5. Kind(us[x].inst.out[j]) = Kind(l) /\ Relative(rf, us[x].inst.out[j]) = l
  BY <1>2, RelativeKind, RelativeIs DEF FileTypes, YoungestOutput
<1>6. UndoOutput(rf, us[x], j)
        = [s EXCEPT !.ok = @ /\ ~ s.pending[Kind(l)][us[x].out[j]]
                             /\ s.busy[Kind(l)][us[x].old[j]] > 0,
                    !.rat[l] = us[x].old[j]]
  BY <1>5 DEF UndoOutput
<1>7. t.ok = TRUE
  BY <1>4 DEF Books, FileTypes
<1> HIDE DEF l
<1>8. s.ok = TRUE /\ "ok" \in DOMAIN s
  <2>1. DOMAIN s = DOMAIN rf
    BY DEF Release
  <2>2. t.ok = s.ok
    OBVIOUS
  <2> QED BY <1>2, <1>7, <2>1, <2>2 DEF FileTypes
<1> HIDE DEF s
<1>9. UndoOutput(rf, us[x], j) = t
  BY <1>4, <1>6, <1>8
<1> QED BY <1>2, <1>4, <1>9

\* Uop x, which has n outputs, is the youngest one, and none of its outputs is pending; s
\* is the file without it, and G are the other entries.
Undoes(rf, us, E, place, x, n, s, G) ==
    /\ s = UndoUop(rf, us[x]) /\ G = {e \in E : e[1] # x}
    /\ Books(rf, us, E, place, {}) /\ Outputs(us, E, x, n, rf.top)
    /\ \A f \in E : f[1] # x => place[f[1]] < place[x]
    /\ \A i \in 1 .. n : ~ rf.pending[Kind(us[x].dst[i])][us[x].out[i]]

\* Undone, it leaves the books exact without it.
LEMMA UndoUopBooks ==
    ASSUME NEW rf, NEW us, NEW E, NEW place, NEW x, NEW n, NEW s, NEW G,
           Undoes(rf, us, E, place, x, n, s, G)
    PROVE  /\ Books(s, us, G, place, {}) /\ s.pending = rf.pending
           /\ s.top = TopAfter(rf.top, InverseTurn(us[x].inst.op))
<1> DEFINE T == Undone(rf, us[x])
           P(i) == /\ Books(T[i], us, Without(E, x, n + 1 - i, n), place, {})
                   /\ T[i].pending = rf.pending /\ T[i].top = rf.top
           S == {i \in 0 .. n : P(i)}
<1>0. /\ Books(rf, us, E, place, {}) /\ Outputs(us, E, x, n, rf.top)
      /\ \A f \in E : f[1] # x => place[f[1]] < place[x]
      /\ \A i \in 1 .. n : ~ rf.pending[Kind(us[x].dst[i])][us[x].out[i]]
      /\ s = UndoUop(rf, us[x]) /\ G = {e \in E : e[1] # x}
  BY DEF Undoes
<1>1. n \in Nat /\ Len(us[x].out) = n /\ EntryTypes(us, E, place)
  BY <1>0 DEF Outputs, Books
<1>2. /\ T[0] = rf
      /\ \A i \in 1 .. n : T[i] = UndoOutput(T[i - 1], us[x], n + 1 - i)
  BY <1>1, UndoneIs
<1> HIDE DEF T
<1>3. 0 \in S
  <2>1. Without(E, x, n + 1 - 0, n) = E
    BY <1>1 DEF Without
  <2> QED BY <1>0, <1>1, <1>2, <2>1
<1>4. ASSUME NEW i \in 0 .. n - 1, i \in S
      PROVE  i + 1 \in S
  <2> DEFINE j == n - i
             F == Without(E, x, n + 1 - i, n)
  <2>1. P(i)
    BY <1>4
  <2>2. T[i + 1] = UndoOutput(T[i], us[x], j)
    <3>1. i + 1 \in 1 .. n /\ (i + 1) - 1 = i /\ n + 1 - (i + 1) = j
      BY <1>1
    <3> QED BY <1>2, <3>1
  <2>3. j \in 1 .. n /\ j \in Nat /\ n + 1 - i = j + 1 /\ n + 1 - (i + 1) = j
    BY <1>1
  <2>4. F \in SUBSET E /\ <<x, j>> \in F
    BY <1>0, <1>1, <2>3 DEF Without, Outputs
  <2>5. \A f \in F : f[1] # x => place[f[1]] < place[x]
    BY <1>0, <2>4
  <2>6. \A f \in F : f[1] = x => f[2] <= j
    <3> SUFFICES ASSUME NEW f \in F, f[1] = x, ~ f[2] <= j PROVE FALSE
      OBVIOUS
    <3>1. f[2] \in 1 .. n /\ f = <<x, f[2]>>
      BY <1>0, <1>1, <2>4 DEF Outputs, EntryTypes
    <3>2. f[2] \in j + 1 .. n
      BY <2>3, <3>1
    <3> QED BY <2>3, <3>1, <3>2 DEF Without
  <2>7. us[x].inst.out[j] \in Logical /\ us[x].dst[j] = RelativeTo(rf.top, us[x].inst.out[j])
    BY <1>0, <2>3 DEF Outputs
  <2>8. ~ rf.pending[Kind(us[x].dst[j])][us[x].out[j]]
    BY <1>0, <2>3
  <2>9. F \ {<<x, j>>} = Without(E, x, j, n)
    <3>1. j .. n = (j + 1 .. n) \cup {j}
      BY <1>1, <2>3
    <3> QED BY <2>3, <3>1 DEF Without
  <2>10. YoungestOutput(T[i], us, F, place, x, j, T[i + 1], Without(E, x, j, n))
    BY <2>1, <2>2, <2>3, <2>4, <2>5, <2>6, <2>7, <2>8, <2>9 DEF YoungestOutput
  <2>11. /\ Books(T[i + 1], us, Without(E, x, j, n), place, {})
         /\ T[i + 1].pending = T[i].pending /\ T[i + 1].top = T[i].top
    <3> DEFINE r == T[i]
               t == T[i + 1]
               K == Without(E, x, j, n)
    <3>1. YoungestOutput(r, us, F, place, x, j, t, K)
      BY <2>10
    <3> HIDE DEF P, F, j, r, t, K
    <3>2. Books(t, us, K, place, {}) /\ t.pending = r.pending /\ t.top = r.top
      BY ONLY <3>1, UndoOutputBooks
    <3> QED BY <3>2 DEF r, t, K
  <2>12. P(i + 1)
    BY <2>1, <2>3, <2>11
  <2>13. i + 1 \in 0 .. n
    BY <1>1
  <2> QED BY <2>12, <2>13
<1>5. P(n)
  <2> HIDE DEF P
  <2>1. \A i \in 0 .. n - 1 : i \in S => i + 1 \in S
    BY <1>4
  <2> HIDE DEF S
  <2>2. n \in S
    <3>1. \A i \in 0 .. n : i \in S
      BY <1>1, <1>3, <2>1, UpTo
    <3> QED BY <1>1, <3>1
  <2> QED BY <2>2 DEF S
<1>6. Without(E, x, n + 1 - n, n) = {e \in E : e[1] # x}
  <2>1. \A e \in E : e[1] = x => e \in {<<x, m>> : m \in 1 .. n}
    <3> SUFFICES ASSUME NEW e \in E, e[1] = x PROVE \E m \in 1 .. n : e = <<x, m>>
      OBVIOUS
    <3>1. e[2] \in 1 .. n /\ e = <<e[1], e[2]>>
      BY <1>0, <1>1 DEF Outputs, EntryTypes
    <3> QED BY <3>1
  <2>2. \A m : <<x, m>>[1] = x
    OBVIOUS
  <2>3. n + 1 - n = 1
    BY <1>1
  <2> QED BY <2>1, <2>2, <2>3 DEF Without
<1>7. UndoUop(rf, us[x]) = Turned(T[n], InverseTurn(us[x].inst.op))
  BY <1>1 DEF UndoUop, T
<1> DEFINE z == T[n]
           op == InverseTurn(us[x].inst.op)
<1>8. /\ Books(z, us, G, place, {}) /\ z.pending = rf.pending /\ z.top = rf.top
      /\ s = Turned(z, op)
  BY <1>0, <1>5, <1>6, <1>7
<1> HIDE DEF z, op
<1>9. /\ Books(Turned(z, op), us, G, place, {})
      /\ Turned(z, op).pending = z.pending /\ Turned(z, op).top = TopAfter(z.top, op)
  BY <1>8, TurnedBooks
<1> QED BY <1>8, <1>9 DEF op

\* Entry <<x, j>> of F is the oldest one.
OldestOutput(us, F, place, x, j) ==
    /\ <<x, j>> \in F
    /\ \A f \in F : IF f[1] = x THEN j <= f[2] ELSE place[x] < place[f[1]]
    /\ us[x].inst.out[j] \in Logical /\ Kind(us[x].inst.out[j]) = Kind(us[x].dst[j])

LEMMA CommitOutputBooks ==
    ASSUME NEW rf, NEW us, NEW F, NEW place, NEW x, NEW j \in Nat, Books(rf, us, F, place, {}),
           OldestOutput(us, F, place, x, j), us[x].completed
    PROVE  /\ Books(CommitOutput(rf, us[x], j), us, F \ {<<x, j>>}, place, {})
           /\ CommitOutput(rf, us[x], j).pending = rf.pending
           /\ CommitOutput(rf, us[x], j).top = rf.top
<1> DEFINE e == <<x, j>>
           l == us[x].dst[j]
           s == Release(rf, Kind(l), us[x].old[j])
<1>1. e[1] = x /\ e[2] = j /\ Dst(us, e) = l /\ Old(us, e) = us[x].old[j] /\ IsDone(us, e)
  BY DEF Dst, Old, IsDone
<1>2. FileTypes(rf) /\ EntryTypes(us, F, place)
  BY DEF Books
<1>3. \A f \in F \ {e} : Dst(us, f) = l => Earlier(place, e, f)
  <2> SUFFICES ASSUME NEW f \in F \ {e} PROVE Earlier(place, e, f)
    OBVIOUS
  <2>1. f = <<f[1], f[2]>> /\ f[2] \in Nat
    BY <1>2 DEF EntryTypes
  <2>2. CASE f[1] # x
    BY <1>1, <2>2 DEF Earlier, OldestOutput
  <2>3. CASE f[1] = x
    <3>1. f[2] # j /\ j <= f[2]
      BY <2>1, <2>3 DEF OldestOutput
    <3> QED BY <1>1, <2>1, <2>3, <3>1 DEF Earlier
  <2> QED BY <2>2, <2>3
<1>4. /\ s.busy[Kind(l)][us[x].old[j]] = 0 => ~ s.pending[Kind(l)][us[x].old[j]]
      /\ Books(s, us, F \ {e}, place, {})
      /\ s.pending = rf.pending /\ s.top = rf.top
  <2> HIDE DEF e
  <2>1. e \in F /\ l = Dst(us, e)
    BY <1>1 DEF e, OldestOutput
  <2> HIDE DEF l
  <2> QED BY <1>1, <1>3, <2>1, DropBooks
<1>6. CommitOutput(rf, us[x], j)
        = [s EXCEPT !.ok = @ /\ (s.busy[Kind(l)][us[x].old[j]] = 0
                                    => ~ s.pending[Kind(l)][us[x].old[j]])]
  BY DEF CommitOutput, OldestOutput
<1> HIDE DEF l
<1>8. s.ok = TRUE /\ DOMAIN s = {"rat", "busy", "pending", "free", "top", "ok"}
  BY <1>4 DEF Books, FileTypes
<1>9. CommitOutput(rf, us[x], j) = [s EXCEPT !.ok = TRUE]
  BY <1>4, <1>6, <1>8
<1>10. s = [k \in DOMAIN s |-> s[k]]
  <2>1. DOMAIN rf = DOMAIN s
    BY DEF Release
  <2> QED BY DEF Release
<1> HIDE DEF s
<1>11. [s EXCEPT !.ok = TRUE] = s
  BY <1>8, <1>10
<1> QED BY <1>4, <1>9, <1>11

\* Uop x, which has n outputs, is the oldest one and has completed; s is the file without
\* it, and G are the other entries.
GivesUp(rf, us, E, place, x, n, top, s, G) ==
    /\ s = CommitUop(rf, us[x]) /\ G = {e \in E : e[1] # x}
    /\ Books(rf, us, E, place, {}) /\ top \in 0 .. StackSize - 1 /\ Outputs(us, E, x, n, top)
    /\ \A f \in E : f[1] # x => place[x] < place[f[1]]
    /\ n = 0 \/ us[x].completed

\* Committed, it leaves the books exact without it.
LEMMA CommitUopBooks ==
    ASSUME NEW rf, NEW us, NEW E, NEW place, NEW x, NEW n, NEW top, NEW s, NEW G,
           GivesUp(rf, us, E, place, x, n, top, s, G)
    PROVE  Books(s, us, G, place, {}) /\ s.pending = rf.pending /\ s.top = rf.top
<1> DEFINE T == Committed(rf, us[x])
           P(i) == /\ Books(T[i], us, Without(E, x, 1, i), place, {})
                   /\ T[i].pending = rf.pending /\ T[i].top = rf.top
           S == {i \in 0 .. n : P(i)}
<1>0. /\ Books(rf, us, E, place, {}) /\ top \in 0 .. StackSize - 1 /\ Outputs(us, E, x, n, top)
      /\ \A f \in E : f[1] # x => place[x] < place[f[1]]
      /\ n = 0 \/ us[x].completed
      /\ s = CommitUop(rf, us[x]) /\ G = {e \in E : e[1] # x}
  BY DEF GivesUp
<1>1. n \in Nat /\ Len(us[x].old) = n /\ EntryTypes(us, E, place)
  BY <1>0 DEF Outputs, Books
<1>2. /\ T[0] = rf
      /\ \A i \in 1 .. n : T[i] = CommitOutput(T[i - 1], us[x], i)
  BY <1>1, CommittedIs
<1> HIDE DEF T
<1>3. 0 \in S
  <2>1. Without(E, x, 1, 0) = E
    BY <1>1 DEF Without
  <2> QED BY <1>0, <1>1, <1>2, <2>1
<1>4. ASSUME NEW i \in 0 .. n - 1, i \in S
      PROVE  i + 1 \in S
  <2> DEFINE j == i + 1
             F == Without(E, x, 1, i)
  <2>1. P(i)
    BY <1>4
  <2>2. T[i + 1] = CommitOutput(T[i], us[x], j)
    <3>1. i + 1 \in 1 .. n /\ (i + 1) - 1 = i
      BY <1>1
    <3> QED BY <1>2, <3>1
  <2>3. j \in 1 .. n /\ j \in Nat
    BY <1>1
  <2>4. F \in SUBSET E /\ <<x, j>> \in F
    BY <1>0, <1>1, <2>3 DEF Without, Outputs
  <2>5. \A f \in F : f[1] # x => place[x] < place[f[1]]
    BY <1>0, <2>4
  <2>6. \A f \in F : f[1] = x => j <= f[2]
    <3> SUFFICES ASSUME NEW f \in F, f[1] = x, ~ j <= f[2] PROVE FALSE
      OBVIOUS
    <3>1. f[2] \in 1 .. n /\ f = <<x, f[2]>>
      BY <1>0, <1>1, <2>4 DEF Outputs, EntryTypes
    <3>2. f[2] \in 1 .. i
      BY <2>3, <3>1
    <3> QED BY <2>3, <3>1, <3>2 DEF Without
  <2>7. us[x].inst.out[j] \in Logical /\ Kind(us[x].inst.out[j]) = Kind(us[x].dst[j])
    BY <1>0, <2>3, RelativeKind DEF Outputs
  <2>8. us[x].completed
    BY <1>0, <1>1
  <2>9. F \ {<<x, j>>} = Without(E, x, 1, j)
    <3>1. 1 .. j = (1 .. i) \cup {j}
      BY <1>1
    <3> QED BY <3>1 DEF Without
  <2>10. OldestOutput(us, F, place, x, j)
    BY <2>4, <2>5, <2>6, <2>7 DEF OldestOutput
  <2>11. LET t == CommitOutput(T[i], us[x], j)
         IN  /\ Books(t, us, F \ {<<x, j>>}, place, {})
             /\ t.pending = rf.pending /\ t.top = rf.top
    <3>1. Books(T[i], us, F, place, {}) /\ T[i].pending = rf.pending /\ T[i].top = rf.top
      BY <2>1
    <3> DEFINE r == T[i]
    <3>2. /\ Books(r, us, F, place, {}) /\ r.pending = rf.pending /\ r.top = rf.top
          /\ OldestOutput(us, F, place, x, j)
      BY <2>10, <3>1
    <3> HIDE DEF P, F, j, r
    <3>3. j \in Nat
      BY <2>3
    <3>4. /\ Books(CommitOutput(r, us[x], j), us, F \ {<<x, j>>}, place, {})
          /\ CommitOutput(r, us[x], j).pending = r.pending
          /\ CommitOutput(r, us[x], j).top = r.top
      BY ONLY <3>2, <3>3, <2>8, CommitOutputBooks
    <3> QED BY <3>2, <3>4 DEF r
  <2>12. P(i + 1)
    BY <2>2, <2>9, <2>11
  <2>13. i + 1 \in 0 .. n
    BY <1>1
  <2> QED BY <2>12, <2>13
<1>5. P(n)
  <2> HIDE DEF P
  <2>1. \A i \in 0 .. n - 1 : i \in S => i + 1 \in S
    BY <1>4
  <2> HIDE DEF S
  <2>2. n \in S
    <3>1. \A i \in 0 .. n : i \in S
      BY <1>1, <1>3, <2>1, UpTo
    <3> QED BY <1>1, <3>1
  <2> QED BY <2>2 DEF S
<1>6. Without(E, x, 1, n) = {e \in E : e[1] # x}
  <2>1. \A e \in E : e[1] = x => e \in {<<x, m>> : m \in 1 .. n}
    <3> SUFFICES ASSUME NEW e \in E, e[1] = x PROVE \E m \in 1 .. n : e = <<x, m>>
      OBVIOUS
    <3>1. e[2] \in 1 .. n /\ e = <<e[1], e[2]>>
      BY <1>0, <1>1 DEF Outputs, EntryTypes
    <3> QED BY <3>1
  <2>2. \A m : <<x, m>>[1] = x
    OBVIOUS
  <2> QED BY <2>1, <2>2 DEF Without
<1>7. CommitUop(rf, us[x]) = T[n]
  BY <1>1 DEF CommitUop, T
<1> QED BY <1>0, <1>5, <1>6, <1>7
-----------------------------------------------------------------------------
(***************************************************************************)
(* Rename.  In state s of its loops, uop x of D has been given the         *)
(* registers s.out for the logical registers dst.                          *)
(***************************************************************************)
Given(us, D, x, s, dst) ==
    [y \in D |-> IF y = x THEN [out |-> s.out, old |-> s.old, dst |-> dst, completed |-> FALSE]
                 ELSE us[y]]

\* The loop state, when the outputs of x in F have been mapped.
LoopState(s, us, D, x, dst, n, F, place, H) ==
    /\ n \in Nat /\ s.out \in [1 .. n -> Int] /\ s.old \in [1 .. n -> Int]
    /\ \A i \in 1 .. n : dst[i] \in Logical
    /\ x \in D /\ place[x] \in Nat
    /\ \A f \in F : /\ f[1] \in D
                    /\ IF f[1] = x THEN f[2] \in 1 .. n ELSE place[f[1]] < place[x]
    /\ Books(s.rf, Given(us, D, x, s, dst), F, place, H)
    /\ \A f \in F : f[1] = x => s.rf.pending[Kind(dst[f[2]])][s.out[f[2]]]

\* No pending register is forgotten.
StillPending(rf, s) ==
    \A k \in Kinds : \A r \in Physical(k) : rf.pending[k][r] => s.rf.pending[k][r]

\* Output j of x, logical register l, is mapped to r, which is requested or shared with
\* other outputs of x.
Assigns(s, us, x, dst, n, F, H, j, l, r, t, G, K) ==
    /\ j \in 1 .. n /\ <<x, j>> \notin F /\ l = dst[j] /\ r \in Physical(Kind(l))
    /\ s.rf.busy[Kind(l)][r] > 0 \/ <<Kind(l), r>> \in H
    /\ \A f \in F : f[1] = x /\ dst[f[2]] = l => f[2] < j
    /\ \A f \in F : f[1] # x => ~ (KindIn(us, f) = Kind(l) /\ New(us, f) = r)
    /\ t = Assign(s, j, l, r) /\ G = F \cup {<<x, j>>} /\ K = H \ {<<Kind(l), r>>}

LEMMA AssignStep ==
    ASSUME NEW s, NEW us, NEW D, NEW x, NEW dst, NEW n, NEW F, NEW place, NEW H,
           LoopState(s, us, D, x, dst, n, F, place, H),
           NEW j, NEW l, NEW r, NEW t, NEW G, NEW K,
           Assigns(s, us, x, dst, n, F, H, j, l, r, t, G, K)
    PROVE  /\ LoopState(t, us, D, x, dst, n, G, place, K)
           /\ StillPending(s.rf, t) /\ t.rf.free = s.rf.free /\ t.rf.top = s.rf.top
           /\ t.rf.busy[Kind(l)][r] > 0
           /\ t.out[j] = r /\ \A i \in 1 .. n : i # j => t.out[i] = s.out[i]
<1> USE DEF Assigns
<1> DEFINE e == <<x, j>>
           gs == Given(us, D, x, s, dst)
           gt == Given(us, D, x, t, dst)
<1>1. t.rf = MapTo(s.rf, l, r) /\ t.out = [s.out EXCEPT ![j] = r]
      /\ t.old = [s.old EXCEPT ![j] = s.rf.rat[l]]
  BY DEF Assign
<1>2. Books(s.rf, gs, F, place, H) /\ FileTypes(s.rf) /\ EntryTypes(gs, F, place)
  BY DEF LoopState, Books
<1>3. l \in Logical /\ n \in Nat /\ j \in Nat /\ x \in D /\ place[x] \in Nat
  BY DEF LoopState
<1>4. s.rf.rat[l] \in Physical(Kind(l)) /\ Kind(l) \in Kinds
  BY <1>2, <1>3, KindType DEF FileTypes
<1>5. \A k \in Kinds : Physical(k) \subseteq Int
  BY RegisterAssumption DEF Physical
<1>6. t.out \in [1 .. n -> Int] /\ t.old \in [1 .. n -> Int]
  <2>1. r \in Int /\ s.rf.rat[l] \in Int
    BY <1>4, <1>5
  <2> QED BY <1>1, <2>1 DEF LoopState
<1>7. /\ t.out[j] = r /\ t.old[j] = s.rf.rat[l]
      /\ \A i \in 1 .. n : i # j => t.out[i] = s.out[i] /\ t.old[i] = s.old[i]
  BY <1>1 DEF LoopState
<1>8. \A f \in F : /\ f = <<f[1], f[2]>> /\ f[1] \in D /\ f[2] \in Nat
                   /\ f[1] = x => f[2] \in 1 .. n /\ f[2] # j
                   /\ f[1] # x => place[f[1]] < place[x]
  BY <1>2 DEF LoopState, EntryTypes
<1>9. /\ \A f \in F : f[1] # x => gs[f[1]] = us[f[1]] /\ gt[f[1]] = us[f[1]]
      /\ gs[x].out = s.out /\ gs[x].old = s.old /\ gs[x].dst = dst /\ gs[x].completed = FALSE
      /\ gt[x].out = t.out /\ gt[x].old = t.old /\ gt[x].dst = dst /\ gt[x].completed = FALSE
  <2>1. \A y \in D \ {x} : gs[y] = us[y] /\ gt[y] = us[y]
    BY <1>3 DEF Given
  <2>2. /\ gs[x].out = s.out /\ gs[x].old = s.old /\ gs[x].dst = dst /\ gs[x].completed = FALSE
        /\ gt[x].out = t.out /\ gt[x].old = t.old /\ gt[x].dst = dst /\ gt[x].completed = FALSE
    BY <1>3 DEF Given
  <2> HIDE DEF gs, gt
  <2> QED BY <1>8, <2>1, <2>2
<1> HIDE DEF gs, gt
<1>10. Agree(gs, gt, F)
  <2> SUFFICES ASSUME NEW f \in F
               PROVE  /\ Dst(gs, f) = Dst(gt, f) /\ New(gs, f) = New(gt, f)
                      /\ Old(gs, f) = Old(gt, f) /\ IsDone(gs, f) = IsDone(gt, f)
    BY DEF Agree
  <2>1. CASE f[1] # x
    BY <1>9, <2>1 DEF Dst, New, Old, IsDone
  <2>2. CASE f[1] = x
    <3>1. f[2] \in 1 .. n /\ f[2] # j
      BY <1>8, <2>2
    <3>2. t.out[f[2]] = s.out[f[2]] /\ t.old[f[2]] = s.old[f[2]]
      BY <1>7, <3>1
    <3> QED BY <1>9, <2>2, <3>2 DEF Dst, New, Old, IsDone
  <2> QED BY <2>1, <2>2
<1>11. e[1] = x /\ e[2] = j /\ e = <<e[1], e[2]>>
  OBVIOUS
<1>12. Dst(gt, e) = l /\ New(gt, e) = r /\ ~ IsDone(gt, e) /\ Old(gt, e) = s.rf.rat[l]
  BY <1>7, <1>9, <1>11 DEF Dst, New, Old, IsDone
<1>13. ASSUME NEW f \in F
       PROVE  /\ place[f[1]] = place[e[1]] => f[1] = e[1]
              /\ Dst(gt, f) = l => Earlier(place, f, e)
              /\ KindIn(gt, f) = Kind(l) /\ New(gt, f) = r => f[1] = e[1]
  <2>1. CASE f[1] # x
    <3>1. place[f[1]] < place[x] /\ place[f[1]] \in Nat
      BY <1>2, <1>8, <2>1 DEF EntryTypes
    <3>2. KindIn(gt, f) = KindIn(us, f) /\ New(gt, f) = New(us, f)
      BY <1>9, <2>1 DEF KindIn, New, Dst
    <3> QED BY <1>3, <1>11, <2>1, <3>1, <3>2 DEF Earlier
  <2>2. CASE f[1] = x
    <3>1. Dst(gt, f) = dst[f[2]]
      BY <1>9, <2>2 DEF Dst
    <3> QED BY <1>3, <1>8, <1>11, <2>2, <3>1 DEF Earlier
  <2> QED BY <2>1, <2>2
<1>14. IsEntry(gt, F, place, e, l, r)
  BY <1>3, <1>11, <1>12, <1>13 DEF IsEntry
<1>15. /\ Books(t.rf, gt, F \cup {e}, place, H \ {<<Kind(l), r>>})
       /\ t.rf.free = s.rf.free /\ t.rf.top = s.rf.top
       /\ t.rf.busy[Kind(l)][r] > 0 /\ t.rf.pending[Kind(l)][r]
       /\ \A k \in Kinds : \A q \in Physical(k) : s.rf.pending[k][q] => t.rf.pending[k][q]
  <2> DEFINE rf == s.rf
  <2>1. Books(rf, gs, F, place, H) /\ Old(gt, e) = rf.rat[l]
        /\ (rf.busy[Kind(l)][r] > 0 \/ <<Kind(l), r>> \in H) /\ t.rf = MapTo(rf, l, r)
    <3>1. t.rf = MapTo(rf, l, r)
      BY <1>1
    <3> QED BY <1>2, <1>12, <3>1
  <2> HIDE DEF e, rf
  <2>2. /\ Books(MapTo(rf, l, r), gt, F \cup {e}, place, H \ {<<Kind(l), r>>})
        /\ MapTo(rf, l, r).free = rf.free /\ MapTo(rf, l, r).top = rf.top
        /\ MapTo(rf, l, r).busy[Kind(l)][r] > 0
        /\ MapTo(rf, l, r).pending[Kind(l)][r]
        /\ \A k \in Kinds : \A q \in Physical(k) :
               rf.pending[k][q] => MapTo(rf, l, r).pending[k][q]
    <3> DEFINE m == MapTo(rf, l, r)
    <3>1. Agree(gs, gt, F) /\ IsEntry(gt, F, place, e, l, r) /\ Old(gt, e) = rf.rat[l]
      BY <1>10, <1>14, <2>1
    <3>2. Books(rf, gs, F, place, H) /\ (rf.busy[Kind(l)][r] > 0 \/ <<Kind(l), r>> \in H)
      BY <2>1
    <3>3. Books(m, gt, F \cup {e}, place, H \ {<<Kind(l), r>>})
      BY ONLY <3>1, <3>2, MapBooks
    <3>4. m.free = rf.free /\ m.top = rf.top /\ m.busy[Kind(l)][r] > 0
      <4>1. m.free = rf.free /\ m.top = rf.top
        BY <1>2 DEF rf, MapTo, FileTypes
      <4>2. m.busy[Kind(l)][r] > 0
        BY ONLY <3>1, <3>2, MapBooks
      <4> QED BY <4>1, <4>2
    <3>5. m.pending[Kind(l)][r]
      BY ONLY <3>1, <3>2, MapBooks
    <3>6. \A k \in Kinds : \A q \in Physical(k) : rf.pending[k][q] => m.pending[k][q]
      BY ONLY <3>1, <3>2, MapBooks
    <3> QED BY <3>3, <3>4, <3>5, <3>6
  <2> QED BY <2>1, <2>2 DEF rf
<1>16. ASSUME NEW f \in F \cup {e}, f[1] = x
       PROVE  t.rf.pending[Kind(dst[f[2]])][t.out[f[2]]]
  <2>1. CASE f = e
    BY <1>7, <1>11, <1>15, <2>1
  <2>2. CASE f \in F
    <3>1. s.rf.pending[Kind(dst[f[2]])][s.out[f[2]]]
      BY <1>16, <2>2 DEF LoopState
    <3>2. t.out[f[2]] = s.out[f[2]]
      BY <1>7, <1>8, <1>16, <2>2
    <3>3. New(gs, f) \in Physical(KindIn(gs, f)) /\ New(gs, f) = s.out[f[2]]
          /\ KindIn(gs, f) = Kind(dst[f[2]])
      BY <1>2, <1>9, <1>16, <2>2 DEF EntryTypes, New, KindIn, Dst
    <3> QED BY <1>15, <3>1, <3>2, <3>3, KindType
  <2> QED BY <2>1, <2>2
<1>17. \A f \in F \cup {e} : /\ f[1] \in D
                             /\ IF f[1] = x THEN f[2] \in 1 .. n ELSE place[f[1]] < place[x]
  BY <1>3, <1>8, <1>11
<1>18. LoopState(t, us, D, x, dst, n, F \cup {e}, place, H \ {<<Kind(l), r>>})
  <2>1. \A i \in 1 .. n : dst[i] \in Logical
    BY DEF LoopState
  <2> QED BY <1>3, <1>6, <1>15, <1>16, <1>17, <2>1 DEF LoopState, gt
<1>19. StillPending(s.rf, t)
  BY <1>15 DEF StillPending
<1> QED BY <1>7, <1>15, <1>18, <1>19

\* A register is requested in the loop: no output has it.
RequestsIn(s, k, p, r, H) ==
    /\ k \in Kinds /\ s.rf.free[k] # <<>> /\ DOMAIN s = {"rf", "out", "old"}
    /\ p = [s EXCEPT !.rf = Request(@, k)] /\ r = Requested(s.rf, k) /\ H = {<<k, r>>}

LEMMA RequestStep ==
    ASSUME NEW s, NEW us, NEW D, NEW x, NEW dst, NEW n, NEW F, NEW place,
           LoopState(s, us, D, x, dst, n, F, place, {}),
           NEW k, NEW p, NEW r, NEW H, RequestsIn(s, k, p, r, H)
    PROVE  /\ LoopState(p, us, D, x, dst, n, F, place, H)
           /\ p.out = s.out /\ StillPending(s.rf, p) /\ p.rf.top = s.rf.top
           /\ \A q \in Kinds : p.rf.free[q] = IF q = k THEN Front(s.rf.free[k]) ELSE s.rf.free[q]
           /\ Len(Front(s.rf.free[k])) = Len(s.rf.free[k]) - 1 /\ Len(s.rf.free[k]) \in Nat
           /\ r \in Physical(k)
           /\ \A f \in F : f[1] # x => ~ (KindIn(us, f) = k /\ New(us, f) = r)
<1> DEFINE gs == Given(us, D, x, s, dst)
           rf == s.rf
<1>0. RequestsIn(s, k, p, r, H)
  OBVIOUS
<1>1. Books(rf, gs, F, place, {}) /\ rf.free[k] # <<>>
  BY <1>0 DEF LoopState, RequestsIn
<1>2. p.rf = Request(rf, k) /\ p.out = s.out /\ p.old = s.old
  BY <1>0 DEF RequestsIn
<1>3. Given(us, D, x, p, dst) = gs
  BY <1>2 DEF Given
<1> HIDE DEF gs
<1>4. /\ r \in Physical(k) /\ rf.busy[k][r] = 0 /\ Books(p.rf, gs, F, place, H)
      /\ p.rf.rat = rf.rat /\ p.rf.pending = rf.pending /\ p.rf.busy = rf.busy
      /\ p.rf.top = rf.top
      /\ \A q \in Kinds : p.rf.free[q] = IF q = k THEN Front(rf.free[k]) ELSE rf.free[q]
      /\ Len(Front(rf.free[k])) = Len(rf.free[k]) - 1 /\ Len(rf.free[k]) \in Nat
  <2>1. Requests(rf, k, {}, r, p.rf, H)
    BY <1>0, <1>1, <1>2 DEF Requests, RequestsIn
  <2> DEFINE y == p.rf
  <2> HIDE DEF rf, y
  <2>2. /\ r \in Physical(k) /\ rf.busy[k][r] = 0 /\ Books(y, gs, F, place, H)
        /\ y.rat = rf.rat /\ y.pending = rf.pending /\ y.busy = rf.busy /\ y.top = rf.top
        /\ \A q \in Kinds : y.free[q] = IF q = k THEN Front(rf.free[k]) ELSE rf.free[q]
        /\ Len(Front(rf.free[k])) = Len(rf.free[k]) - 1 /\ Len(rf.free[k]) \in Nat
    <3>1. Requests(rf, k, {}, r, y, H)
      BY <2>1 DEF y
    <3> QED BY ONLY <1>1, <3>1, RequestBooks
  <2> QED BY <2>2 DEF y
<1>6. LoopState(p, us, D, x, dst, n, F, place, H)
  BY <1>2, <1>3, <1>4 DEF LoopState
<1>7. StillPending(s.rf, p)
  BY <1>2, <1>4 DEF StillPending
<1>8. ASSUME NEW f \in F, f[1] # x, KindIn(us, f) = k, New(us, f) = r
      PROVE  FALSE
  <2>1. gs[f[1]] = us[f[1]]
    BY <1>8 DEF gs, Given, LoopState
  <2>2. KindIn(gs, f) = k /\ New(gs, f) = r
    BY <1>8, <2>1 DEF KindIn, New, Dst
  <2>3. /\ FileTypes(rf) /\ EntryTypes(gs, F, place) /\ Counts(rf, gs, F, {})
        /\ Chain(rf, gs, F, place)
    BY <1>1 DEF Books
  <2>4. rf.busy[KindIn(gs, f)][New(gs, f)] > 0
    BY ONLY <2>3, f \in F, OwnerIsBusy
  <2> QED BY <1>4, <2>2, <2>4
<1> QED BY <1>2, <1>4, <1>6, <1>7, <1>8

\* The entries of the first i outputs of x, without the flags, and those of kind k.
PlainOuts(dst, i) == {j \in 1 .. i : ~ IsFlag(dst[j])}
OutsOf(dst, k, i) == {j \in PlainOuts(dst, i) : Kind(dst[j]) = k}
EntriesOf(x, J) == {<<x, j>> : j \in J}

LEMMA OutsNext ==
    ASSUME NEW dst, NEW k, NEW i \in Nat
    PROVE  /\ Cardinality(OutsOf(dst, k, i)) \in Nat
           /\ Cardinality(OutsOf(dst, k, i + 1)) = Cardinality(OutsOf(dst, k, i))
                + (IF ~ IsFlag(dst[i + 1]) /\ Kind(dst[i + 1]) = k THEN 1 ELSE 0)
           /\ \A m \in Nat : i <= m => /\ Cardinality(OutsOf(dst, k, m)) \in Nat
                                       /\ Cardinality(OutsOf(dst, k, i))
                                            <= Cardinality(OutsOf(dst, k, m))
<1>1. \A m \in Nat : IsFiniteSet(OutsOf(dst, k, m)) /\ Cardinality(OutsOf(dst, k, m)) \in Nat
  <2> SUFFICES ASSUME NEW m \in Nat
               PROVE  IsFiniteSet(OutsOf(dst, k, m)) /\ Cardinality(OutsOf(dst, k, m)) \in Nat
    OBVIOUS
  <2>1. IsFiniteSet(1 .. m)
    BY FS_Interval
  <2>2. OutsOf(dst, k, m) \subseteq 1 .. m
    BY DEF OutsOf, PlainOuts
  <2>3. IsFiniteSet(OutsOf(dst, k, m))
    BY <2>1, <2>2, FS_Subset
  <2> QED BY <2>3, FS_CardinalityType
<1>2. OutsOf(dst, k, i + 1) \ {i + 1} = OutsOf(dst, k, i)
  BY DEF OutsOf, PlainOuts
<1>3. i + 1 \in OutsOf(dst, k, i + 1) <=> ~ IsFlag(dst[i + 1]) /\ Kind(dst[i + 1]) = k
  BY DEF OutsOf, PlainOuts
<1>4. i + 1 \in Nat
  OBVIOUS
<1>5. Cardinality(OutsOf(dst, k, i + 1)) = Cardinality(OutsOf(dst, k, i))
                + (IF i + 1 \in OutsOf(dst, k, i + 1) THEN 1 ELSE 0)
  BY <1>1, <1>2, <1>4, CardWithout
<1>6. ASSUME NEW m \in Nat, i <= m
      PROVE  Cardinality(OutsOf(dst, k, i)) <= Cardinality(OutsOf(dst, k, m))
  <2>1. OutsOf(dst, k, i) \subseteq OutsOf(dst, k, m)
    BY <1>6 DEF OutsOf, PlainOuts
  <2> QED BY <1>1, <2>1, FS_Subset
<1> QED BY <1>1, <1>3, <1>5, <1>6

PlainLoop(s, rf, us, D, x, dst, n, E, place, i) ==
    /\ LoopState(s, us, D, x, dst, n, E \cup EntriesOf(x, PlainOuts(dst, i)), place, {})
    /\ DOMAIN s = {"rf", "out", "old"}
    /\ StillPending(rf, s) /\ s.rf.top = rf.top
    /\ \A k \in Kinds :
        Len(s.rf.free[k]) + Cardinality(OutsOf(dst, k, i)) = Len(rf.free[k])

LEMMA PlainLoopStep ==
    ASSUME NEW s, NEW rf, NEW us, NEW D, NEW x, NEW dst, NEW n \in Nat, NEW E, NEW place,
           NEW i \in 0 .. n - 1, PlainLoop(s, rf, us, D, x, dst, n, E, place, i),
           \A f \in E : f[1] # x,
           \A k \in Kinds : Cardinality(OutsOf(dst, k, n)) <= Len(rf.free[k])
    PROVE  PlainLoop(PlainStep(s, i + 1, dst[i + 1]), rf, us, D, x, dst, n, E, place, i + 1)
<1> DEFINE j == i + 1
           l == dst[j]
           k == Kind(l)
           F == E \cup EntriesOf(x, PlainOuts(dst, i))
           G == E \cup EntriesOf(x, PlainOuts(dst, j))
           t == PlainStep(s, j, l)
<1>1. i \in Nat /\ j \in 1 .. n /\ j \in Nat /\ k \in Kinds /\ l \in Logical
  BY KindType DEF PlainLoop, LoopState
<1>2. LoopState(s, us, D, x, dst, n, F, place, {}) /\ DOMAIN s = {"rf", "out", "old"}
  BY DEF PlainLoop
<1>3. \A q \in Kinds : /\ Len(s.rf.free[q]) \in Nat
                       /\ s.rf.free[q] \in Seq(Physical(q))
                       /\ Len(s.rf.free[q]) + Cardinality(OutsOf(dst, q, i)) = Len(rf.free[q])
  BY DEF PlainLoop, LoopState, Books, FileTypes
<1>4. \A q : /\ Cardinality(OutsOf(dst, q, i)) \in Nat /\ Cardinality(OutsOf(dst, q, n)) \in Nat
             /\ Cardinality(OutsOf(dst, q, j)) = Cardinality(OutsOf(dst, q, i))
                    + (IF ~ IsFlag(l) /\ Kind(l) = q THEN 1 ELSE 0)
             /\ Cardinality(OutsOf(dst, q, j)) <= Cardinality(OutsOf(dst, q, n))
             /\ Cardinality(OutsOf(dst, q, j)) \in Nat
  <2>1. j <= n
    BY <1>1
  <2> QED BY <1>1, <2>1, OutsNext
<1>5. PlainOuts(dst, j) = IF IsFlag(l) THEN PlainOuts(dst, i) ELSE PlainOuts(dst, i) \cup {j}
  BY <1>1 DEF PlainOuts
<1>6. CASE IsFlag(l)
  <2>1. t = s /\ G = F
    BY <1>5, <1>6 DEF PlainStep
  <2>2. \A q \in Kinds :
            Len(s.rf.free[q]) + Cardinality(OutsOf(dst, q, j)) = Len(rf.free[q])
    BY <1>3, <1>4, <1>6
  <2> QED BY <1>2, <2>1, <2>2 DEF PlainLoop
<1>7. CASE ~ IsFlag(l)
  <2> DEFINE p == [s EXCEPT !.rf = Request(@, k)]
             r == Requested(s.rf, k)
  <2>1. s.rf.free[k] # <<>>
    <3> DEFINE a == Len(s.rf.free[k])
               b == Len(rf.free[k])
               c == Cardinality(OutsOf(dst, k, i))
               d == Cardinality(OutsOf(dst, k, j))
               e == Cardinality(OutsOf(dst, k, n))
    <3>1. /\ a \in Nat /\ a + c = b /\ c \in Nat /\ d = c + 1 /\ d <= e /\ e \in Nat /\ e <= b
      BY <1>1, <1>3, <1>4, <1>7
    <3>2. s.rf.free[k] = <<>> => a = 0
      OBVIOUS
    <3> HIDE DEF a, b, c, d, e
    <3> QED BY <3>1, <3>2
  <2>2. /\ LoopState(p, us, D, x, dst, n, F, place, {<<k, r>>})
        /\ p.out = s.out /\ StillPending(s.rf, p) /\ p.rf.top = s.rf.top
        /\ \A q \in Kinds : p.rf.free[q] = IF q = k THEN Front(s.rf.free[k]) ELSE s.rf.free[q]
        /\ Len(Front(s.rf.free[k])) = Len(s.rf.free[k]) - 1
        /\ r \in Physical(k)
        /\ \A f \in F : f[1] # x => ~ (KindIn(us, f) = k /\ New(us, f) = r)
    <3> DEFINE H == {<<k, r>>}
    <3>1. RequestsIn(s, k, p, r, H)
      BY <1>1, <1>2, <2>1 DEF RequestsIn
    <3>2. LoopState(s, us, D, x, dst, n, F, place, {})
      BY <1>2
    <3> HIDE DEF F, k, p, r, H
    <3>3. /\ LoopState(p, us, D, x, dst, n, F, place, H)
          /\ p.out = s.out /\ StillPending(s.rf, p) /\ p.rf.top = s.rf.top
          /\ \A q \in Kinds : p.rf.free[q] = IF q = k THEN Front(s.rf.free[k]) ELSE s.rf.free[q]
          /\ Len(Front(s.rf.free[k])) = Len(s.rf.free[k]) - 1 /\ Len(s.rf.free[k]) \in Nat
          /\ r \in Physical(k)
          /\ \A f \in F : f[1] # x => ~ (KindIn(us, f) = k /\ New(us, f) = r)
      BY ONLY <3>1, <3>2, RequestStep
    <3> QED BY <3>3 DEF H
  <2>3. t = Assign(p, j, l, r)
    BY <1>7 DEF PlainStep
  <2>4. <<x, j>> \notin F
    BY <1>1 DEF PlainOuts, EntriesOf
  <2>5. \A f \in F : f[1] = x /\ dst[f[2]] = l => f[2] < j
    <3> SUFFICES ASSUME NEW f \in F, f[1] = x PROVE f[2] < j
      OBVIOUS
    <3>1. PICK m \in PlainOuts(dst, i) : f = <<x, m>>
      BY DEF EntriesOf
    <3> QED BY <1>1, <3>1 DEF PlainOuts
  <2>6. G = F \cup {<<x, j>>}
    BY <1>5, <1>7 DEF EntriesOf
  <2>7. LoopState(t, us, D, x, dst, n, G, place, {})
        /\ StillPending(p.rf, t) /\ t.rf.free = p.rf.free /\ t.rf.top = p.rf.top
    <3> DEFINE H == {<<k, r>>}
               K == {}
    <3>1. Assigns(p, us, x, dst, n, F, H, j, l, r, t, G, K)
      <4>1. <<Kind(l), r>> \in H /\ K = H \ {<<Kind(l), r>>}
        OBVIOUS
      <4> HIDE DEF F, G, p, r, t, l, j, H, K
      <4> QED BY <1>1, <2>2, <2>3, <2>4, <2>5, <2>6, <4>1 DEF l, Assigns
    <3>2. LoopState(p, us, D, x, dst, n, F, place, H)
      BY <2>2
    <3> HIDE DEF F, G, p, r, t, k, l, j, H, K
    <3>3. /\ LoopState(t, us, D, x, dst, n, G, place, K)
          /\ StillPending(p.rf, t) /\ t.rf.free = p.rf.free /\ t.rf.top = p.rf.top
      BY ONLY <3>1, <3>2, AssignStep
    <3> QED BY <3>3 DEF K
  <2>9. StillPending(rf, t) /\ t.rf.top = rf.top /\ DOMAIN t = {"rf", "out", "old"}
    <3>1. DOMAIN t = {"rf", "out", "old"}
      BY <2>3 DEF Assign
    <3> HIDE DEF p, t
    <3> QED BY <2>2, <2>7, <3>1 DEF PlainLoop, StillPending
  <2>10. ASSUME NEW q \in Kinds
         PROVE  Len(t.rf.free[q]) + Cardinality(OutsOf(dst, q, j)) = Len(rf.free[q])
    <3>1. t.rf.free[q] = IF q = k THEN Front(s.rf.free[k]) ELSE s.rf.free[q]
      BY <2>2, <2>7
    <3>2. Cardinality(OutsOf(dst, q, j)) = Cardinality(OutsOf(dst, q, i))
                                                + (IF q = k THEN 1 ELSE 0)
          /\ Cardinality(OutsOf(dst, q, i)) \in Nat
      BY <1>4, <1>7
    <3>3. /\ Len(s.rf.free[q]) \in Nat
          /\ Len(s.rf.free[q]) + Cardinality(OutsOf(dst, q, i)) = Len(rf.free[q])
      BY <1>3
    <3>4. q = k => Len(t.rf.free[q]) = Len(s.rf.free[q]) - 1
      BY <2>2, <3>1
    <3>5. q # k => Len(t.rf.free[q]) = Len(s.rf.free[q])
      BY <3>1
    <3> HIDE DEF t, k, j
    <3>6. Cardinality(OutsOf(dst, q, i)) \in Nat /\ Len(s.rf.free[q]) \in Nat
      BY <3>2, <3>3
    <3>7. CASE q = k
      <4>1. Cardinality(OutsOf(dst, q, j)) = Cardinality(OutsOf(dst, q, i)) + 1
        BY <3>2, <3>7
      <4> DEFINE a == Len(t.rf.free[q])
                 b == Len(s.rf.free[q])
                 c == Cardinality(OutsOf(dst, q, i))
                 d == Cardinality(OutsOf(dst, q, j))
                 e == Len(rf.free[q])
      <4>2. a = b - 1
        BY <3>4, <3>7
      <4>3. b \in Nat /\ c \in Nat /\ b + c = e /\ d = c + 1
        BY <3>3, <3>6, <4>1
      <4> HIDE DEF a, b, c, d, e
      <4>4. a + d = e
        BY <4>2, <4>3
      <4> QED BY <4>4 DEF a, d, e
    <3>8. CASE q # k
      <4>1. Cardinality(OutsOf(dst, q, j)) = Cardinality(OutsOf(dst, q, i)) + 0
        BY <3>2, <3>8
      <4> QED BY ONLY <3>3, <3>5, <3>6, <3>8, <4>1
    <3> QED BY <3>7, <3>8
  <2> HIDE DEF t, G
  <2>11. PlainLoop(t, rf, us, D, x, dst, n, E, place, j)
    BY <2>7, <2>9, <2>10 DEF PlainLoop, G
  <2> QED BY <2>11 DEF t
<1> QED BY <1>6, <1>7

\* The flags among the first i outputs, and the register that is held for them.
FlagOuts(dst, i) == {j \in 1 .. i : IsFlag(dst[j])}
Held(own, r, dst, i) == IF own /\ FlagOuts(dst, i) = {} THEN {<<"int", r>>} ELSE {}

\* The flags may get register r.
Sharable(us, E, r) ==
    r \in Physical("int") /\ \A f \in E : ~ (KindIn(us, f) = "int" /\ New(us, f) = r)

FlagsLoop(s, rf, us, D, x, dst, n, E, place, r, own, i) ==
    /\ LoopState(s, us, D, x, dst, n,
                 E \cup EntriesOf(x, PlainOuts(dst, n)) \cup EntriesOf(x, FlagOuts(dst, i)),
                 place, Held(own, r, dst, i))
    /\ StillPending(rf, s) /\ s.rf.top = rf.top
    /\ FlagOuts(dst, n) # {} =>
            s.rf.busy["int"][r] > 0 \/ <<"int", r>> \in Held(own, r, dst, i)

LEMMA FlagsLoopStep ==
    ASSUME NEW s, NEW rf, NEW us, NEW D, NEW x, NEW dst, NEW n \in Nat, NEW E, NEW place, NEW r,
           NEW own \in BOOLEAN, NEW i \in 0 .. n - 1,
           FlagsLoop(s, rf, us, D, x, dst, n, E, place, r, own, i),
           \A f \in E : f[1] # x,
           FlagOuts(dst, n) # {} => Sharable(us, E, r)
    PROVE  FlagsLoop(FlagsStep(s, i + 1, dst[i + 1], r), rf, us, D, x, dst, n, E, place, r, own,
                     i + 1)
<1> DEFINE j == i + 1
           l == dst[j]
           F == E \cup EntriesOf(x, PlainOuts(dst, n)) \cup EntriesOf(x, FlagOuts(dst, i))
           G == E \cup EntriesOf(x, PlainOuts(dst, n)) \cup EntriesOf(x, FlagOuts(dst, j))
           t == FlagsStep(s, j, l, r)
           H == Held(own, r, dst, i)
           K == Held(own, r, dst, j)
<1>1. i \in Nat /\ j \in 1 .. n /\ j \in Nat /\ l \in Logical
  BY DEF FlagsLoop, LoopState
<1>2. LoopState(s, us, D, x, dst, n, F, place, H)
  BY DEF FlagsLoop
<1>3. FlagOuts(dst, j) = IF IsFlag(l) THEN FlagOuts(dst, i) \cup {j} ELSE FlagOuts(dst, i)
  BY <1>1 DEF FlagOuts
<1>4. CASE ~ IsFlag(l)
  <2>1. t = s /\ G = F /\ K = H
    BY <1>3, <1>4 DEF FlagsStep, Held
  <2> QED BY <1>2, <2>1 DEF FlagsLoop
<1>5. CASE IsFlag(l)
  <2>1. FlagOuts(dst, n) # {} /\ Sharable(us, E, r) /\ Kind(l) = "int"
    BY <1>1, <1>5, FlagKind DEF FlagOuts
  <2>2. t = Assign(s, j, l, r)
    BY <1>5 DEF FlagsStep
  <2>3. G = F \cup {<<x, j>>}
    BY <1>3, <1>5 DEF EntriesOf
  <2>4. K = {} /\ H \subseteq {<<"int", r>>}
    BY <1>3, <1>5 DEF Held
  <2>5. <<x, j>> \notin F
    BY <1>1, <1>5 DEF EntriesOf, FlagOuts, PlainOuts
  <2>6. \A f \in F : f[1] = x => f[2] < j \/ ~ IsFlag(dst[f[2]])
    <3> SUFFICES ASSUME NEW f \in F, f[1] = x PROVE f[2] < j \/ ~ IsFlag(dst[f[2]])
      OBVIOUS
    <3>1. f \in EntriesOf(x, PlainOuts(dst, n)) \/ f \in EntriesOf(x, FlagOuts(dst, i))
      OBVIOUS
    <3>2. CASE f \in EntriesOf(x, PlainOuts(dst, n))
      <4>1. PICK m \in PlainOuts(dst, n) : f = <<x, m>>
        BY <3>2 DEF EntriesOf
      <4> QED BY <4>1 DEF PlainOuts
    <3>3. CASE f \in EntriesOf(x, FlagOuts(dst, i))
      <4>1. PICK m \in FlagOuts(dst, i) : f = <<x, m>>
        BY <3>3 DEF EntriesOf
      <4> QED BY <1>1, <4>1 DEF FlagOuts
    <3> QED BY <3>1, <3>2, <3>3
  <2>7. \A f \in F : f[1] # x => f \in E
    <3> SUFFICES ASSUME NEW f \in F, f \notin E PROVE f[1] = x
      OBVIOUS
    <3> QED BY DEF EntriesOf
  <2>8. Assigns(s, us, x, dst, n, F, H, j, l, r, t, G, K)
    <3>1. r \in Physical(Kind(l)) /\ (s.rf.busy[Kind(l)][r] > 0 \/ <<Kind(l), r>> \in H)
      BY <2>1 DEF FlagsLoop, Sharable
    <3>2. \A f \in F : f[1] = x /\ dst[f[2]] = l => f[2] < j
      BY <1>5, <2>6
    <3>3. \A f \in F : f[1] # x => ~ (KindIn(us, f) = Kind(l) /\ New(us, f) = r)
      BY <2>1, <2>7 DEF Sharable
    <3>4. K = H \ {<<Kind(l), r>>}
      BY <2>1, <2>4
    <3> HIDE DEF F, G, H, K, t, l, j
    <3> QED BY <1>1, <2>2, <2>3, <2>5, <3>1, <3>2, <3>3, <3>4 DEF l, Assigns
  <2>9. /\ LoopState(t, us, D, x, dst, n, G, place, K)
        /\ StillPending(s.rf, t) /\ t.rf.free = s.rf.free /\ t.rf.top = s.rf.top
        /\ t.rf.busy[Kind(l)][r] > 0
        /\ t.out[j] = r /\ \A m \in 1 .. n : m # j => t.out[m] = s.out[m]
    <3> HIDE DEF F, G, H, K, t, l, j
    <3> QED BY ONLY <1>2, <2>8, AssignStep
  <2>10. StillPending(rf, t) /\ t.rf.top = rf.top
    <3> HIDE DEF t
    <3> QED BY <2>9 DEF FlagsLoop, StillPending
  <2>11. t.rf.busy["int"][r] > 0
    BY <2>1, <2>9
  <2> HIDE DEF t, G, K
  <2>12. FlagsLoop(t, rf, us, D, x, dst, n, E, place, r, own, j)
    BY <2>9, <2>10, <2>11 DEF FlagsLoop, G, K
  <2> QED BY <2>12 DEF t
<1> QED BY <1>4, <1>5

\* Both loops, from their first states.
LEMMA PlainLoopEnd ==
    ASSUME NEW rf, NEW us, NEW D, NEW x \in D, NEW dst, NEW n \in Nat, NEW E, NEW place,
           Books(rf, us, E, place, {}), Len(dst) = n, DOMAIN dst = 1 .. n,
           \A i \in 1 .. n : dst[i] \in Logical, place[x] \in Nat,
           \A f \in E : f[1] \in D /\ f[1] # x /\ place[f[1]] < place[x],
           \A k \in Kinds : Cardinality(OutsOf(dst, k, n)) <= Len(rf.free[k])
    PROVE  PlainLoop(PlainRenamed(rf, dst)[n], rf, us, D, x, dst, n, E, place, n)
<1> DEFINE T == PlainRenamed(rf, dst)
           a == [rf |-> rf, out |-> [i \in DOMAIN dst |-> -1], old |-> [i \in DOMAIN dst |-> -1]]
           S == {i \in 0 .. n : PlainLoop(T[i], rf, us, D, x, dst, n, E, place, i)}
<1>1. T[0] = a /\ \A i \in 1 .. n : T[i] = PlainStep(T[i - 1], i, dst[i])
  BY PlainIs
<1> HIDE DEF T
<1>2. PlainLoop(a, rf, us, D, x, dst, n, E, place, 0)
  <2>1. PlainOuts(dst, 0) = {} /\ \A k : OutsOf(dst, k, 0) = {}
    BY DEF PlainOuts, OutsOf
  <2>2. E \cup EntriesOf(x, PlainOuts(dst, 0)) = E
    BY <2>1 DEF EntriesOf
  <2>3. a.rf = rf /\ a.out \in [1 .. n -> Int] /\ a.old \in [1 .. n -> Int]
        /\ DOMAIN a = {"rf", "out", "old"}
    OBVIOUS
  <2> DEFINE gs == Given(us, D, x, a, dst)
  <2>4. Agree(us, gs, E)
    <3>1. \A f \in E : gs[f[1]] = us[f[1]]
      BY DEF Given
    <3> HIDE DEF gs
    <3> QED BY <3>1 DEF Agree, Dst, New, Old, IsDone
  <2>5. Books(rf, gs, E, place, {})
    <3>1. SameOrder(E, place, place) /\ \A e \in E : place[e[1]] \in Nat
      BY DEF SameOrder, Books, EntryTypes
    <3> HIDE DEF gs
    <3> QED BY <2>4, <3>1, BooksSame
  <2>6. \A k \in Kinds : Len(rf.free[k]) + Cardinality(OutsOf(dst, k, 0)) = Len(rf.free[k])
    <3>1. Cardinality({}) = 0
      BY FS_EmptySet
    <3>2. \A k \in Kinds : Len(rf.free[k]) \in Nat
      BY DEF Books, FileTypes
    <3> SUFFICES ASSUME NEW k \in Kinds
                 PROVE  Len(rf.free[k]) + Cardinality(OutsOf(dst, k, 0)) = Len(rf.free[k])
      OBVIOUS
    <3>3. OutsOf(dst, k, 0) = {}
      BY <2>1
    <3>4. Cardinality(OutsOf(dst, k, 0)) = 0
      BY <3>1, <3>3
    <3> QED BY <3>2, <3>4
  <2>7. StillPending(rf, a)
    BY <2>3 DEF StillPending
  <2> HIDE DEF a
  <2>8. LoopState(a, us, D, x, dst, n, E, place, {})
    BY <2>3, <2>5 DEF LoopState
  <2> QED BY <2>2, <2>3, <2>6, <2>7, <2>8 DEF PlainLoop
<1>3. 0 \in S
  BY <1>1, <1>2
<1>4. ASSUME NEW i \in 0 .. n - 1, i \in S
      PROVE  i + 1 \in S
  <2>1. T[i + 1] = PlainStep(T[i], i + 1, dst[i + 1])
    <3>1. i + 1 \in 1 .. n /\ (i + 1) - 1 = i
      OBVIOUS
    <3> QED BY <1>1, <3>1
  <2>2. PlainLoop(T[i], rf, us, D, x, dst, n, E, place, i)
    BY <1>4
  <2> DEFINE s == T[i]
  <2>3. PlainLoop(PlainStep(s, i + 1, dst[i + 1]), rf, us, D, x, dst, n, E, place, i + 1)
    <3>1. PlainLoop(s, rf, us, D, x, dst, n, E, place, i)
      BY <2>2
    <3>2. \A f \in E : f[1] # x
      OBVIOUS
    <3> HIDE DEF s
    <3> QED BY <3>1, <3>2, PlainLoopStep
  <2>4. i + 1 \in 0 .. n
    OBVIOUS
  <2> QED BY <2>1, <2>3, <2>4
<1>5. n \in S
  <2>1. \A i \in 0 .. n - 1 : i \in S => i + 1 \in S
    BY <1>4
  <2> HIDE DEF S
  <2>2. \A i \in 0 .. n : i \in S
    BY <1>3, <2>1, UpTo
  <2> QED BY <2>2
<1> QED BY <1>5 DEF T

LEMMA FlagsLoopEnd ==
    ASSUME NEW p, NEW rf, NEW us, NEW D, NEW x, NEW dst, NEW n \in Nat, NEW E, NEW place, NEW r,
           NEW own \in BOOLEAN, FlagsLoop(p, rf, us, D, x, dst, n, E, place, r, own, 0),
           Len(dst) = n, \A f \in E : f[1] # x,
           FlagOuts(dst, n) # {} => Sharable(us, E, r)
    PROVE  FlagsLoop(FlagsRenamed(p, dst, r)[n], rf, us, D, x, dst, n, E, place, r, own, n)
<1> DEFINE T == FlagsRenamed(p, dst, r)
           S == {i \in 0 .. n : FlagsLoop(T[i], rf, us, D, x, dst, n, E, place, r, own, i)}
<1>1. T[0] = p /\ \A i \in 1 .. n : T[i] = FlagsStep(T[i - 1], i, dst[i], r)
  BY FlagsIs
<1> HIDE DEF T
<1>3. 0 \in S
  BY <1>1
<1>4. ASSUME NEW i \in 0 .. n - 1, i \in S
      PROVE  i + 1 \in S
  <2>1. T[i + 1] = FlagsStep(T[i], i + 1, dst[i + 1], r)
    <3>1. i + 1 \in 1 .. n /\ (i + 1) - 1 = i
      OBVIOUS
    <3> QED BY <1>1, <3>1
  <2>2. FlagsLoop(T[i], rf, us, D, x, dst, n, E, place, r, own, i)
    BY <1>4
  <2> DEFINE s == T[i]
  <2>3. FlagsLoop(FlagsStep(s, i + 1, dst[i + 1], r), rf, us, D, x, dst, n, E, place, r, own,
                  i + 1)
    <3>1. FlagsLoop(s, rf, us, D, x, dst, n, E, place, r, own, i)
      BY <2>2
    <3> HIDE DEF s
    <3> QED BY <3>1, FlagsLoopStep
  <2>4. i + 1 \in 0 .. n
    OBVIOUS
  <2> QED BY <2>1, <2>3, <2>4
<1>5. n \in S
  <2>1. \A i \in 0 .. n - 1 : i \in S => i + 1 \in S
    BY <1>4
  <2> HIDE DEF S
  <2>2. \A i \in 0 .. n : i \in S
    BY <1>3, <2>1, UpTo
  <2> QED BY <2>2
<1> QED BY <1>5 DEF T
-----------------------------------------------------------------------------
(***************************************************************************)
(* Renaming.                                                               *)
(***************************************************************************)
\* Instruction inst of uop x, younger than all others, can be renamed.
Renames(rf, us, D, x, E, place, inst) ==
    /\ Books(rf, us, E, place, {}) /\ canRename(rf, inst) /\ inst.out \in Seq(Logical)
    /\ x \in D /\ place[x] \in Nat
    /\ \A f \in E : f[1] \in D /\ f[1] # x /\ place[f[1]] < place[x]

\* CountDependencies asks for a register for each output, and for one when there are flags only.
LEMMA EnoughRegisters ==
    ASSUME NEW rf, NEW inst, canRename(rf, inst), NEW dst, NEW n \in Nat,
           DOMAIN inst.out = 1 .. n, \A k \in Kinds : Len(rf.free[k]) \in Nat,
           \A i \in 1 .. n : /\ Kind(dst[i]) = Kind(inst.out[i])
                             /\ IsFlag(dst[i]) <=> IsFlag(inst.out[i])
                             /\ IsFlag(dst[i]) => Kind(dst[i]) = "int"
    PROVE  /\ \A k \in Kinds : Cardinality(OutsOf(dst, k, n)) <= Len(rf.free[k])
           /\ OutsOf(dst, "int", n) = {} /\ FlagOuts(dst, n) # {} => Len(rf.free["int"]) >= 1
<1> DEFINE outs(k) == {i \in DOMAIN inst.out : Kind(inst.out[i]) = k}
           plain(k) == {i \in outs(k) : ~ IsFlag(inst.out[i])}
<1>1. ASSUME NEW k \in Kinds
      PROVE  /\ plain(k) = OutsOf(dst, k, n)
             /\ (IF outs(k) # {} /\ plain(k) = {} THEN 1 ELSE Cardinality(plain(k)))
                    <= Len(rf.free[k])
  <2>1. plain(k) = OutsOf(dst, k, n)
    BY DEF OutsOf, PlainOuts
  <2>2. NumOutputs(inst, k) = IF outs(k) # {} /\ plain(k) = {} THEN 1 ELSE Cardinality(plain(k))
    BY DEF NumOutputs
  <2>3. NumOutputs(inst, k) <= Len(rf.free[k])
    BY DEF canRename
  <2> QED BY <2>1, <2>2, <2>3
<1>2. Cardinality({}) = 0
  BY FS_EmptySet
<1>3. ASSUME NEW k \in Kinds
      PROVE  Cardinality(OutsOf(dst, k, n)) <= Len(rf.free[k])
  <2> HIDE DEF plain, outs
  <2>1. CASE plain(k) = {}
    <3>1. Cardinality(OutsOf(dst, k, n)) = 0
      BY <1>1, <1>2, <2>1
    <3> QED BY <3>1
  <2>2. CASE plain(k) # {}
    BY <1>1, <2>2
  <2> QED BY <2>1, <2>2
<1>4. ASSUME OutsOf(dst, "int", n) = {}, FlagOuts(dst, n) # {}
      PROVE  Len(rf.free["int"]) >= 1
  <2>1. "int" \in Kinds
    BY DEF Kinds
  <2>2. outs("int") # {}
    BY <1>4 DEF FlagOuts
  <2> HIDE DEF plain, outs
  <2> QED BY <1>1, <1>4, <2>1, <2>2
<1> QED BY <1>3, <1>4

\* The flags share the register of an integer output.
LEMMA SharedRegister ==
    ASSUME NEW p, NEW rf, NEW us, NEW D, NEW x, NEW dst, NEW n \in Nat, NEW E, NEW place,
           PlainLoop(p, rf, us, D, x, dst, n, E, place, n), \A f \in E : f[1] # x,
           NEW j \in OutsOf(dst, "int", n)
    PROVE  Sharable(us, E, p.out[j]) /\ p.rf.busy["int"][p.out[j]] > 0
<1> DEFINE F == E \cup EntriesOf(x, PlainOuts(dst, n))
           gs == Given(us, D, x, p, dst)
           e == <<x, j>>
<1>1. j \in PlainOuts(dst, n) /\ Kind(dst[j]) = "int"
  BY DEF OutsOf
<1>2. e \in F
  BY <1>1 DEF EntriesOf
<1>3. /\ Books(p.rf, gs, F, place, {}) /\ x \in D
      /\ \A f \in F : f[1] \in D
  BY DEF PlainLoop, LoopState
<1>4. KindIn(gs, e) = "int" /\ New(gs, e) = p.out[j]
  BY <1>1, <1>3 DEF KindIn, Dst, New, Given
<1>5. \A f \in E : f \in F /\ KindIn(gs, f) = KindIn(us, f) /\ New(gs, f) = New(us, f)
  BY <1>3 DEF KindIn, Dst, New, Given
<1> HIDE DEF F, gs
<1>6. p.rf.busy["int"][p.out[j]] > 0
  BY <1>2, <1>3, <1>4, OwnerIsBusy DEF Books
<1>7. p.out[j] \in Physical("int")
  BY <1>2, <1>3, <1>4 DEF Books, EntryTypes
<1>8. ASSUME NEW f \in E, KindIn(us, f) = "int", New(us, f) = p.out[j]
      PROVE  FALSE
  <2>1. f \in F /\ e \in F /\ KindIn(gs, f) = KindIn(gs, e) /\ New(gs, f) = New(gs, e)
    BY <1>2, <1>4, <1>5, <1>8
  <2>2. f[1] = e[1]
    BY <1>3, <2>1 DEF Books, Owned
  <2> QED BY <2>2
<1> QED BY <1>6, <1>7, <1>8 DEF Sharable

\* The flags have a register of their own.
LEMMA OwnRegister ==
    ASSUME NEW p, NEW rf, NEW us, NEW D, NEW x, NEW dst, NEW n \in Nat, NEW E, NEW place,
           PlainLoop(p, rf, us, D, x, dst, n, E, place, n), \A f \in E : f[1] # x,
           p.rf.free["int"] # <<>>, NEW first, first = [p EXCEPT !.rf = Request(@, "int")],
           NEW r, r = Requested(p.rf, "int")
    PROVE  FlagsLoop(first, rf, us, D, x, dst, n, E, place, r, TRUE, 0) /\ Sharable(us, E, r)
<1> DEFINE F == E \cup EntriesOf(x, PlainOuts(dst, n))
           H == {<<"int", r>>}
<1>1. FlagOuts(dst, 0) = {}
  BY DEF FlagOuts
<1>2. Held(TRUE, r, dst, 0) = H
  BY <1>1 DEF Held
<1>3. F = E \cup EntriesOf(x, PlainOuts(dst, n)) \cup EntriesOf(x, FlagOuts(dst, 0))
  BY <1>1 DEF EntriesOf
<1>4. LoopState(p, us, D, x, dst, n, F, place, {}) /\ StillPending(rf, p) /\ p.rf.top = rf.top
  BY DEF PlainLoop
<1>5. RequestsIn(p, "int", first, r, H)
  BY DEF RequestsIn, PlainLoop, Kinds
<1> HIDE DEF F, H
<1>6. /\ LoopState(first, us, D, x, dst, n, F, place, H)
      /\ StillPending(p.rf, first) /\ first.rf.top = p.rf.top
      /\ r \in Physical("int")
      /\ \A f \in F : f[1] # x => ~ (KindIn(us, f) = "int" /\ New(us, f) = r)
  BY ONLY <1>4, <1>5, RequestStep
<1>7. StillPending(rf, first) /\ first.rf.top = rf.top
  BY <1>4, <1>6 DEF StillPending
<1>8. Sharable(us, E, r)
  BY <1>6 DEF Sharable, F
<1>9. <<"int", r>> \in H
  BY DEF H
<1> QED BY <1>2, <1>3, <1>6, <1>7, <1>8, <1>9 DEF FlagsLoop

\* The result of renaming: R, the top of the stack, the uops gs and the entries G.
Renaming(rf, us, D, x, E, inst, R, n, top, gs, G) ==
    /\ R = Rename(rf, inst) /\ n = Len(inst.out) /\ top = TopAfter(rf.top, inst.op)
    /\ gs = Given(us, D, x, R, R.dst) /\ G = E \cup EntriesOf(x, 1 .. n)

LEMMA RenameBooks ==
    ASSUME NEW rf, NEW us, NEW D, NEW x, NEW E, NEW place, NEW inst,
           Renames(rf, us, D, x, E, place, inst), NEW R, NEW n, NEW top, NEW gs, NEW G,
           Renaming(rf, us, D, x, E, inst, R, n, top, gs, G)
    PROVE  /\ R.out \in [1 .. n -> Int] /\ R.old \in [1 .. n -> Int] /\ DOMAIN R.dst = 1 .. n
           /\ \A i \in 1 .. n : R.dst[i] = RelativeTo(top, inst.out[i])
           /\ Books(R.rf, gs, G, place, {})
           /\ R.rf.top = top /\ StillPending(rf, R)
           /\ \A i \in 1 .. n : R.rf.pending[Kind(R.dst[i])][R.out[i]]
<1>0. /\ R = Rename(rf, inst) /\ n = Len(inst.out) /\ top = TopAfter(rf.top, inst.op)
      /\ gs = Given(us, D, x, R, R.dst) /\ G = E \cup EntriesOf(x, 1 .. n)
  BY DEF Renaming
<1> DEFINE start == Turned(rf, inst.op)
           dst == [i \in DOMAIN inst.out |-> Relative(start, inst.out[i])]
           p == PlainRenamed(start, dst)[Len(dst)]
           ints == {i \in DOMAIN dst : Kind(dst[i]) = "int" /\ ~ IsFlag(dst[i])}
           own == ints = {} /\ \E i \in DOMAIN dst : IsFlag(dst[i])
           r == IF own THEN Requested(p.rf, "int")
                ELSE p.out[CHOOSE i \in ints : \A j \in ints : i <= j]
           first == IF own THEN [p EXCEPT !.rf = Request(@, "int")] ELSE p
           done == FlagsRenamed(first, dst, r)[Len(dst)]
<1>1. R.rf = done.rf /\ R.out = done.out /\ R.old = done.old /\ R.dst = dst
  BY <1>0 DEF Rename
<1>2. /\ n \in Nat /\ DOMAIN inst.out = 1 .. n /\ \A i \in 1 .. n : inst.out[i] \in Logical
      /\ Books(rf, us, E, place, {}) /\ canRename(rf, inst) /\ x \in D /\ place[x] \in Nat
      /\ \A f \in E : f[1] \in D /\ f[1] # x /\ place[f[1]] < place[x]
  BY <1>0 DEF Renames
<1>3. /\ Books(start, us, E, place, {}) /\ start.pending = rf.pending /\ start.free = rf.free
      /\ start.top = top /\ top \in 0 .. StackSize - 1
  <2>1. /\ Books(start, us, E, place, {})
        /\ start.pending = rf.pending /\ start.free = rf.free /\ start.top = top
    BY <1>0, <1>2, TurnedBooks
  <2>2. rf.top \in 0 .. StackSize - 1
    BY <1>2 DEF Books, FileTypes
  <2>3. top \in 0 .. StackSize - 1
    BY <1>0, <2>2, TopType
  <2> QED BY <2>1, <2>3
<1> HIDE DEF start
<1>4. DOMAIN dst = 1 .. n /\ \A i \in 1 .. n : dst[i] = RelativeTo(top, inst.out[i])
  BY <1>2, <1>3, RelativeIs
<1>5. Len(dst) = n
  <2>1. dst \in Seq({dst[i] : i \in 1 .. n})
    BY <1>2
  <2> QED BY <1>2, <2>1
<1> HIDE DEF dst
<1>6. \A i \in 1 .. n : /\ dst[i] \in Logical /\ Kind(dst[i]) = Kind(inst.out[i])
                        /\ IsFlag(dst[i]) <=> IsFlag(inst.out[i])
                        /\ IsFlag(dst[i]) => Kind(dst[i]) = "int"
  BY <1>2, <1>3, <1>4, RelativeKind, FlagKind
<1>7. /\ \A k \in Kinds : Cardinality(OutsOf(dst, k, n)) <= Len(start.free[k])
      /\ OutsOf(dst, "int", n) = {} /\ FlagOuts(dst, n) # {} => Len(start.free["int"]) >= 1
      /\ \A k \in Kinds : Len(start.free[k]) \in Nat
  <2>1. \A k \in Kinds : Len(rf.free[k]) \in Nat
    BY <1>2 DEF Books, FileTypes
  <2> QED BY <1>2, <1>3, <1>6, <2>1, EnoughRegisters
<1>8. PlainLoop(p, start, us, D, x, dst, n, E, place, n)
  <2>1. PlainLoop(PlainRenamed(start, dst)[n], start, us, D, x, dst, n, E, place, n)
    BY <1>2, <1>3, <1>4, <1>5, <1>6, <1>7, PlainLoopEnd
  <2> QED BY <1>5, <2>1
<1> HIDE DEF p
<1>9. ints = OutsOf(dst, "int", n) /\ (own <=> ints = {} /\ FlagOuts(dst, n) # {})
  BY <1>4 DEF OutsOf, PlainOuts, FlagOuts
<1>10. /\ FlagsLoop(first, start, us, D, x, dst, n, E, place, r, own, 0)
       /\ FlagOuts(dst, n) # {} => Sharable(us, E, r)
  <2>1. CASE own
    <3>1. r = Requested(p.rf, "int") /\ first = [p EXCEPT !.rf = Request(@, "int")]
      BY <2>1
    <3>2. p.rf.free["int"] # <<>>
      <4>1. Len(p.rf.free["int"]) + Cardinality(OutsOf(dst, "int", n)) = Len(start.free["int"])
        BY <1>8 DEF PlainLoop, Kinds
      <4>2. OutsOf(dst, "int", n) = {} /\ FlagOuts(dst, n) # {}
        BY <1>9, <2>1
      <4>3. Cardinality(OutsOf(dst, "int", n)) = 0
        BY <4>2, FS_EmptySet
      <4>4. Len(start.free["int"]) >= 1 /\ Len(start.free["int"]) \in Nat
        BY <1>7, <4>2 DEF Kinds
      <4>5. Len(p.rf.free["int"]) \in Nat
        <5>1. FileTypes(p.rf)
          BY <1>8 DEF PlainLoop, LoopState, Books
        <5> QED BY <5>1 DEF FileTypes, Kinds
      <4>6. Len(p.rf.free["int"]) # 0
        BY <4>1, <4>3, <4>4, <4>5
      <4> QED BY <4>6
    <3> HIDE DEF r, first
    <3>3. FlagsLoop(first, start, us, D, x, dst, n, E, place, r, TRUE, 0) /\ Sharable(us, E, r)
      BY <1>2, <1>8, <3>1, <3>2, OwnRegister
    <3>4. own = TRUE
      BY <2>1
    <3> HIDE DEF own
    <3> QED BY <3>3, <3>4
  <2>2. CASE ~ own
    <3>1. r = p.out[CHOOSE i \in ints : \A j \in ints : i <= j] /\ first = p
      BY <2>2
    <3>2. FlagOuts(dst, n) # {} => Sharable(us, E, r) /\ p.rf.busy["int"][r] > 0
      <4> SUFFICES ASSUME FlagOuts(dst, n) # {}
                   PROVE  Sharable(us, E, r) /\ p.rf.busy["int"][r] > 0
        OBVIOUS
      <4>1. ints # {} /\ ints \subseteq Nat
        BY <1>2, <1>4, <1>9, <2>2
      <4> DEFINE j0 == CHOOSE i \in ints : \A j \in ints : i <= j
      <4>2. j0 \in ints
        <5>1. \E i \in ints : \A j \in ints : i <= j
          <6> DEFINE q == [i \in ints |-> i]
          <6>1. q \in [ints -> Nat] /\ \A i \in ints : q[i] = i
            BY <4>1
          <6> HIDE DEF q, ints
          <6>2. \E i \in ints : \A j \in ints : q[i] <= q[j]
            BY <4>1, <6>1, LeastExists
          <6> QED BY <6>1, <6>2
        <5> QED BY <5>1
      <4>3. j0 \in OutsOf(dst, "int", n)
        BY <1>9, <4>2
      <4> HIDE DEF j0
      <4>4. Sharable(us, E, p.out[j0]) /\ p.rf.busy["int"][p.out[j0]] > 0
        BY <1>2, <1>8, <4>3, SharedRegister
      <4>5. r = p.out[j0]
        BY <3>1 DEF j0
      <4> HIDE DEF r
      <4> QED BY <4>4, <4>5
    <3>3. FlagOuts(dst, 0) = {}
      BY DEF FlagOuts
    <3>4. Held(own, r, dst, 0) = {}
      BY <2>2 DEF Held
    <3> DEFINE F == E \cup EntriesOf(x, PlainOuts(dst, n))
    <3>5. F = F \cup EntriesOf(x, FlagOuts(dst, 0))
      BY <3>3 DEF EntriesOf
    <3> HIDE DEF r, first, own, F
    <3>6. LoopState(first, us, D, x, dst, n, F, place, {}) /\ StillPending(start, first)
          /\ first.rf.top = start.top
      BY <1>8, <3>1 DEF PlainLoop, F
    <3>7. LoopState(first, us, D, x, dst, n, F \cup EntriesOf(x, FlagOuts(dst, 0)), place,
                    Held(own, r, dst, 0))
      BY <3>4, <3>5, <3>6
    <3> QED BY <3>1, <3>2, <3>6, <3>7 DEF FlagsLoop, F
  <2> QED BY <2>1, <2>2
<1>11. own \in BOOLEAN
  OBVIOUS
<1> HIDE DEF r, first, own
<1>12. FlagsLoop(done, start, us, D, x, dst, n, E, place, r, own, n)
  <2>1. FlagsLoop(FlagsRenamed(first, dst, r)[n], start, us, D, x, dst, n, E, place, r, own, n)
    BY <1>2, <1>5, <1>10, <1>11, FlagsLoopEnd
  <2> QED BY <1>5, <2>1
<1> HIDE DEF done
<1>13. E \cup EntriesOf(x, PlainOuts(dst, n)) \cup EntriesOf(x, FlagOuts(dst, n))
            = E \cup EntriesOf(x, 1 .. n)
  <2>1. PlainOuts(dst, n) \cup FlagOuts(dst, n) = 1 .. n
    BY DEF PlainOuts, FlagOuts
  <2> QED BY <2>1 DEF EntriesOf
<1>14. Held(own, r, dst, n) = {}
  BY <1>9 DEF Held, own
<1>15. LoopState(done, us, D, x, dst, n, E \cup EntriesOf(x, 1 .. n), place, {})
       /\ StillPending(start, done) /\ done.rf.top = start.top
  BY <1>12, <1>13, <1>14 DEF FlagsLoop
<1>16. Given(us, D, x, R, R.dst) = Given(us, D, x, done, dst)
  BY <1>1 DEF Given
<1>17. \A i \in 1 .. n : done.rf.pending[Kind(dst[i])][done.out[i]]
  <2> SUFFICES ASSUME NEW i \in 1 .. n PROVE done.rf.pending[Kind(dst[i])][done.out[i]]
    OBVIOUS
  <2>1. <<x, i>> \in E \cup EntriesOf(x, 1 .. n)
    BY DEF EntriesOf
  <2> QED BY <1>15, <2>1 DEF LoopState
<1>18. StillPending(rf, R)
  BY <1>1, <1>3, <1>15 DEF StillPending
<1>19. Books(R.rf, gs, G, place, {})
  BY <1>0, <1>1, <1>15, <1>16 DEF LoopState
<1> QED BY <1>1, <1>3, <1>4, <1>15, <1>17, <1>18, <1>19 DEF LoopState
=============================================================================
