------------------------- MODULE ComputeUnit_proof -------------------------
(***************************************************************************)
(* Proofs about the compute unit, for every kernel, every hint file that   *)
(* satisfies HintAssumption, every number of wavefronts and slots.         *)
(***************************************************************************)
EXTENDS ComputeUnit, SeqLemmas, WellFoundedInduction, TLAPS

-----------------------------------------------------------------------------
(***************************************************************************)
(* Lemmas about the operators of ComputeUnit.                              *)
(***************************************************************************)
\* The scan of the speculation buffer ends at one of its uops, none of the
\* others being older.
LEMMA OldestExists ==
    ASSUME NEW q \in Seq(PCs), q # <<>>
    PROVE  /\ Oldest(q) \in DOMAIN q
           /\ \A j \in DOMAIN q : q[Oldest(q)] <= q[j]
<1> DEFINE T == {q[i] : i \in DOMAIN q}
           R == OpToRel(<, Nat)
<1>1. T \subseteq Nat /\ T # {}
  <2>1. DOMAIN q = 1 .. Len(q) /\ Len(q) \in Nat /\ Len(q) # 0
    OBVIOUS
  <2>2. \A i \in DOMAIN q : q[i] \in PCs
    BY <2>1
  <2>3. PCs \subseteq Nat
    BY KernelAssumption DEF PCs
  <2>4. 1 \in DOMAIN q
    BY <2>1
  <2> QED  BY <2>2, <2>3, <2>4
<1>2. IsWellFoundedOn(R, Nat)
  BY NatLessThanWellFounded
<1>3. PICK x \in T : \A y \in T : ~ (<<y, x>> \in R)
  <2> HIDE DEF T, R
  <2> QED  BY <1>1, <1>2, WFMin
<1>4. \A y \in T : x <= y
  <2> HIDE DEF T
  <2> SUFFICES ASSUME NEW y \in T, ~ (x <= y)
               PROVE  FALSE
    OBVIOUS
  <2>1. x \in Nat /\ y \in Nat /\ y < x
    BY <1>1
  <2>2. <<y, x>> \in R
    BY <2>1 DEF OpToRel
  <2> QED  BY <1>3, <2>2
<1>5. PICK i \in DOMAIN q : x = q[i]
  BY <1>3
<1>6. \A j \in DOMAIN q : q[i] <= q[j]
  BY <1>4, <1>5
<1> QED  BY <1>6 DEF Oldest

\* Taking a uop out of an entry leaves a sequence of uops.
LEMMA RemoveAtType ==
    ASSUME NEW S, NEW q \in Seq(S), NEW i \in DOMAIN q
    PROVE  RemoveAt(q, i) \in Seq(S)
<1>1. SubSeq(q, 1, i - 1) \in Seq(S)
  OBVIOUS
<1>2. SubSeq(q, i + 1, Len(q)) \in Seq(S)
  OBVIOUS
<1> QED  BY <1>1, <1>2 DEF RemoveAt

\* A function on 1 .. n is a sequence.
LEMMA SequenceOf ==
    ASSUME NEW S, NEW n \in Nat, NEW f \in [1 .. n -> S]
    PROVE  f \in Seq(S)
  OBVIOUS

\* A hint leads to an integer, and never to the last instruction.
LEMMA HintTargetBefore ==
    ASSUME TypeOK, NEW w \in Wavefronts
    PROVE  HintTarget(w) \in Int /\ HintTarget(w) < Last
<1> USE KernelAssumption, HintAssumption
<1>1. preFetchPc[w] \in Int
  BY DEF TypeOK
<1>2. Last \in Nat \ {0}
  OBVIOUS
<1>3. CASE preFetchPc[w] \in DOMAIN Hints
  BY <1>1, <1>2, <1>3 DEF HintTarget, PCs
<1>4. CASE preFetchPc[w] \notin DOMAIN Hints
  BY <1>2, <1>4 DEF HintTarget
<1> QED  BY <1>3, <1>4

\* Every uop has an execution unit.
LEMMA UnitOfType == \A k \in Kinds : UnitOf(k) \in Units
  BY DEF Kinds, UnitOf, Units

\* Every instruction of the kernel has an execution unit.
LEMMA ProgramType == \A p \in PCs : Program[p] \in Kinds /\ UnitOf(Program[p]) \in Units
  BY KernelAssumption, UnitOfType DEF PCs, Last

-----------------------------------------------------------------------------
(***************************************************************************)
(* Type correctness: one lemma per group of actions, one step per action.  *)
(***************************************************************************)
\* Every outcome of a visit of Fetch keeps the types.
LEMMA FetchType ==
    ASSUME TypeOK, NEW w \in Wavefronts, Fetch(w)
    PROVE  TypeOK'
<1> USE DEF TypeOK, flags, group
<1>0. Last \in Nat \ {0} /\ pc[w] \in 1 .. Last + 1
  BY KernelAssumption
<1>1. CASE FetchNew(w)
  <2>1. pc[w] \in PCs /\ pc[w] + 1 \in 1 .. Last + 1
    BY <1>0, <1>1 DEF FetchNew, CanFetch, Finished, PCs
  <2>2. Append(fetchBuf[w], pc[w]) \in Seq(PCs) /\ pc[w] \in Int
    BY <1>0, <2>1
  <2> QED  BY <1>1, <2>1, <2>2 DEF FetchNew
<1>2. CASE FetchPreExecuted(w)
  <2>1. Head(preBuf[w]) \in PCs /\ Tail(preBuf[w]) \in Seq(PCs)
    BY <1>2 DEF FetchPreExecuted
  <2>2. Append(fetchBuf[w], Head(preBuf[w])) \in Seq(PCs)
    BY <2>1
  <2>3. /\ fetchBuf' = [fetchBuf EXCEPT ![w] = Append(@, Head(preBuf[w]))]
        /\ preBuf' = [preBuf EXCEPT ![w] = Tail(@)]
        /\ inflight' = inflight + 1
        /\ UNCHANGED <<pc, specBuf, preFetchPc, hinted, flags, group, lgkm, units,
                       completed>>
    BY <1>2 DEF FetchPreExecuted
  <2> QED  BY <2>1, <2>2, <2>3
<1>3. CASE FetchSpeculated(w)
  <2>1. specBuf[w] \in Seq(PCs) /\ specBuf[w] # <<>>
    BY <1>3 DEF FetchSpeculated
  <2>2. Oldest(specBuf[w]) \in DOMAIN specBuf[w]
    BY <2>1, OldestExists
  <2>3. RemoveAt(specBuf[w], Oldest(specBuf[w])) \in Seq(PCs)
    BY <2>1, <2>2, RemoveAtType
  <2>4. specBuf[w][Oldest(specBuf[w])] \in PCs
    BY <2>1, <2>2
  <2> QED  BY <1>3, <2>3, <2>4 DEF FetchSpeculated
<1>4. PutAside(w) \in Seq(PCs) /\ Len(fetchBuf[w]) \in Nat
  BY DEF PutAside
<1>5. HintTarget(w) \in Int /\ HintTarget(w) < Last
  BY HintTargetBefore
<1>6. CASE FetchHintAhead(w)
  <2> DEFINE skipped == [i \in 1 .. (HintTarget(w) - pc[w]) |-> pc[w] + i - 1]
  <2>1. HintTarget(w) \in PCs /\ HintTarget(w) + 1 \in 1 .. Last + 1
    BY <1>0, <1>5, <1>6, SMTT(30) DEF FetchHintAhead, PCs
  <2>2. HintTarget(w) - pc[w] \in Nat
    BY <1>0, <1>5, <1>6 DEF FetchHintAhead
  <2>3. \A i \in 1 .. (HintTarget(w) - pc[w]) : pc[w] + i - 1 \in PCs
    BY <1>0, <1>5, <2>2 DEF PCs
  <2>4. skipped \in Seq(PCs)
    BY <2>2, <2>3, SequenceOf
  <2>5. PutAside(w) \o skipped \in Seq(PCs)
    <3> HIDE DEF skipped
    <3> QED  BY <1>4, <2>4
  <2>6. /\ preBuf' = [preBuf EXCEPT ![w] = PutAside(w) \o skipped]
        /\ specBuf' = [specBuf EXCEPT ![w] = Append(@, HintTarget(w))]
        /\ hinted' = [hinted EXCEPT ![w] = @ \cup {HintTarget(w)}]
        /\ pc' = [pc EXCEPT ![w] = HintTarget(w) + 1]
        /\ preFetchPc' = [preFetchPc EXCEPT ![w] = HintTarget(w)]
        /\ fetchBuf' = [fetchBuf EXCEPT ![w] = <<>>]
        /\ inflight' = inflight - Len(fetchBuf[w]) + 1
        /\ UNCHANGED <<flags, group, lgkm, units, completed>>
    BY <1>6 DEF FetchHintAhead
  <2> HIDE DEF skipped
  <2>7. Append(specBuf[w], HintTarget(w)) \in Seq(PCs)
    BY <2>1
  <2> QED  BY <1>4, <1>5, <2>1, <2>5, <2>6, <2>7
<1>7. CASE FetchHintBehind(w)
  <2>1. PICK i \in DOMAIN PutAside(w) :
           /\ PutAside(w)[i] = HintTarget(w)
           /\ preBuf' = [preBuf EXCEPT ![w] = RemoveAt(PutAside(w), i)]
           /\ specBuf' = [specBuf EXCEPT ![w] = Append(@, HintTarget(w))]
           /\ hinted' = [hinted EXCEPT ![w] = @ \cup {HintTarget(w)}]
           /\ preFetchPc' = [preFetchPc EXCEPT ![w] = HintTarget(w)]
    BY <1>7 DEF FetchHintBehind
  <2>2. HintTarget(w) \in PCs /\ Append(specBuf[w], HintTarget(w)) \in Seq(PCs)
    BY <1>4, <2>1
  <2>3. RemoveAt(PutAside(w), i) \in Seq(PCs)
    BY <1>4, RemoveAtType
  <2> QED  BY <1>4, <1>5, <1>7, <2>1, <2>2, <2>3 DEF FetchHintBehind
<1>8. CASE FetchHintIdle(w)
  BY <1>4, <1>5, <1>8 DEF FetchHintIdle
<1> QED  BY <1>1, <1>2, <1>3, <1>6, <1>7, <1>8 DEF Fetch

\* The counter of outstanding accesses stays an integer, whatever the uop is.
LEMMA CounterType ==
    ASSUME NEW f \in [Wavefronts -> Int], NEW w \in Wavefronts, NEW kind
    PROVE  /\ [f EXCEPT ![w] = IF IsMemory(kind) THEN @ + 1 ELSE @] \in [Wavefronts -> Int]
           /\ [f EXCEPT ![w] = IF IsMemory(kind) THEN @ - 1 ELSE @] \in [Wavefronts -> Int]
<1>1. f[w] \in Int /\ f[w] + 1 \in Int /\ f[w] - 1 \in Int
  OBVIOUS
<1>2. CASE IsMemory(kind)
  BY <1>1, <1>2, Zenon
<1>3. CASE ~ IsMemory(kind)
  BY <1>1, <1>3, Zenon
<1> QED  BY <1>2, <1>3

\* Issue keeps the types, from either buffer.
LEMMA IssueType ==
    ASSUME TypeOK, NEW w \in Wavefronts, IssueStep(w)
    PROVE  TypeOK'
<1> USE DEF TypeOK, front, group
<1>1. CASE EndWait(w)
  BY <1>1 DEF EndWait
<1>2. ASSUME NEW b \in {fetchBuf, specBuf}, IssueFrom(b, w)
      PROVE  /\ b[w] # <<>> /\ b[w] \in Seq(PCs) /\ Tail(b[w]) \in Seq(PCs)
             /\ units' \in [Units -> Seq(Wavefronts \X PCs)]
             /\ lgkm' \in [Wavefronts -> Int]
             /\ memWait' \in [Wavefronts -> BOOLEAN]
             /\ mode' \in [Wavefronts -> {0, 1}]
             /\ atBarrier' \in [Wavefronts -> BOOLEAN]
  <2>1. b[w] # <<>> /\ b[w] \in Seq(PCs)
    BY <1>2 DEF IssueFrom
  <2>2. Tail(b[w]) \in Seq(PCs) /\ Head(b[w]) \in PCs
    BY <2>1, SMTT(30)
  <2>3. UnitOf(Program[Head(b[w])]) \in Units
    BY <2>2, ProgramType
  <2>4. Append(units[UnitOf(Program[Head(b[w])])], <<w, Head(b[w])>>)
           \in Seq(Wavefronts \X PCs)
    BY <2>2, <2>3
  <2>5. units' \in [Units -> Seq(Wavefronts \X PCs)]
    BY <1>2, <2>3, <2>4 DEF IssueFrom
  <2>6. lgkm' \in [Wavefronts -> Int]
    <3>1. lgkm' = [lgkm EXCEPT ![w] = IF IsMemory(Program[Head(b[w])])
                                      THEN @ + 1 ELSE @]
      BY <1>2, Zenon DEF IssueFrom
    <3> QED  BY <3>1, CounterType, Zenon DEF TypeOK
  <2>7. ModeNow(w) \in {0, 1}
    BY DEF ModeNow
  <2>8. mode' \in [Wavefronts -> {0, 1}]
    BY <1>2, <2>7 DEF IssueFrom
  <2>9. memWait' \in [Wavefronts -> BOOLEAN] /\ atBarrier' \in [Wavefronts -> BOOLEAN]
    BY <1>2, Zenon DEF IssueFrom, WaitIsOver
  <2> QED  BY <2>1, <2>2, <2>5, <2>6, <2>8, <2>9
<1>3. CASE Issue(w)
  BY <1>2, <1>3 DEF Issue
<1>4. CASE IssueSpeculated(w)
  BY <1>2, <1>4 DEF IssueSpeculated
<1> QED  BY <1>1, <1>3, <1>4 DEF IssueStep

\* The completion of a uop keeps the types, and its wavefront is one of the pool.
LEMMA CompleteType ==
    ASSUME TypeOK, NEW u \in Units, CompleteStep(u)
    PROVE  TypeOK'
<1> USE DEF TypeOK, front, flags, group
<1>1. ASSUME NEW v \in Units, units[v] # <<>>, Retire(v)
      PROVE  /\ Head(units[v])[1] \in Wavefronts /\ Head(units[v])[2] \in PCs
             /\ units' \in [Units -> Seq(Wavefronts \X PCs)]
             /\ lgkm' \in [Wavefronts -> Int] /\ inflight' \in Int
             /\ completed' \in [Wavefronts -> SUBSET PCs]
  <2>1. Head(units[v]) \in Wavefronts \X PCs /\ Tail(units[v]) \in Seq(Wavefronts \X PCs)
    BY <1>1
  <2>2. Head(units[v])[1] \in Wavefronts /\ Head(units[v])[2] \in PCs
    BY <2>1
  <2>3. lgkm' = [lgkm EXCEPT ![Head(units[v])[1]] =
                   IF IsMemory(Program[Head(units[v])[2]]) THEN @ - 1 ELSE @]
    BY <1>1, Zenon DEF Retire
  <2>4. lgkm' \in [Wavefronts -> Int]
    BY <2>2, <2>3, CounterType, Zenon DEF TypeOK
  <2>5. inflight' \in Int
    BY <1>1 DEF Retire
  <2>6. completed' = [completed EXCEPT ![Head(units[v])[1]] = @ \cup {Head(units[v])[2]}]
    BY <1>1, Zenon DEF Retire
  <2>7. completed' \in [Wavefronts -> SUBSET PCs]
    BY <2>2, <2>6
  <2>8. units' \in [Units -> Seq(Wavefronts \X PCs)]
    BY <1>1, <2>1 DEF Retire
  <2> QED  BY <2>2, <2>4, <2>5, <2>7, <2>8
<1>2. CASE Complete(u)
  BY <1>1, <1>2 DEF Complete
<1>3. "scalar" \in Units
  BY DEF Units
<1>4. CASE CompleteBarrier
  BY <1>1, <1>3, <1>4 DEF CompleteBarrier
<1>5. CASE CompleteEnd
  <2>1. mapped' \in BOOLEAN /\ ended' \in [Wavefronts -> BOOLEAN]
    BY <1>1, <1>3, <1>5 DEF CompleteEnd
  <2> QED  BY <1>1, <1>3, <1>5, <2>1 DEF CompleteEnd
<1> QED  BY <1>2, <1>4, <1>5 DEF CompleteStep

\* A new work group starts its wavefronts inside the kernel.
LEMMA MapType == TypeOK /\ MapWorkGroup => TypeOK'
<1> SUFFICES ASSUME TypeOK, MapWorkGroup
             PROVE  TypeOK'
  OBVIOUS
<1>1. 1 \in 1 .. Last + 1
  BY KernelAssumption
<1> QED  BY <1>1 DEF TypeOK, MapWorkGroup, flags

\* A step of another part of the simulator changes nothing.
LEMMA StutterType == TypeOK /\ UNCHANGED vars => TypeOK'
  BY DEF TypeOK, vars, front, flags, group

\* The entries of a new wavefront pool have the right types.
LEMMA InitType == Init => TypeOK
<1>1. 1 \in 1 .. Last + 1
  BY KernelAssumption
<1> QED  BY <1>1 DEF Init, TypeOK

\* The type invariant is inductive.
LEMMA NextType == TypeOK /\ [Next]_vars => TypeOK'
  BY FetchType, IssueType, CompleteType, MapType, StutterType DEF Next

\* The compute unit is type correct: whatever the modes of its wavefronts, the
\* program counter that Fetch gives the emulator stays in the kernel, and the
\* buffers hold uops of the kernel only.
THEOREM TypeCorrect == Spec => []TypeOK
  BY InitType, NextType, PTL DEF Spec

-----------------------------------------------------------------------------
(***************************************************************************)
(* Nothing is stranded.  NothingStranded is not inductive by itself: when  *)
(* there is no hint file FetchNew does not look at the buffers of the      *)
(* speculation, which are empty because nothing was ever put there.        *)
(***************************************************************************)
UnusedWithoutHints ==
    ~ HasHints => \A w \in Wavefronts : preBuf[w] = <<>> /\ specBuf[w] = <<>>

StrandedInv == TypeOK /\ NothingStranded /\ UnusedWithoutHints

\* Nothing is put aside at first.
LEMMA InitStranded == Init => StrandedInv
  BY InitType DEF Init, StrandedInv, NothingStranded, UnusedWithoutHints

\* Fetch finishes an emulator only when both buffers are empty.
LEMMA FetchStranded ==
    ASSUME StrandedInv, NEW w \in Wavefronts, Fetch(w)
    PROVE  (NothingStranded /\ UnusedWithoutHints)'
<1> USE DEF StrandedInv, TypeOK, NothingStranded, UnusedWithoutHints, Finished
<1>0. Last \in Nat \ {0} /\ ~ Finished(w)
  BY KernelAssumption DEF Fetch, FetchNew, FetchPreExecuted, FetchSpeculated,
     FetchHintAhead, FetchHintBehind, FetchHintIdle, CanFetch
<1>1. CASE FetchNew(w)
  <2>1. preBuf[w] = <<>> /\ specBuf[w] = <<>>
    BY <1>1 DEF FetchNew
  <2>2. \A v \in Wavefronts : v # w => pc'[v] = pc[v]
    BY <1>1 DEF FetchNew
  <2>3. preBuf' = preBuf /\ specBuf' = specBuf
    BY <1>1 DEF FetchNew
  <2> QED  BY <2>1, <2>2, <2>3 DEF HasHints
<1>2. ASSUME HasHints, ~ Finished(w)',
             \A v \in Wavefronts : v # w =>
               /\ pc'[v] = pc[v] /\ preBuf'[v] = preBuf[v] /\ specBuf'[v] = specBuf[v]
      PROVE  (NothingStranded /\ UnusedWithoutHints)'
  BY <1>2 DEF HasHints
<1>3. CASE FetchPreExecuted(w)
  BY <1>0, <1>2, <1>3 DEF FetchPreExecuted
<1>4. CASE FetchSpeculated(w)
  BY <1>0, <1>2, <1>4 DEF FetchSpeculated
<1>5. CASE FetchHintAhead(w)
  <2>1. HintTarget(w) \in Int /\ HintTarget(w) + 1 <= Last
    BY <1>0, HintTargetBefore
  <2>2. pc' = [pc EXCEPT ![w] = HintTarget(w) + 1]
    BY <1>5 DEF FetchHintAhead
  <2>3. ~ Finished(w)'
    BY <1>0, <2>1, <2>2
  <2> QED  BY <1>2, <1>5, <2>3 DEF FetchHintAhead, Speculating
<1>6. CASE FetchHintBehind(w)
  BY <1>0, <1>2, <1>6 DEF FetchHintBehind, Speculating
<1>7. CASE FetchHintIdle(w)
  BY <1>0, <1>2, <1>7 DEF FetchHintIdle, Speculating
<1> QED  BY <1>1, <1>3, <1>4, <1>5, <1>6, <1>7 DEF Fetch

\* Issue only takes uops out of the speculation buffer.
LEMMA IssueStranded ==
    ASSUME StrandedInv, NEW w \in Wavefronts, IssueStep(w)
    PROVE  (NothingStranded /\ UnusedWithoutHints)'
<1> USE DEF StrandedInv, NothingStranded, UnusedWithoutHints, Finished, HasHints
<1>1. CASE EndWait(w) \/ Issue(w)
  <2>1. pc' = pc /\ preBuf' = preBuf /\ specBuf' = specBuf
    BY <1>1 DEF EndWait, Issue, front
  <2> QED  BY <2>1
<1>2. CASE IssueSpeculated(w)
  <2>1. /\ specBuf[w] # <<>> /\ HintFile
        /\ specBuf' = [specBuf EXCEPT ![w] = Tail(@)]
        /\ pc' = pc /\ preBuf' = preBuf
    BY <1>2 DEF IssueSpeculated, IssueFrom
  <2> QED  BY <2>1 DEF TypeOK
<1> QED  BY <1>1, <1>2 DEF IssueStep

\* The strengthened invariant is inductive.
LEMMA NextStranded == StrandedInv /\ [Next]_vars => StrandedInv'
<1> SUFFICES ASSUME StrandedInv, [Next]_vars
             PROVE  (NothingStranded /\ UnusedWithoutHints)'
  BY NextType DEF StrandedInv
<1>1. ASSUME pc' = pc, preBuf' = preBuf, specBuf' = specBuf
      PROVE  (NothingStranded /\ UnusedWithoutHints)'
  BY <1>1 DEF StrandedInv, NothingStranded, UnusedWithoutHints, Finished, HasHints
<1>2. ASSUME NEW u \in Units, CompleteStep(u)
      PROVE  (NothingStranded /\ UnusedWithoutHints)'
  BY <1>1, <1>2 DEF CompleteStep, Complete, CompleteBarrier, CompleteEnd, front
<1>3. CASE MapWorkGroup
  <2>1. Last \in Nat \ {0}
    BY KernelAssumption
  <2> QED  BY <1>3, <2>1 DEF MapWorkGroup, StrandedInv, NothingStranded,
                            UnusedWithoutHints, Finished, HasHints
<1>4. CASE UNCHANGED vars
  BY <1>1, <1>4 DEF vars, front
<1> QED  BY <1>2, <1>3, <1>4, FetchStranded, IssueStranded DEF Next

\* When the emulator of a wavefront has executed s_endpgm, and Fetch therefore
\* skips its entry for good, no uop is left in the pre-execution and
\* speculation buffers, which only Fetch empties in normal mode.
THEOREM NeverStranded == Spec => []NothingStranded
<1>1. Init => StrandedInv
  BY InitStranded
<1>2. StrandedInv /\ [Next]_vars => StrandedInv'
  BY NextStranded
<1>3. StrandedInv => NothingStranded
  BY DEF StrandedInv
<1> QED  BY <1>1, <1>2, <1>3, PTL DEF Spec
-----------------------------------------------------------------------------
(***************************************************************************)
(* What the speculation may never do to the uops: lose one, duplicate one, *)
(* or get the counters wrong that decide over the end of a wait, a barrier *)
(* and a work group.                                                       *)
(***************************************************************************)
-----------------------------------------------------------------------------
(***************************************************************************)
(* Lemmas about the buffers.                                               *)
(***************************************************************************)
\* An empty buffer.
LEMMA EmptyRange == Range(<<>>) = {} /\ IsInjective(<<>>)
  BY DEF Range, IsInjective

\* A buffer without elements is the empty one.
LEMMA RangeEmpty ==
    ASSUME NEW S, NEW q \in Seq(S), Range(q) = {}
    PROVE  q = <<>>
<1>1. CASE q # <<>>
  BY <1>1, TailRange
<1> QED  BY <1>1

\* Taking a uop out of an entry takes exactly that one.
LEMMA RemoveAtRange ==
    ASSUME NEW S, NEW q \in Seq(S), NEW i \in DOMAIN q, IsInjective(q)
    PROVE  /\ RemoveAt(q, i) \in Seq(S)
           /\ Range(RemoveAt(q, i)) = Range(q) \ {q[i]}
           /\ IsInjective(RemoveAt(q, i))
<1> DEFINE r == RemoveAt(q, i)
<1>1. /\ r \in Seq(S) /\ Len(q) \in Nat
      /\ DOMAIN q = 1 .. Len(q) /\ i \in 1 .. Len(q)
      /\ DOMAIN r = 1 .. Len(q) - 1
      /\ \A j \in 1 .. Len(q) - 1 : r[j] = IF j < i THEN q[j] ELSE q[j + 1]
  <2> DEFINE a == SubSeq(q, 1, i - 1)
             b == SubSeq(q, i + 1, Len(q))
  <2>1. /\ Len(q) \in Nat /\ DOMAIN q = 1 .. Len(q) /\ i \in 1 .. Len(q)
    OBVIOUS
  <2>2. /\ a \in Seq(S) /\ Len(a) = i - 1
        /\ \A j \in 1 .. i - 1 : a[j] = q[j]
    BY <2>1
  <2>3. /\ b \in Seq(S) /\ Len(b) = Len(q) - i
        /\ \A j \in 1 .. Len(q) - i : b[j] = q[i + j]
    BY <2>1
  <2>4. r = a \o b
    BY DEF RemoveAt
  <2> HIDE DEF a, b, r
  <2>5. /\ r \in Seq(S) /\ DOMAIN r = 1 .. Len(a) + Len(b)
        /\ \A j \in 1 .. Len(a) + Len(b) :
              r[j] = IF j <= Len(a) THEN a[j] ELSE b[j - Len(a)]
    BY <2>2, <2>3, <2>4
  <2>6. Len(a) + Len(b) = Len(q) - 1
    BY <2>1, <2>2, <2>3
  <2>7. ASSUME NEW j \in 1 .. Len(q) - 1
        PROVE  r[j] = IF j < i THEN q[j] ELSE q[j + 1]
    <3>1. CASE j < i
      BY <2>1, <2>2, <2>5, <2>6, <3>1
    <3>2. CASE ~ (j < i)
      <4>1. j - Len(a) \in 1 .. Len(q) - i /\ i + (j - Len(a)) = j + 1 /\ ~ (j <= Len(a))
        BY <2>1, <2>2, <3>2
      <4>2. b[j - Len(a)] = q[j + 1]
        BY <2>3, <4>1
      <4> QED  BY <2>5, <2>6, <3>2, <4>1, <4>2
    <3> QED  BY <3>1, <3>2
  <2> QED  BY <2>1, <2>5, <2>6, <2>7, ZenonT(30)
<1> HIDE DEF r
<1>2. ASSUME NEW j \in DOMAIN r
      PROVE  \E k \in DOMAIN q : k # i /\ r[j] = q[k]
  <2>1. CASE j < i
    BY <1>1, <2>1
  <2>2. CASE ~ (j < i)
    <3>1. j + 1 \in DOMAIN q /\ j + 1 # i /\ r[j] = q[j + 1]
      BY <1>1, <2>2
    <3> QED  BY <3>1
  <2> QED  BY <2>1, <2>2
<1>3. ASSUME NEW k \in DOMAIN q, k # i
      PROVE  \E j \in DOMAIN r : r[j] = q[k]
  <2>1. CASE k < i
    BY <1>1, <2>1
  <2>2. CASE k > i
    <3>1. k - 1 \in DOMAIN r /\ ~ (k - 1 < i) /\ r[k - 1] = q[(k - 1) + 1] /\ (k - 1) + 1 = k
      BY <1>1, <2>2
    <3> QED  BY <3>1
  <2> QED  BY <1>1, <1>3, <2>1, <2>2
<1>4. Range(r) = Range(q) \ {q[i]}
  <2>1. ASSUME NEW x \in Range(r)
        PROVE  x \in Range(q) \ {q[i]}
    BY <1>2, <2>1 DEF Range, IsInjective
  <2>2. ASSUME NEW x \in Range(q), x # q[i]
        PROVE  x \in Range(r)
    BY <1>3, <2>2 DEF Range
  <2> QED  BY <2>1, <2>2
<1>5. IsInjective(r)
  <2> SUFFICES ASSUME NEW j \in DOMAIN r, NEW k \in DOMAIN r, r[j] = r[k]
               PROVE  j = k
    BY DEF IsInjective
  <2> DEFINE J == IF j < i THEN j ELSE j + 1
             K == IF k < i THEN k ELSE k + 1
  <2>1. J \in DOMAIN q /\ K \in DOMAIN q /\ r[j] = q[J] /\ r[k] = q[K]
    BY <1>1
  <2>2. J = K
    <3> HIDE DEF J, K
    <3> QED  BY <2>1 DEF IsInjective
  <2>3. i \in Int /\ j \in Int /\ k \in Int
    BY <1>1
  <2>4. CASE j < i /\ k < i
    BY <2>2, <2>4
  <2>5. CASE j < i /\ ~ (k < i)
    BY <2>2, <2>3, <2>5
  <2>6. CASE ~ (j < i) /\ k < i
    BY <2>2, <2>3, <2>6
  <2>7. CASE ~ (j < i) /\ ~ (k < i)
    BY <2>2, <2>3, <2>7
  <2> QED  BY <2>4, <2>5, <2>6, <2>7, Zenon
<1> QED  BY <1>1, <1>4, <1>5, SMTT(30) DEF r

\* The instructions from m to n - 1, one after the other.
LEMMA RunRange ==
    ASSUME NEW m \in Nat, NEW n \in Nat, m <= n
    PROVE  LET s == [i \in 1 .. (n - m) |-> m + i - 1]
           IN  Range(s) = m .. n - 1 /\ IsInjective(s)
<1> DEFINE s == [i \in 1 .. (n - m) |-> m + i - 1]
<1>1. DOMAIN s = 1 .. (n - m) /\ \A i \in DOMAIN s : s[i] = m + i - 1
  OBVIOUS
<1> HIDE DEF s
<1>2. ASSUME NEW p \in m .. n - 1
      PROVE  p \in Range(s)
  <2>1. p - m + 1 \in DOMAIN s /\ s[p - m + 1] = p
    BY <1>1
  <2> QED  BY <2>1 DEF Range
<1>3. \A i \in DOMAIN s : s[i] \in m .. n - 1
  BY <1>1
<1>4. IsInjective(s)
  BY <1>1 DEF IsInjective
<1>5. Range(s) = m .. n - 1
  BY <1>2, <1>3 DEF Range
<1> QED  BY <1>4, <1>5 DEF s

-----------------------------------------------------------------------------
(***************************************************************************)
(* The inductive invariant, a conjunction of what holds for each wavefront *)
(* and for the execution units.                                            *)
(***************************************************************************)
InFetch(w) == Range(fetchBuf[w])
InSpec(w) == Range(specBuf[w])
InPre(w) == Range(preBuf[w])

\* Every emulated uop of w is in one place, once.
UopsPlaced(w) ==
    /\ IsInjective(fetchBuf[w]) /\ IsInjective(specBuf[w]) /\ IsInjective(preBuf[w])
    /\ InFetch(w) \cap InSpec(w) = {}
    /\ InFetch(w) \cap InPre(w) = {}
    /\ InSpec(w) \cap InPre(w) = {}
    /\ InFetch(w) \cup InSpec(w) \cup InPre(w) = (1 .. pc[w] - 1) \ Issued(w)
    /\ Issued(w) \subseteq 1 .. pc[w] - 1
    /\ InUnits(w) \cap completed[w] = {}

\* A unit holds a uop once, and only uops that it accepts.
UnitsPlaced ==
    \A u \in Units :
        /\ IsInjective(units[u])
        /\ \A x \in Range(units[u]) : UnitOf(Program[x[2]]) = u

MemoryUops(w) == {p \in InUnits(w) : IsMemory(Program[p])}

\* lgkm_cnt counts the memory accesses in the units.
LgkmExact == \A w \in Wavefronts : lgkm[w] = Cardinality(MemoryUops(w))

\* Pre-execution mode needs a hint file.
ModeNeedsHints == \A w \in Wavefronts : mode[w] = 1 => HasHints

\* Nothing follows s_endpgm in the fetch buffer, and it leaves the entry clean.
EndIsLast ==
    \A w \in Wavefronts : Finished(w) =>
        \/ fetchBuf[w] # <<>> /\ fetchBuf[w][Len(fetchBuf[w])] = Last
        \/ fetchBuf[w] = <<>> /\ mode[w] = 0 /\ ~ memWait[w] /\ ~ atBarrier[w]

EndedIsFinished == \A w \in Wavefronts : ended[w] => Finished(w)

\* Once unmapped, the work group has left nothing behind, in the units either.
NothingLeft == ~ mapped => \A u \in Units : units[u] = <<>>

\* The barriers that w has passed.
BarriersPassed(w) == BarriersIssued(w) - (IF atBarrier[w] THEN 1 ELSE 0)

SamePassed == \A v, w \in Wavefronts : BarriersPassed(v) = BarriersPassed(w)

PlacesInv ==
    /\ StrandedInv
    /\ \A w \in Wavefronts : UopsPlaced(w)
    /\ UnitsPlaced

CountersInv == InflightExact /\ LgkmExact

EndInv ==
    /\ ModeNeedsHints /\ EndIsLast /\ EndedIsFinished
    /\ NothingLeft /\ CleanUnmap

UopsInv == PlacesInv /\ CountersInv /\ EndInv /\ SamePassed

-----------------------------------------------------------------------------
(***************************************************************************)
(* Fetch moves uops between the buffers of one wavefront.                  *)
(***************************************************************************)
\* A wavefront whose entry and units are left alone keeps its uops.
LEMMA PlacesFrame ==
    ASSUME NEW v \in Wavefronts, UopsPlaced(v),
           pc'[v] = pc[v], fetchBuf'[v] = fetchBuf[v], specBuf'[v] = specBuf[v],
           preBuf'[v] = preBuf[v], InUnits(v)' = InUnits(v), completed'[v] = completed[v]
    PROVE  UopsPlaced(v)'
  BY DEF UopsPlaced, InFetch, InSpec, InPre, Issued

\* The uops in the units, when neither the units nor what has completed change.
LEMMA UnitsFrame ==
    ASSUME units' = units, completed' = completed
    PROVE  /\ \A w : InUnits(w)' = InUnits(w) /\ Issued(w)' = Issued(w)
           /\ UnitsPlaced => UnitsPlaced'
  BY DEF InUnits, Issued, UnitsPlaced

\* How the number of uops in flight follows the uops of one wavefront: D leave
\* and A come.
InFlight(w) == InFetch(w) \cup InSpec(w) \cup InUnits(w)

LEMMA InFlightFinite == TypeOK => IsFiniteSet(InFlightUops) /\ IsFiniteSet(PCs)
<1>1. IsFiniteSet(PCs)
  BY FS_Interval, KernelAssumption DEF PCs
<1>2. IsFiniteSet(Wavefronts \X PCs)
  BY <1>1, FS_Product, SizeAssumption
<1> QED  BY <1>1, <1>2, FS_Subset DEF InFlightUops

LEMMA InFlightType ==
    ASSUME TypeOK, NEW w \in Wavefronts
    PROVE  InFlight(w) \subseteq PCs
<1>1. InFetch(w) \subseteq PCs /\ InSpec(w) \subseteq PCs
  BY DEF TypeOK, InFetch, InSpec, Range
<1>2. InUnits(w) \subseteq PCs
  BY DEF InUnits
<1> QED  BY <1>1, <1>2 DEF InFlight

\* Pairing the uops of a set with their wavefront does not change how many there are.
LEMMA PairCardinality ==
    ASSUME NEW w, NEW D, IsFiniteSet(D)
    PROVE  /\ IsFiniteSet({w} \X D)
           /\ Cardinality({w} \X D) = Cardinality(D)
<1>1. IsFiniteSet({w}) /\ Cardinality({w}) = 1
  BY FS_Singleton
<1>2. IsFiniteSet({w} \X D) /\ Cardinality({w} \X D) = 1 * Cardinality(D)
  BY <1>1, FS_Product
<1>3. Cardinality(D) \in Nat
  BY FS_CardinalityType
<1> QED  BY <1>2, <1>3

LEMMA InFlightChange ==
    ASSUME TypeOK, TypeOK', NEW w \in Wavefronts,
           NEW D \in SUBSET InFlight(w), NEW A \in SUBSET PCs,
           A \cap (InFlight(w) \ D) = {},
           InFlight(w)' = (InFlight(w) \ D) \cup A,
           \A v \in Wavefronts : v # w => InFlight(v)' = InFlight(v)
    PROVE  /\ Cardinality(InFlightUops)'
                = Cardinality(InFlightUops) - Cardinality(D) + Cardinality(A)
           /\ Cardinality(InFlightUops) \in Nat
           /\ IsFiniteSet(D) /\ IsFiniteSet(A)
<1> DEFINE N == InFlightUops
           rest == N \ ({w} \X D)
<1>1. IsFiniteSet(N) /\ IsFiniteSet(D) /\ IsFiniteSet(A)
  <2>1. D \subseteq PCs
    BY InFlightType
  <2> QED  BY <2>1, InFlightFinite, FS_Subset
<1>2. /\ Cardinality(D) \in Nat /\ Cardinality(A) \in Nat /\ Cardinality(N) \in Nat
  BY <1>1, FS_CardinalityType
<1>3. \A x : x \in N <=> x \in Wavefronts \X PCs /\ x[2] \in InFlight(x[1])
  BY DEF InFlightUops, InFlight, InFetch, InSpec
<1>4. \A x : x \in N' <=> x \in Wavefronts \X PCs /\ x[2] \in InFlight(x[1])'
  BY DEF InFlightUops, InFlight, InFetch, InSpec
<1>5. {w} \X D \subseteq N
  <2>1. D \subseteq PCs
    BY InFlightType
  <2> QED  BY <1>3, <2>1
<1>6. N' = rest \cup ({w} \X A)
  <2>1. ASSUME NEW x \in Wavefronts \X PCs
        PROVE  x[2] \in InFlight(x[1])' <=>
                 \/ x[2] \in InFlight(x[1]) /\ ~ (x \in {w} \X D)
                 \/ x \in {w} \X A
    <3>1. CASE x[1] = w
      BY <3>1
    <3>2. CASE x[1] # w
      BY <3>2
    <3> QED  BY <3>1, <3>2
  <2>2. \A x : x \in N' => x \in rest \cup ({w} \X A)
    BY <1>3, <1>4, <2>1
  <2>3. {w} \X A \subseteq Wavefronts \X PCs
    OBVIOUS
  <2>4. \A x : x \in rest \cup ({w} \X A) => x \in N'
    BY <1>3, <1>4, <2>1, <2>3
  <2> QED  BY <2>2, <2>4
<1>7. rest \cap ({w} \X A) = {}
  BY <1>3
<1>8. IsFiniteSet(rest) /\ Cardinality(rest) = Cardinality(N) - Cardinality(D)
  <2> DEFINE out == {w} \X D
  <2>1. N \cap out = out
    BY <1>5
  <2>2. Cardinality(out) = Cardinality(D)
    BY <1>1, PairCardinality
  <2>3. rest = N \ out
    OBVIOUS
  <2> HIDE DEF N, out, rest
  <2>4. IsFiniteSet(N \ out) /\ Cardinality(N \ out) = Cardinality(N) - Cardinality(N \cap out)
    BY <1>1, FS_Difference
  <2> QED  BY <2>1, <2>2, <2>3, <2>4
<1>9. Cardinality(N') = Cardinality(rest) + Cardinality(A)
  <2>1. IsFiniteSet({w} \X A) /\ Cardinality({w} \X A) = Cardinality(A)
    BY <1>1, PairCardinality
  <2>2. Cardinality(rest \cap ({w} \X A)) = 0
    BY <1>7, FS_EmptySet
  <2>3. Cardinality(rest) \in Nat
    BY <1>8, FS_CardinalityType
  <2> DEFINE in == {w} \X A
             M == rest \cup in
  <2>4. N' = M
    BY <1>6
  <2> HIDE DEF rest, in
  <2>5. Cardinality(M) = Cardinality(rest) + Cardinality(in) - Cardinality(rest \cap in)
    BY <1>8, <2>1, FS_Union DEF in
  <2> HIDE DEF M
  <2> QED  BY <1>2, <2>1, <2>2, <2>3, <2>4, <2>5 DEF in
<1> QED  BY <1>1, <1>2, <1>8, <1>9

\* A visit of Fetch leaves the other wavefronts and the units alone.
LEMMA FetchFrame ==
    ASSUME TypeOK, NEW w \in Wavefronts, Fetch(w)
    PROVE  /\ units' = units /\ completed' = completed /\ lgkm' = lgkm
           /\ mode' = mode /\ memWait' = memWait /\ atBarrier' = atBarrier
           /\ ended' = ended /\ mapped' = mapped
           /\ mapped /\ ~ Finished(w)
           /\ \A v \in Wavefronts : v # w =>
                /\ pc'[v] = pc[v] /\ fetchBuf'[v] = fetchBuf[v]
                /\ specBuf'[v] = specBuf[v] /\ preBuf'[v] = preBuf[v]
<1> USE DEF TypeOK, flags, group, CanFetch
<1>1. CASE FetchNew(w)
  BY <1>1 DEF FetchNew
<1>2. CASE FetchPreExecuted(w)
  BY <1>2 DEF FetchPreExecuted
<1>3. CASE FetchSpeculated(w)
  BY <1>3 DEF FetchSpeculated
<1>4. CASE FetchHintAhead(w)
  BY <1>4 DEF FetchHintAhead
<1>5. CASE FetchHintBehind(w)
  BY <1>5 DEF FetchHintBehind
<1>6. CASE FetchHintIdle(w)
  BY <1>6 DEF FetchHintIdle
<1> QED  BY <1>1, <1>2, <1>3, <1>4, <1>5, <1>6 DEF Fetch

\* It is enough to look at the entry that Fetch visits.
LEMMA FetchLocal ==
    ASSUME PlacesInv, TypeOK', InflightExact, NEW w \in Wavefronts, Fetch(w),
           UopsPlaced(w)',
           NEW D \in SUBSET InFlight(w), NEW A \in SUBSET PCs,
           A \cap (InFlight(w) \ D) = {},
           InFlight(w)' = (InFlight(w) \ D) \cup A,
           inflight' = inflight - Cardinality(D) + Cardinality(A)
    PROVE  /\ \A v \in Wavefronts : UopsPlaced(v)'
           /\ UnitsPlaced' /\ InflightExact'
<1>0. TypeOK
  BY DEF PlacesInv, StrandedInv
<1>1. /\ \A v \in Wavefronts : InUnits(v)' = InUnits(v)
      /\ UnitsPlaced'
  BY <1>0, FetchFrame, UnitsFrame DEF PlacesInv
<1>2. ASSUME NEW v \in Wavefronts, v # w
      PROVE  UopsPlaced(v)' /\ InFlight(v)' = InFlight(v)
  <2>1. /\ UopsPlaced(v) /\ pc'[v] = pc[v] /\ fetchBuf'[v] = fetchBuf[v]
        /\ specBuf'[v] = specBuf[v] /\ preBuf'[v] = preBuf[v]
        /\ InUnits(v)' = InUnits(v) /\ completed'[v] = completed[v]
    BY <1>0, <1>1, <1>2, FetchFrame DEF PlacesInv
  <2>2. UopsPlaced(v)'
    BY <2>1, PlacesFrame
  <2> QED  BY <2>1, <2>2 DEF InFlight, InFetch, InSpec
<1>3. InflightExact'
  <2>1. Cardinality(InFlightUops)'
           = Cardinality(InFlightUops) - Cardinality(D) + Cardinality(A)
    BY <1>0, <1>2, InFlightChange
  <2> QED  BY <2>1 DEF InflightExact
<1> QED  BY <1>1, <1>2, <1>3

\* The entry of w, when Fetch takes the next instruction or one put aside.
LEMMA FetchNormalPlaces ==
    ASSUME PlacesInv, TypeOK', InflightExact, NEW w \in Wavefronts,
           FetchNew(w) \/ FetchPreExecuted(w) \/ FetchSpeculated(w)
    PROVE  /\ \A v \in Wavefronts : UopsPlaced(v)'
           /\ UnitsPlaced' /\ InflightExact'
<1>0. /\ TypeOK /\ UopsPlaced(w) /\ Fetch(w)
      /\ fetchBuf[w] \in Seq(PCs) /\ specBuf[w] \in Seq(PCs) /\ preBuf[w] \in Seq(PCs)
      /\ pc[w] \in 1 .. Last + 1 /\ Last \in Nat \ {0} /\ inflight \in Int
  BY KernelAssumption DEF PlacesInv, StrandedInv, TypeOK, Fetch
<1>1. /\ InUnits(w)' = InUnits(w) /\ Issued(w)' = Issued(w)
      /\ InUnits(w) \subseteq Issued(w) /\ completed'[w] = completed[w]
      /\ ~ Finished(w)
  BY <1>0, FetchFrame, UnitsFrame DEF Issued
<1>2. CASE FetchNew(w)
  <2>1. pc[w] \in PCs
    BY <1>0, <1>1 DEF Finished, PCs
  <2>2. /\ fetchBuf'[w] = Append(fetchBuf[w], pc[w])
        /\ specBuf'[w] = specBuf[w] /\ preBuf'[w] = preBuf[w]
        /\ pc'[w] = pc[w] + 1 /\ inflight' = inflight + 1
    BY <1>0, <1>2 DEF FetchNew, TypeOK
  <2>3. 1 .. pc'[w] - 1 = (1 .. pc[w] - 1) \cup {pc[w]} /\ pc[w] \notin 1 .. pc[w] - 1
    BY <1>0, <2>2
  <2>4. pc[w] \notin InFetch(w) \cup InSpec(w) \cup InPre(w) \cup Issued(w)
    BY <1>0, <2>3 DEF UopsPlaced
  <2>5. InFetch(w)' = InFetch(w) \cup {pc[w]} /\ IsInjective(fetchBuf'[w])
    BY <1>0, <2>1, <2>2, <2>4, AppendRange DEF InFetch, UopsPlaced
  <2>6. InSpec(w)' = InSpec(w) /\ InPre(w)' = InPre(w)
    BY <2>2 DEF InSpec, InPre
  <2>7. UopsPlaced(w)'
    BY <1>0, <1>1, <2>2, <2>3, <2>4, <2>5, <2>6 DEF UopsPlaced
  <2>8. /\ {pc[w]} \cap (InFlight(w) \ {}) = {}
        /\ InFlight(w)' = (InFlight(w) \ {}) \cup {pc[w]}
    BY <1>1, <2>4, <2>5, <2>6 DEF InFlight
  <2>9. inflight' = inflight - Cardinality({}) + Cardinality({pc[w]})
    <3>1. Cardinality({}) = 0 /\ Cardinality({pc[w]}) = 1
      BY FS_EmptySet, FS_Singleton
    <3> QED  BY <1>0, <2>2, <3>1
  <2>10. {} \in SUBSET InFlight(w) /\ {pc[w]} \in SUBSET PCs
    BY <2>1
  <2> QED  BY <1>0, <2>7, <2>8, <2>9, <2>10, FetchLocal
<1>3. CASE FetchPreExecuted(w)
  <2> DEFINE h == Head(preBuf[w])
  <2>1. /\ preBuf[w] # <<>>
        /\ fetchBuf'[w] = Append(fetchBuf[w], h)
        /\ preBuf'[w] = Tail(preBuf[w])
        /\ specBuf'[w] = specBuf[w] /\ pc'[w] = pc[w]
        /\ inflight' = inflight + 1
    BY <1>0, <1>3 DEF FetchPreExecuted, TypeOK
  <2>2. /\ h \in PCs /\ h \in InPre(w)
        /\ InPre(w)' = InPre(w) \ {h} /\ IsInjective(preBuf'[w])
    BY <1>0, <2>1, TailRange DEF InPre, UopsPlaced
  <2> HIDE DEF h
  <2>3. h \notin InFetch(w) /\ h \notin InSpec(w) /\ h \notin InUnits(w)
    BY <1>0, <1>1, <2>2 DEF UopsPlaced
  <2>4. InFetch(w)' = InFetch(w) \cup {h} /\ IsInjective(fetchBuf'[w])
    BY <1>0, <2>1, <2>2, <2>3, AppendRange DEF InFetch, UopsPlaced
  <2>5. InSpec(w)' = InSpec(w)
    BY <2>1 DEF InSpec
  <2>6. UopsPlaced(w)'
    BY <1>0, <1>1, <2>1, <2>2, <2>3, <2>4, <2>5 DEF UopsPlaced
  <2>7. /\ {h} \cap (InFlight(w) \ {}) = {}
        /\ InFlight(w)' = (InFlight(w) \ {}) \cup {h}
    BY <1>1, <2>3, <2>4, <2>5 DEF InFlight
  <2>8. inflight' = inflight - Cardinality({}) + Cardinality({h})
    <3>1. Cardinality({}) = 0 /\ Cardinality({h}) = 1
      BY FS_EmptySet, FS_Singleton
    <3> QED  BY <1>0, <2>1, <3>1
  <2> QED  BY <1>0, <2>2, <2>6, <2>7, <2>8, FetchLocal
<1>4. CASE FetchSpeculated(w)
  <2> DEFINE i == Oldest(specBuf[w])
             h == specBuf[w][i]
  <2>1. /\ specBuf[w] # <<>>
        /\ fetchBuf'[w] = Append(fetchBuf[w], h)
        /\ specBuf'[w] = RemoveAt(specBuf[w], i)
        /\ preBuf'[w] = preBuf[w] /\ pc'[w] = pc[w]
        /\ inflight' = inflight
    BY <1>0, <1>4 DEF FetchSpeculated, TypeOK
  <2>2. i \in DOMAIN specBuf[w]
    BY <1>0, <2>1, OldestExists
  <2>3. /\ h \in PCs /\ h \in InSpec(w)
        /\ InSpec(w)' = InSpec(w) \ {h} /\ IsInjective(specBuf'[w])
    <3> HIDE DEF i
    <3>1. h \in PCs /\ h \in InSpec(w)
      BY <1>0, <2>2 DEF InSpec, Range
    <3> QED  BY <1>0, <2>1, <2>2, <3>1, RemoveAtRange DEF InSpec, UopsPlaced
  <2> HIDE DEF h, i
  <2>4. h \notin InFetch(w) /\ h \notin InPre(w) /\ h \notin InUnits(w)
    BY <1>0, <1>1, <2>3 DEF UopsPlaced
  <2>5. InFetch(w)' = InFetch(w) \cup {h} /\ IsInjective(fetchBuf'[w])
    BY <1>0, <2>1, <2>3, <2>4, AppendRange DEF InFetch, UopsPlaced
  <2>6. InPre(w)' = InPre(w)
    BY <2>1 DEF InPre
  <2>7. UopsPlaced(w)'
    BY <1>0, <1>1, <2>1, <2>3, <2>4, <2>5, <2>6 DEF UopsPlaced
  <2>8. /\ {} \cap (InFlight(w) \ {}) = {}
        /\ InFlight(w)' = (InFlight(w) \ {}) \cup {}
    BY <1>1, <2>3, <2>4, <2>5 DEF InFlight
  <2>9. inflight' = inflight - Cardinality({}) + Cardinality({})
    BY <1>0, <2>1, FS_EmptySet
  <2> QED  BY <1>0, <2>7, <2>8, <2>9, FetchLocal
<1> QED  BY <1>2, <1>3, <1>4

\* The uops put aside, when the fetch buffer is emptied behind them.
LEMMA PutAsideRange ==
    ASSUME PlacesInv, NEW w \in Wavefronts
    PROVE  /\ PutAside(w) \in Seq(PCs)
           /\ Range(PutAside(w)) = InPre(w) \cup InFetch(w)
           /\ IsInjective(PutAside(w))
           /\ Cardinality(InFetch(w)) = Len(fetchBuf[w])
<1>1. fetchBuf[w] \in Seq(PCs) /\ preBuf[w] \in Seq(PCs) /\ UopsPlaced(w)
  BY DEF PlacesInv, StrandedInv, TypeOK
<1>2. /\ IsInjective(fetchBuf[w]) /\ IsInjective(preBuf[w])
      /\ Range(preBuf[w]) \cap Range(fetchBuf[w]) = {}
  BY <1>1 DEF UopsPlaced, InFetch, InPre
<1>3. Cardinality(InFetch(w)) = Len(fetchBuf[w])
  BY <1>1, <1>2, LenIsCardinality DEF InFetch
<1> QED  BY <1>1, <1>2, <1>3, ConcatRange DEF PutAside, InFetch, InPre

\* The entry of w, when a hint leads Fetch.
LEMMA FetchHintPlaces ==
    ASSUME PlacesInv, TypeOK', InflightExact, NEW w \in Wavefronts,
           FetchHintAhead(w) \/ FetchHintBehind(w) \/ FetchHintIdle(w)
    PROVE  /\ \A v \in Wavefronts : UopsPlaced(v)'
           /\ UnitsPlaced' /\ InflightExact'
<1> DEFINE t == HintTarget(w)
           F == InFetch(w)
<1>0. /\ TypeOK /\ UopsPlaced(w) /\ Fetch(w)
      /\ fetchBuf[w] \in Seq(PCs) /\ specBuf[w] \in Seq(PCs) /\ preBuf[w] \in Seq(PCs)
      /\ pc[w] \in 1 .. Last + 1 /\ Last \in Nat \ {0} /\ inflight \in Int
  BY KernelAssumption DEF PlacesInv, StrandedInv, TypeOK, Fetch
<1>1. /\ InUnits(w)' = InUnits(w) /\ Issued(w)' = Issued(w)
      /\ InUnits(w) \subseteq Issued(w) /\ completed'[w] = completed[w]
  BY <1>0, FetchFrame, UnitsFrame DEF Issued
<1>2. /\ PutAside(w) \in Seq(PCs) /\ IsInjective(PutAside(w))
      /\ Range(PutAside(w)) = InPre(w) \cup F
      /\ Cardinality(F) = Len(fetchBuf[w]) /\ Len(fetchBuf[w]) \in Nat
  BY <1>0, PutAsideRange
<1>3. t \in Int /\ t < Last
  BY <1>0, HintTargetBefore
<1>4. fetchBuf'[w] = <<>> /\ InFetch(w)' = {} /\ IsInjective(fetchBuf'[w])
  <2>1. fetchBuf'[w] = <<>>
    BY <1>0 DEF FetchHintAhead, FetchHintBehind, FetchHintIdle, TypeOK
  <2> QED  BY <2>1, EmptyRange DEF InFetch
<1>5. F \in SUBSET InFlight(w)
  BY DEF InFlight
<1>6. ASSUME t \in PCs, t \notin InSpec(w) \cup InUnits(w),
             InSpec(w)' = InSpec(w) \cup {t},
             inflight' = inflight - Len(fetchBuf[w]) + 1,
             UopsPlaced(w)'
      PROVE  /\ \A v \in Wavefronts : UopsPlaced(v)'
             /\ UnitsPlaced' /\ InflightExact'
  <2> HIDE DEF t
  <2>1. /\ {t} \cap (InFlight(w) \ F) = {}
        /\ InFlight(w)' = (InFlight(w) \ F) \cup {t}
    <3>1. F \cap InSpec(w) = {} /\ F \cap InUnits(w) = {}
      BY <1>0, <1>1 DEF UopsPlaced
    <3> QED  BY <1>1, <1>4, <1>6, <3>1 DEF InFlight
  <2> HIDE DEF F
  <2>2. inflight' = inflight - Cardinality(F) + Cardinality({t})
    <3>1. Cardinality({t}) = 1
      BY FS_Singleton
    <3> QED  BY <1>2, <1>6, <3>1
  <2>3. {t} \in SUBSET PCs
    BY <1>6
  <2> QED  BY <1>0, <1>5, <1>6, <2>1, <2>2, <2>3, FetchLocal
<1>7. CASE FetchHintAhead(w)
  <2> DEFINE skipped == [i \in 1 .. (t - pc[w]) |-> pc[w] + i - 1]
             aside == PutAside(w) \o skipped
  <2>1. /\ t >= pc[w] /\ preBuf'[w] = aside
        /\ specBuf'[w] = Append(specBuf[w], t) /\ pc'[w] = t + 1
        /\ inflight' = inflight - Len(fetchBuf[w]) + 1
    BY <1>0, <1>7 DEF FetchHintAhead, TypeOK
  <2> HIDE DEF t
  <2>2. pc[w] \in Nat /\ t \in Nat /\ pc[w] <= t /\ t \in PCs
    BY <1>0, <1>3, <2>1 DEF PCs
  <2>3. Range(skipped) = pc[w] .. t - 1 /\ IsInjective(skipped)
    BY <2>2, RunRange
  <2>4. skipped \in Seq(PCs)
    <3>1. t - pc[w] \in Nat /\ \A i \in 1 .. (t - pc[w]) : pc[w] + i - 1 \in PCs
      BY <1>0, <1>3, <2>2 DEF PCs
    <3> QED  BY <3>1, SequenceOf
  <2>5. /\ pc[w] .. t - 1 \subseteq 1 .. pc'[w] - 1
        /\ t \notin pc[w] .. t - 1 /\ t \notin 1 .. pc[w] - 1
        /\ (pc[w] .. t - 1) \cap (1 .. pc[w] - 1) = {}
        /\ 1 .. pc'[w] - 1 = (1 .. pc[w] - 1) \cup (pc[w] .. t - 1) \cup {t}
    BY <1>0, <1>3, <2>1, <2>2, SMTT(30)
  <2>6. InPre(w) \cup F \cup InSpec(w) \cup Issued(w) = 1 .. pc[w] - 1
    BY <1>0 DEF UopsPlaced
  <2> HIDE DEF skipped
  <2>7. Range(PutAside(w)) \cap Range(skipped) = {}
    BY <1>2, <2>3, <2>5, <2>6
  <2>8. InPre(w)' = InPre(w) \cup F \cup (pc[w] .. t - 1) /\ IsInjective(preBuf'[w])
    <3> HIDE DEF F
    <3>1. Range(aside) = Range(PutAside(w)) \cup Range(skipped) /\ IsInjective(aside)
      BY <1>2, <2>3, <2>4, <2>7, ConcatRange
    <3>2. InPre(w)' = Range(aside)
      BY <2>1 DEF InPre
    <3> QED  BY <1>2, <2>1, <2>3, <3>1, <3>2
  <2>9. InSpec(w)' = InSpec(w) \cup {t} /\ IsInjective(specBuf'[w])
    BY <1>0, <2>1, <2>2, <2>5, <2>6, AppendRange DEF InSpec, UopsPlaced
  <2> HIDE DEF aside, F
  <2>10. InSpec(w)' \cap InPre(w)' = {}
    <3>1. InSpec(w) \cap (InPre(w) \cup F) = {}
      BY <1>0 DEF UopsPlaced, F
    <3> QED  BY <2>5, <2>6, <2>8, <2>9, <3>1
  <2>11. InSpec(w)' \cup InPre(w)' = (1 .. pc'[w] - 1) \ Issued(w)
    <3>1. InSpec(w) \cup InPre(w) \cup F = (1 .. pc[w] - 1) \ Issued(w)
      BY <1>0 DEF UopsPlaced, F
    <3> QED  BY <2>5, <2>6, <2>8, <2>9, <3>1
  <2>12. UopsPlaced(w)'
    <3>1. Issued(w) \subseteq 1 .. pc'[w] - 1
      BY <2>5, <2>6
    <3> QED  BY <1>0, <1>1, <1>4, <2>8, <2>9, <2>10, <2>11, <3>1 DEF UopsPlaced
  <2>13. t \notin InSpec(w) \cup InUnits(w)
    BY <1>1, <2>5, <2>6
  <2> QED  BY <1>6, <2>1, <2>2, <2>9, <2>12, <2>13
<1>8. CASE FetchHintBehind(w)
  <2>1. PICK i \in DOMAIN PutAside(w) :
           /\ PutAside(w)[i] = t
           /\ preBuf' = [preBuf EXCEPT ![w] = RemoveAt(PutAside(w), i)]
           /\ specBuf' = [specBuf EXCEPT ![w] = Append(@, t)]
    BY <1>8 DEF FetchHintBehind
  <2>2. /\ preBuf'[w] = RemoveAt(PutAside(w), i)
        /\ specBuf'[w] = Append(specBuf[w], t) /\ pc'[w] = pc[w]
        /\ inflight' = inflight - Len(fetchBuf[w]) + 1
    BY <1>0, <1>8, <2>1 DEF FetchHintBehind, TypeOK
  <2> HIDE DEF t, F
  <2>3. t \in InPre(w) \cup F /\ t \in PCs
    BY <1>2, <2>1 DEF Range
  <2>4. InPre(w)' = (InPre(w) \cup F) \ {t} /\ IsInjective(preBuf'[w])
    BY <1>2, <2>1, <2>2, RemoveAtRange DEF InPre
  <2>5. t \notin InSpec(w) /\ t \notin InUnits(w)
    BY <1>0, <1>1, <2>3 DEF UopsPlaced, F
  <2>6. InSpec(w)' = InSpec(w) \cup {t} /\ IsInjective(specBuf'[w])
    BY <1>0, <2>2, <2>3, <2>5, AppendRange DEF InSpec, UopsPlaced
  <2>7. UopsPlaced(w)'
    BY <1>0, <1>1, <1>4, <2>2, <2>3, <2>4, <2>5, <2>6 DEF UopsPlaced, F
  <2> QED  BY <1>6, <2>2, <2>3, <2>5, <2>6, <2>7
<1>9. CASE FetchHintIdle(w)
  <2>1. /\ preBuf'[w] = PutAside(w) /\ specBuf'[w] = specBuf[w] /\ pc'[w] = pc[w]
        /\ inflight' = inflight - Len(fetchBuf[w])
    BY <1>0, <1>9 DEF FetchHintIdle, TypeOK
  <2>2. InPre(w)' = InPre(w) \cup F /\ IsInjective(preBuf'[w])
    BY <1>2, <2>1 DEF InPre
  <2>3. InSpec(w)' = InSpec(w)
    BY <2>1 DEF InSpec
  <2>4. UopsPlaced(w)'
    BY <1>0, <1>1, <1>4, <2>1, <2>2, <2>3 DEF UopsPlaced
  <2>5. /\ {} \cap (InFlight(w) \ F) = {}
        /\ InFlight(w)' = (InFlight(w) \ F) \cup {}
    <3>1. F \cap InSpec(w) = {} /\ F \cap InUnits(w) = {}
      BY <1>0, <1>1 DEF UopsPlaced
    <3> QED  BY <1>1, <1>4, <2>3, <3>1 DEF InFlight
  <2>6. inflight' = inflight - Cardinality(F) + Cardinality({})
    BY <1>0, <1>2, <2>1, FS_EmptySet
  <2> HIDE DEF F
  <2>7. {} \in SUBSET PCs
    OBVIOUS
  <2> QED  BY <1>0, <1>5, <2>4, <2>5, <2>6, <2>7, FetchLocal
<1> QED  BY <1>7, <1>8, <1>9

-----------------------------------------------------------------------------
(***************************************************************************)
(* Issue and the Complete stages move uops into the units and out of them. *)
(***************************************************************************)
\* The first uop of a buffer enters its unit, and was in none before.
LEMMA IssueUnits ==
    ASSUME PlacesInv, NEW w \in Wavefronts, NEW p \in PCs, p \notin Issued(w),
           units' = [units EXCEPT ![UnitOf(Program[p])] = Append(@, <<w, p>>)]
    PROVE  /\ UnitsPlaced'
           /\ InUnits(w)' = InUnits(w) \cup {p}
           /\ \A v \in Wavefronts : v # w => InUnits(v)' = InUnits(v)
<1> DEFINE u == UnitOf(Program[p])
           x == <<w, p>>
<1>1. u \in Units /\ x \in Wavefronts \X PCs
  BY ProgramType
<1>2. units \in [Units -> Seq(Wavefronts \X PCs)] /\ UnitsPlaced
  BY DEF PlacesInv, StrandedInv, TypeOK
<1>3. x \notin Range(units[u])
  BY <1>1 DEF Issued, InUnits
<1>4. /\ Range(units'[u]) = Range(units[u]) \cup {x}
      /\ IsInjective(units'[u])
  <2>1. units'[u] = Append(units[u], x) /\ units[u] \in Seq(Wavefronts \X PCs)
    BY <1>1, <1>2
  <2>2. IsInjective(units[u])
    BY <1>1, <1>2 DEF UnitsPlaced
  <2> HIDE DEF u, x
  <2>3. /\ Range(Append(units[u], x)) = Range(units[u]) \cup {x}
        /\ IsInjective(Append(units[u], x))
    BY <1>1, <1>3, <2>1, <2>2, AppendRange
  <2> QED  BY <2>1, <2>3
<1>5. \A v \in Units : v # u => units'[v] = units[v]
  BY <1>2
<1>6. x[1] = w /\ x[2] = p
  OBVIOUS
<1>7. UnitsPlaced'
  <2> SUFFICES ASSUME NEW v \in Units
               PROVE  /\ IsInjective(units'[v])
                      /\ \A y \in Range(units'[v]) : UnitOf(Program[y[2]]) = v
    BY DEF UnitsPlaced
  <2>1. CASE v # u
    BY <1>2, <1>5, <2>1 DEF UnitsPlaced
  <2>2. CASE v = u
    <3>1. ASSUME NEW y \in Range(units[u]) \cup {x}
          PROVE  UnitOf(Program[y[2]]) = u
      BY <1>1, <1>2, <1>6 DEF UnitsPlaced
    <3> QED  BY <1>4, <2>2, <3>1
  <2> QED  BY <2>1, <2>2
<1>8. ASSUME NEW v \in Wavefronts, NEW q \in PCs
      PROVE  q \in InUnits(v)' <=> q \in InUnits(v) \/ <<v, q>> = x
  <2> HIDE DEF u, x
  <2> QED  BY <1>1, <1>4, <1>5 DEF InUnits
<1>9. InUnits(w)' = InUnits(w) \cup {p}
  <2>1. InUnits(w)' \subseteq PCs /\ InUnits(w) \subseteq PCs
    BY DEF InUnits
  <2> QED  BY <1>8, <2>1
<1>10. ASSUME NEW v \in Wavefronts, v # w
       PROVE  InUnits(v)' = InUnits(v)
  <2>1. InUnits(v)' \subseteq PCs /\ InUnits(v) \subseteq PCs
    BY DEF InUnits
  <2> QED  BY <1>8, <1>10, <2>1
<1> QED  BY <1>7, <1>9, <1>10

\* The first uop of a unit leaves it, and is in no unit after that.
LEMMA RetireUnits ==
    ASSUME PlacesInv, NEW u \in Units, units[u] # <<>>, Retire(u),
           NEW w, NEW p, Head(units[u]) = <<w, p>>
    PROVE  /\ w \in Wavefronts /\ p \in InUnits(w) /\ p \in PCs
           /\ UnitsPlaced'
           /\ InUnits(w)' = InUnits(w) \ {p}
           /\ \A v \in Wavefronts : v # w => InUnits(v)' = InUnits(v)
<1> DEFINE x == <<w, p>>
<1>1. units \in [Units -> Seq(Wavefronts \X PCs)] /\ UnitsPlaced
  BY DEF PlacesInv, StrandedInv, TypeOK
<1>2. /\ units[u] \in Seq(Wavefronts \X PCs) /\ units'[u] = Tail(units[u])
      /\ \A v \in Units : v # u => units'[v] = units[v]
  BY <1>1 DEF Retire
<1>3. /\ x \in Wavefronts \X PCs /\ x \in Range(units[u])
      /\ Range(units'[u]) = Range(units[u]) \ {x} /\ IsInjective(units'[u])
  <2>1. IsInjective(units[u])
    BY <1>1 DEF UnitsPlaced
  <2> QED  BY <1>2, <2>1, TailRange, ZenonT(30)
<1>4. w \in Wavefronts /\ p \in PCs /\ x[2] = p
  BY <1>3
<1>5. p \in InUnits(w)
  BY <1>3, <1>4 DEF InUnits
<1>6. UnitOf(Program[p]) = u
  BY <1>1, <1>3, <1>4 DEF UnitsPlaced
<1>7. \A v \in Units : v # u => x \notin Range(units[v])
  BY <1>1, <1>4, <1>6 DEF UnitsPlaced
<1>8. UnitsPlaced'
  BY <1>1, <1>2, <1>3 DEF UnitsPlaced
<1>9. ASSUME NEW v \in Wavefronts, NEW q \in PCs
      PROVE  q \in InUnits(v)' <=> q \in InUnits(v) /\ <<v, q>> # x
  <2>1. \A y \in Units : Range(units'[y]) = Range(units[y]) \ {x}
    BY <1>2, <1>3, <1>7
  <2> HIDE DEF x
  <2> QED  BY <2>1 DEF InUnits
<1>10. InUnits(w)' = InUnits(w) \ {p}
  <2>1. InUnits(w)' \subseteq PCs /\ InUnits(w) \subseteq PCs
    BY DEF InUnits
  <2> QED  BY <1>4, <1>9, <2>1
<1>11. ASSUME NEW v \in Wavefronts, v # w
       PROVE  InUnits(v)' = InUnits(v)
  <2>1. InUnits(v)' \subseteq PCs /\ InUnits(v) \subseteq PCs
    BY DEF InUnits
  <2> QED  BY <1>4, <1>9, <1>11, <2>1
<1> QED  BY <1>4, <1>5, <1>8, <1>10, <1>11

\* What the entry of w looks like when uop p was issued from it.
IssuedFrom(w, p) ==
    /\ p \in PCs /\ p \notin Issued(w)
    /\ p \in InFetch(w) \cup InSpec(w)
    /\ units' = [units EXCEPT ![UnitOf(Program[p])] = Append(@, <<w, p>>)]
    /\ lgkm' = [lgkm EXCEPT ![w] = IF IsMemory(Program[p]) THEN @ + 1 ELSE @]
    /\ atBarrier' = [atBarrier EXCEPT ![w] = Program[p] = "barrier"]
    /\ pc' = pc /\ preBuf' = preBuf /\ completed' = completed /\ inflight' = inflight
    /\ mapped /\ mapped' = mapped /\ ended' = ended /\ ~ atBarrier[w]
    /\ IsInjective(fetchBuf'[w]) /\ IsInjective(specBuf'[w])
    /\ InFetch(w)' = InFetch(w) \ {p}
    /\ InSpec(w)' = InSpec(w) \ {p}
    /\ \A v \in Wavefronts : v # w =>
         fetchBuf'[v] = fetchBuf[v] /\ specBuf'[v] = specBuf[v]

LEMMA IssueFetched ==
    ASSUME PlacesInv, NEW w \in Wavefronts, Issue(w)
    PROVE  IssuedFrom(w, Head(fetchBuf[w]))
<1> SUFFICES ASSUME NEW p, p = Head(fetchBuf[w])
             PROVE  IssuedFrom(w, p)
  OBVIOUS
<1>1. fetchBuf \in [Wavefronts -> Seq(PCs)] /\ specBuf \in [Wavefronts -> Seq(PCs)]
  BY DEF PlacesInv, StrandedInv, TypeOK
<1>2. UopsPlaced(w)
  BY DEF PlacesInv
<1>3. fetchBuf[w] # <<>> /\ fetchBuf[w] \in Seq(PCs)
  BY <1>1 DEF Issue, IssueFrom
<1>4. /\ fetchBuf'[w] = Tail(fetchBuf[w]) /\ specBuf' = specBuf
      /\ \A v \in Wavefronts : v # w => fetchBuf'[v] = fetchBuf[v]
  BY <1>1 DEF Issue
<1>5. /\ p \in PCs /\ p \in InFetch(w)
      /\ InFetch(w)' = InFetch(w) \ {p} /\ IsInjective(fetchBuf'[w])
  BY <1>2, <1>3, <1>4, TailRange DEF InFetch, UopsPlaced
<1>6. p \notin Issued(w) /\ p \notin InSpec(w)
  BY <1>2, <1>5 DEF UopsPlaced
<1>7. InSpec(w)' = InSpec(w) \ {p} /\ IsInjective(specBuf'[w])
  BY <1>2, <1>4, <1>6 DEF InSpec, UopsPlaced
<1>8. /\ units' = [units EXCEPT ![UnitOf(Program[p])] = Append(@, <<w, p>>)]
      /\ lgkm' = [lgkm EXCEPT ![w] = IF IsMemory(Program[p]) THEN @ + 1 ELSE @]
      /\ atBarrier' = [atBarrier EXCEPT ![w] = Program[p] = "barrier"]
  BY Zenon DEF Issue, IssueFrom
<1>9. /\ pc' = pc /\ preBuf' = preBuf /\ completed' = completed /\ inflight' = inflight
      /\ mapped /\ mapped' = mapped /\ ended' = ended /\ ~ atBarrier[w]
  BY DEF Issue, CanIssue, group
<1> QED  BY <1>4, <1>5, <1>6, <1>7, <1>8, <1>9 DEF IssuedFrom

LEMMA IssueHinted ==
    ASSUME PlacesInv, NEW w \in Wavefronts, IssueSpeculated(w)
    PROVE  IssuedFrom(w, Head(specBuf[w]))
<1> SUFFICES ASSUME NEW p, p = Head(specBuf[w])
             PROVE  IssuedFrom(w, p)
  OBVIOUS
<1>1. fetchBuf \in [Wavefronts -> Seq(PCs)] /\ specBuf \in [Wavefronts -> Seq(PCs)]
  BY DEF PlacesInv, StrandedInv, TypeOK
<1>2. UopsPlaced(w)
  BY DEF PlacesInv
<1>3. specBuf[w] # <<>> /\ specBuf[w] \in Seq(PCs)
  BY <1>1 DEF IssueSpeculated, IssueFrom
<1>4. /\ specBuf'[w] = Tail(specBuf[w]) /\ fetchBuf' = fetchBuf
      /\ \A v \in Wavefronts : v # w => specBuf'[v] = specBuf[v]
  BY <1>1 DEF IssueSpeculated
<1>5. /\ p \in PCs /\ p \in InSpec(w)
      /\ InSpec(w)' = InSpec(w) \ {p} /\ IsInjective(specBuf'[w])
  BY <1>2, <1>3, <1>4, TailRange DEF InSpec, UopsPlaced
<1>6. p \notin Issued(w) /\ p \notin InFetch(w)
  BY <1>2, <1>5 DEF UopsPlaced
<1>7. InFetch(w)' = InFetch(w) \ {p} /\ IsInjective(fetchBuf'[w])
  BY <1>2, <1>4, <1>6 DEF InFetch, UopsPlaced
<1>8. /\ units' = [units EXCEPT ![UnitOf(Program[p])] = Append(@, <<w, p>>)]
      /\ lgkm' = [lgkm EXCEPT ![w] = IF IsMemory(Program[p]) THEN @ + 1 ELSE @]
      /\ atBarrier' = [atBarrier EXCEPT ![w] = Program[p] = "barrier"]
  BY Zenon DEF IssueSpeculated, IssueFrom
<1>9. /\ pc' = pc /\ preBuf' = preBuf /\ completed' = completed /\ inflight' = inflight
      /\ mapped /\ mapped' = mapped /\ ended' = ended /\ ~ atBarrier[w]
  BY DEF IssueSpeculated, CanIssue, group
<1> QED  BY <1>4, <1>5, <1>6, <1>7, <1>8, <1>9 DEF IssuedFrom

\* Uops move between places; their number in flight stays the same.
LEMMA InFlightSame ==
    ASSUME TypeOK, TypeOK', InflightExact, inflight' = inflight,
           \A v \in Wavefronts : InFlight(v)' = InFlight(v)
    PROVE  InflightExact'
<1>1. InFlightUops' = InFlightUops
  <2>1. InFlightUops = {x \in Wavefronts \X PCs : x[2] \in InFlight(x[1])}
    BY DEF InFlightUops, InFlight, InFetch, InSpec
  <2>2. InFlightUops' = {x \in Wavefronts \X PCs : x[2] \in InFlight(x[1])'}
    BY DEF InFlightUops, InFlight, InFetch, InSpec
  <2>3. \A x \in Wavefronts \X PCs : InFlight(x[1])' = InFlight(x[1])
    OBVIOUS
  <2> QED  BY <2>1, <2>2, <2>3
<1> QED  BY <1>1 DEF InflightExact

\* Issue keeps every uop in one place and the counters exact.
LEMMA IssuePlaces ==
    ASSUME PlacesInv, CountersInv, TypeOK', NEW w \in Wavefronts, NEW p, IssuedFrom(w, p)
    PROVE  /\ \A v \in Wavefronts : UopsPlaced(v)'
           /\ UnitsPlaced' /\ CountersInv'
           /\ Issued(w)' = Issued(w) \cup {p}
           /\ \A v \in Wavefronts : v # w => Issued(v)' = Issued(v)
<1>1. TypeOK /\ p \in PCs /\ p \notin Issued(w) /\ UopsPlaced(w)
  BY DEF IssuedFrom, PlacesInv, StrandedInv
<1>2. /\ UnitsPlaced' /\ InUnits(w)' = InUnits(w) \cup {p}
      /\ \A v \in Wavefronts : v # w => InUnits(v)' = InUnits(v)
  BY <1>1, IssueUnits DEF IssuedFrom
<1>3. /\ Issued(w)' = Issued(w) \cup {p}
      /\ \A v \in Wavefronts : v # w => Issued(v)' = Issued(v)
  BY <1>2 DEF Issued, IssuedFrom
<1>4. /\ p \in InFetch(w) \cup InSpec(w)
      /\ InFetch(w)' = InFetch(w) \ {p} /\ InSpec(w)' = InSpec(w) \ {p}
      /\ InPre(w)' = InPre(w) /\ preBuf'[w] = preBuf[w] /\ pc'[w] = pc[w]
      /\ completed'[w] = completed[w]
      /\ IsInjective(fetchBuf'[w]) /\ IsInjective(specBuf'[w])
  BY DEF IssuedFrom, InPre
<1>5. UopsPlaced(w)'
  <2>1. p \notin completed[w] /\ p \notin InPre(w)
    BY <1>1, <1>4 DEF Issued, UopsPlaced
  <2> QED  BY <1>1, <1>2, <1>3, <1>4, <2>1 DEF UopsPlaced
<1>6. ASSUME NEW v \in Wavefronts, v # w
      PROVE  UopsPlaced(v)' /\ InFlight(v)' = InFlight(v)
  <2>1. /\ pc'[v] = pc[v] /\ fetchBuf'[v] = fetchBuf[v] /\ specBuf'[v] = specBuf[v]
        /\ preBuf'[v] = preBuf[v] /\ completed'[v] = completed[v]
        /\ InUnits(v)' = InUnits(v) /\ UopsPlaced(v)
    BY <1>2, <1>6 DEF IssuedFrom, PlacesInv
  <2> QED  BY <2>1, PlacesFrame DEF InFlight, InFetch, InSpec
<1>7. InflightExact'
  <2>1. InFlight(w)' = InFlight(w)
    BY <1>2, <1>4 DEF InFlight
  <2> QED  BY <1>1, <1>6, <2>1, InFlightSame DEF CountersInv, IssuedFrom
<1>8. LgkmExact'
  <2> SUFFICES ASSUME NEW v \in Wavefronts
               PROVE  lgkm'[v] = Cardinality(MemoryUops(v)')
    BY DEF LgkmExact
  <2>1. lgkm[v] = Cardinality(MemoryUops(v)) /\ lgkm \in [Wavefronts -> Int]
    BY <1>1 DEF CountersInv, LgkmExact, TypeOK
  <2>2. CASE v # w
    BY <1>2, <2>1, <2>2 DEF MemoryUops, IssuedFrom
  <2>3. CASE v = w /\ ~ IsMemory(Program[p])
    <3>1. MemoryUops(v)' = MemoryUops(v)
      BY <1>2, <2>3 DEF MemoryUops
    <3>2. lgkm'[v] = lgkm[v]
      BY <2>1, <2>3 DEF IssuedFrom
    <3> QED  BY <2>1, <3>1, <3>2
  <2>4. CASE v = w /\ IsMemory(Program[p])
    <3>1. MemoryUops(v)' = MemoryUops(v) \cup {p} /\ p \notin MemoryUops(v)
      BY <1>1, <1>2, <2>4 DEF MemoryUops, Issued
    <3>2. lgkm'[v] = lgkm[v] + 1
      BY <2>1, <2>4 DEF IssuedFrom
    <3>3. IsFiniteSet(MemoryUops(v))
      <4>1. MemoryUops(v) \subseteq PCs
        BY DEF MemoryUops, InUnits
      <4> QED  BY <1>1, <4>1, InFlightFinite, FS_Subset
    <3>4. Cardinality(MemoryUops(v) \cup {p}) = Cardinality(MemoryUops(v)) + 1
      BY <3>1, <3>3, FS_AddElement
    <3> QED  BY <2>1, <3>1, <3>2, <3>4
  <2> QED  BY <2>2, <2>3, <2>4
<1> QED  BY <1>2, <1>3, <1>5, <1>6, <1>7, <1>8 DEF CountersInv

\* A completed uop leaves its unit, and the counters with it.
LEMMA RetirePlaces ==
    ASSUME PlacesInv, CountersInv, TypeOK', NEW u \in Units, units[u] # <<>>, Retire(u),
           UNCHANGED front, NEW w, NEW p, Head(units[u]) = <<w, p>>
    PROVE  /\ \A v \in Wavefronts : UopsPlaced(v)'
           /\ UnitsPlaced' /\ CountersInv'
           /\ \A v \in Wavefronts : Issued(v)' = Issued(v)
           /\ w \in Wavefronts /\ p \in PCs /\ p \in Issued(w)
<1>1. TypeOK /\ lgkm \in [Wavefronts -> Int] /\ completed \in [Wavefronts -> SUBSET PCs]
  BY DEF PlacesInv, StrandedInv, TypeOK
<1>2. /\ w \in Wavefronts /\ p \in PCs /\ p \in InUnits(w)
      /\ UnitsPlaced' /\ InUnits(w)' = InUnits(w) \ {p}
      /\ \A v \in Wavefronts : v # w => InUnits(v)' = InUnits(v)
  BY RetireUnits
<1>3. /\ pc' = pc /\ fetchBuf' = fetchBuf /\ specBuf' = specBuf /\ preBuf' = preBuf
  BY DEF front
<1>4. /\ completed' = [completed EXCEPT ![w] = @ \cup {p}] /\ inflight' = inflight - 1
      /\ lgkm' = [lgkm EXCEPT ![w] = IF IsMemory(Program[p]) THEN @ - 1 ELSE @]
  <2>1. Head(units[u])[1] = w /\ Head(units[u])[2] = p
    OBVIOUS
  <2> QED  BY <2>1, Zenon DEF Retire
<1>5. /\ completed'[w] = completed[w] \cup {p}
      /\ \A v \in Wavefronts : v # w => completed'[v] = completed[v]
  BY <1>1, <1>2, <1>4
<1>6. ASSUME NEW v \in Wavefronts
      PROVE  Issued(v)' = Issued(v)
  <2>1. CASE v = w
    BY <1>2, <1>5, <2>1 DEF Issued
  <2>2. CASE v # w
    BY <1>2, <1>5, <2>2 DEF Issued
  <2> QED  BY <2>1, <2>2
<1>7. \A v \in Wavefronts : /\ InFetch(v)' = InFetch(v) /\ InSpec(v)' = InSpec(v)
                            /\ InPre(v)' = InPre(v)
  BY <1>3 DEF InFetch, InSpec, InPre
<1>8. ASSUME NEW v \in Wavefronts
      PROVE  UopsPlaced(v)'
  <2>1. InUnits(v)' \cap completed'[v] = {}
    <3>1. UopsPlaced(v)
      BY DEF PlacesInv
    <3>2. CASE v = w
      BY <1>2, <1>5, <3>1, <3>2 DEF UopsPlaced
    <3>3. CASE v # w
      BY <1>2, <1>5, <3>1, <3>3 DEF UopsPlaced
    <3> QED  BY <3>2, <3>3
  <2> QED  BY <1>3, <1>6, <1>7, <2>1 DEF UopsPlaced, PlacesInv
<1>9. InflightExact'
  <2>1. p \notin InFetch(w) /\ p \notin InSpec(w)
    BY <1>2 DEF PlacesInv, UopsPlaced, Issued
  <2>2. InFlight(w)' = (InFlight(w) \ {p}) \cup {} /\ {} \cap (InFlight(w) \ {p}) = {}
    BY <1>2, <1>7, <2>1 DEF InFlight
  <2>3. \A v \in Wavefronts : v # w => InFlight(v)' = InFlight(v)
    BY <1>2, <1>7 DEF InFlight
  <2>4. {p} \in SUBSET InFlight(w) /\ {} \in SUBSET PCs
    BY <1>2 DEF InFlight
  <2>5. /\ Cardinality(InFlightUops)'
             = Cardinality(InFlightUops) - Cardinality({p}) + Cardinality({})
        /\ Cardinality(InFlightUops) \in Nat
    BY <1>1, <1>2, <2>2, <2>3, <2>4, InFlightChange
  <2>6. Cardinality({p}) = 1 /\ Cardinality({}) = 0
    BY FS_Singleton, FS_EmptySet
  <2>7. inflight = Cardinality(InFlightUops)
    BY DEF CountersInv, InflightExact
  <2>8. inflight' = Cardinality(InFlightUops)'
    BY <1>4, <2>5, <2>6, <2>7
  <2> QED  BY <2>8 DEF InflightExact
<1>10. LgkmExact'
  <2> SUFFICES ASSUME NEW v \in Wavefronts
               PROVE  lgkm'[v] = Cardinality(MemoryUops(v)')
    BY DEF LgkmExact
  <2>1. lgkm[v] = Cardinality(MemoryUops(v))
    BY DEF CountersInv, LgkmExact
  <2>2. CASE v # w
    BY <1>1, <1>2, <1>4, <2>1, <2>2 DEF MemoryUops
  <2>3. CASE v = w /\ ~ IsMemory(Program[p])
    <3>1. MemoryUops(v)' = MemoryUops(v)
      BY <1>2, <2>3 DEF MemoryUops
    <3>2. lgkm'[v] = lgkm[v]
      BY <1>1, <1>4, <2>3
    <3> QED  BY <2>1, <3>1, <3>2
  <2>4. CASE v = w /\ IsMemory(Program[p])
    <3>1. MemoryUops(v)' = MemoryUops(v) \ {p} /\ p \in MemoryUops(v)
      BY <1>2, <2>4 DEF MemoryUops
    <3>2. lgkm'[v] = lgkm[v] - 1
      BY <1>1, <1>4, <2>4
    <3>3. IsFiniteSet(MemoryUops(v))
      <4>1. MemoryUops(v) \subseteq PCs
        BY DEF MemoryUops, InUnits
      <4> QED  BY <1>1, <4>1, InFlightFinite, FS_Subset
    <3>4. Cardinality(MemoryUops(v) \ {p}) = Cardinality(MemoryUops(v)) - 1
      BY <3>1, <3>3, FS_RemoveElement
    <3> QED  BY <2>1, <3>1, <3>2, <3>4
  <2> QED  BY <2>2, <2>3, <2>4
<1> QED  BY <1>2, <1>6, <1>8, <1>9, <1>10 DEF CountersInv, Issued

-----------------------------------------------------------------------------
(***************************************************************************)
(* The whole invariant, one lemma per group of actions.                    *)
(***************************************************************************)
\* Passing a barrier is decided by what was issued and who waits.
LEMMA PassedFrame ==
    ASSUME SamePassed, atBarrier' = atBarrier,
           \A v \in Wavefronts : Issued(v)' = Issued(v)
    PROVE  SamePassed'
  BY DEF SamePassed, BarriersPassed, BarriersIssued

\* Fetch emulates s_endpgm last, and puts it at the end of the fetch buffer.
LEMMA FetchUops ==
    ASSUME UopsInv, NEW w \in Wavefronts, Fetch(w)
    PROVE  UopsInv'
<1>0. /\ TypeOK /\ PlacesInv /\ InflightExact /\ LgkmExact /\ EndInv /\ SamePassed
      /\ StrandedInv /\ Last \in Nat \ {0} /\ pc[w] \in 1 .. Last + 1
  BY KernelAssumption DEF UopsInv, PlacesInv, StrandedInv, CountersInv, TypeOK
<1>1. StrandedInv' /\ TypeOK'
  BY <1>0, NextStranded DEF Next, StrandedInv
<1>2. PlacesInv' /\ InflightExact'
  BY <1>0, <1>1, FetchNormalPlaces, FetchHintPlaces DEF Fetch, PlacesInv
<1>3. /\ \A v \in Wavefronts : InUnits(v)' = InUnits(v) /\ Issued(v)' = Issued(v)
      /\ units' = units /\ lgkm' = lgkm /\ mapped /\ mapped' = mapped /\ ended' = ended
      /\ mode' = mode /\ memWait' = memWait /\ atBarrier' = atBarrier
      /\ ~ Finished(w)
      /\ \A v \in Wavefronts : v # w => pc'[v] = pc[v] /\ fetchBuf'[v] = fetchBuf[v]
  BY <1>0, FetchFrame, UnitsFrame
<1>4. LgkmExact'
  BY <1>0, <1>3 DEF LgkmExact, MemoryUops
<1>5. EndIsLast'
  <2>1. ASSUME Finished(w)'
        PROVE  fetchBuf'[w] # <<>> /\ fetchBuf'[w][Len(fetchBuf'[w])] = Last
    <3>1. CASE FetchNew(w)
      <4>1. pc'[w] = pc[w] + 1 /\ fetchBuf'[w] = Append(fetchBuf[w], pc[w])
        BY <1>0, <3>1 DEF FetchNew, TypeOK
      <4>2. pc[w] = Last
        BY <1>0, <1>3, <2>1, <4>1 DEF Finished
      <4>3. fetchBuf[w] \in Seq(PCs)
        BY <1>0 DEF TypeOK
      <4> QED  BY <4>1, <4>2, <4>3
    <3>2. CASE FetchHintAhead(w)
      <4>1. pc'[w] = HintTarget(w) + 1
        BY <1>0, <3>2 DEF FetchHintAhead, TypeOK
      <4>2. HintTarget(w) \in Int /\ HintTarget(w) < Last
        BY <1>0, HintTargetBefore
      <4> QED  BY <1>0, <2>1, <4>1, <4>2 DEF Finished
    <3>3. CASE FetchPreExecuted(w) \/ FetchSpeculated(w) \/ FetchHintBehind(w)
               \/ FetchHintIdle(w)
      <4>1. pc' = pc
        BY <3>3 DEF FetchPreExecuted, FetchSpeculated, FetchHintBehind, FetchHintIdle
      <4> QED  BY <1>3, <2>1, <4>1 DEF Finished
    <3> QED  BY <3>1, <3>2, <3>3 DEF Fetch
  <2>2. ASSUME NEW v \in Wavefronts, v # w, Finished(v)'
        PROVE  \/ fetchBuf'[v] # <<>> /\ fetchBuf'[v][Len(fetchBuf'[v])] = Last
               \/ fetchBuf'[v] = <<>> /\ mode'[v] = 0 /\ ~ memWait'[v] /\ ~ atBarrier'[v]
    BY <1>0, <1>3, <2>2 DEF EndInv, EndIsLast, Finished
  <2> QED  BY <2>1, <2>2 DEF EndIsLast
<1>6. EndedIsFinished'
  BY <1>0, <1>3 DEF EndInv, EndedIsFinished, Finished
<1>7. EndInv'
  BY <1>0, <1>3, <1>5, <1>6 DEF EndInv, ModeNeedsHints, HasHints, NothingLeft, CleanUnmap
<1>8. SamePassed'
  BY <1>0, <1>3, PassedFrame
<1> QED  BY <1>2, <1>4, <1>7, <1>8 DEF UopsInv, CountersInv

\* A finite number of barriers was issued.
LEMMA IssuedFinite ==
    ASSUME TypeOK, NEW w \in Wavefronts
    PROVE  /\ IsFiniteSet({p \in Issued(w) : Program[p] = "barrier"})
           /\ BarriersIssued(w) \in Nat
<1>1. {p \in Issued(w) : Program[p] = "barrier"} \subseteq PCs
  BY DEF Issued, InUnits, TypeOK
<1>2. IsFiniteSet({p \in Issued(w) : Program[p] = "barrier"})
  BY <1>1, InFlightFinite, FS_Subset
<1> QED  BY <1>2, FS_CardinalityType DEF BarriersIssued

\* Issuing a barrier makes the wavefront wait; no other uop does.
LEMMA IssuePassed ==
    ASSUME TypeOK, SamePassed, NEW w \in Wavefronts, NEW p, IssuedFrom(w, p),
           Issued(w)' = Issued(w) \cup {p},
           \A v \in Wavefronts : v # w => Issued(v)' = Issued(v)
    PROVE  SamePassed'
<1> DEFINE B(v) == {q \in Issued(v) : Program[q] = "barrier"}
<1>0. /\ atBarrier \in [Wavefronts -> BOOLEAN] /\ ~ atBarrier[w] /\ p \notin Issued(w)
      /\ atBarrier' = [atBarrier EXCEPT ![w] = Program[p] = "barrier"]
  BY DEF TypeOK, IssuedFrom
<1>1. \A v \in Wavefronts : v # w => BarriersPassed(v)' = BarriersPassed(v)
  BY <1>0 DEF BarriersPassed, BarriersIssued
<1>2. BarriersIssued(w) \in Nat /\ IsFiniteSet(B(w))
  BY IssuedFinite
<1>3. BarriersPassed(w)' = BarriersPassed(w)
  <2>1. CASE Program[p] = "barrier"
    <3>1. B(w)' = B(w) \cup {p} /\ p \notin B(w)
      BY <1>0, <2>1
    <3>2. Cardinality(B(w) \cup {p}) = Cardinality(B(w)) + 1
      <4> HIDE DEF B
      <4> QED  BY <1>2, <3>1, FS_AddElement
    <3>3. BarriersIssued(w)' = BarriersIssued(w) + 1
      BY <3>1, <3>2 DEF BarriersIssued
    <3>4. atBarrier'[w] /\ ~ atBarrier[w]
      BY <1>0, <2>1
    <3> QED  BY <1>2, <3>3, <3>4 DEF BarriersPassed
  <2>2. CASE Program[p] # "barrier"
    <3>1. B(w)' = B(w)
      BY <1>0, <2>2
    <3>2. BarriersIssued(w)' = BarriersIssued(w)
      BY <3>1 DEF BarriersIssued
    <3>3. ~ atBarrier'[w] /\ ~ atBarrier[w]
      BY <1>0, <2>2
    <3> QED  BY <3>2, <3>3 DEF BarriersPassed
  <2> QED  BY <2>1, <2>2
<1>4. \A v \in Wavefronts : BarriersPassed(v)' = BarriersPassed(v)
  BY <1>1, <1>3
<1> QED  BY <1>4 DEF SamePassed

\* Issue takes the uops of the fetch buffer in order: s_endpgm is the last one,
\* and when it leaves the wavefront waits for nothing.
LEMMA IssueUops ==
    ASSUME UopsInv, NEW w \in Wavefronts, IssueStep(w)
    PROVE  UopsInv'
<1>0. /\ TypeOK /\ PlacesInv /\ CountersInv /\ EndInv /\ SamePassed
      /\ StrandedInv /\ Last \in Nat \ {0}
  BY KernelAssumption DEF UopsInv, PlacesInv, StrandedInv
<1>1. StrandedInv' /\ TypeOK'
  BY <1>0, NextStranded DEF Next, StrandedInv
<1>2. CASE EndWait(w)
  <2>1. /\ mapped /\ mapped' = mapped /\ ended' = ended /\ atBarrier' = atBarrier
        /\ lgkm' = lgkm /\ units' = units /\ inflight' = inflight
        /\ completed' = completed /\ pc' = pc /\ fetchBuf' = fetchBuf
        /\ specBuf' = specBuf /\ preBuf' = preBuf
        /\ memWait' = [memWait EXCEPT ![w] = FALSE] /\ mode' = [mode EXCEPT ![w] = 0]
    BY <1>2 DEF EndWait, front, group
  <2>2. /\ \A v \in Wavefronts : InUnits(v)' = InUnits(v) /\ Issued(v)' = Issued(v)
        /\ UnitsPlaced'
    BY <1>0, <2>1, UnitsFrame DEF PlacesInv
  <2>3. \A v \in Wavefronts : UopsPlaced(v)'
    BY <1>0, <2>1, <2>2, PlacesFrame DEF PlacesInv
  <2>4. InflightExact'
    <3>1. \A v \in Wavefronts : InFlight(v)' = InFlight(v)
      BY <2>1, <2>2 DEF InFlight, InFetch, InSpec
    <3> QED  BY <1>0, <1>1, <2>1, <3>1, InFlightSame DEF CountersInv
  <2>5. LgkmExact'
    BY <1>0, <2>1, <2>2 DEF CountersInv, LgkmExact, MemoryUops
  <2>6. mode \in [Wavefronts -> {0, 1}] /\ memWait \in [Wavefronts -> BOOLEAN]
    BY <1>0 DEF TypeOK
  <2>7. EndIsLast' /\ ModeNeedsHints'
    BY <1>0, <2>1, <2>6 DEF EndInv, EndIsLast, ModeNeedsHints, Finished, HasHints
  <2>8. EndInv'
    BY <1>0, <2>1, <2>7 DEF EndInv, EndedIsFinished, Finished, NothingLeft, CleanUnmap
  <2>9. SamePassed'
    BY <1>0, <2>1, <2>2, PassedFrame
  <2> QED  BY <1>1, <2>2, <2>3, <2>4, <2>5, <2>8, <2>9 DEF UopsInv, PlacesInv, CountersInv
<1>3. ASSUME NEW p, IssuedFrom(w, p)
      PROVE  PlacesInv' /\ CountersInv' /\ SamePassed'
  <2>1. /\ \A v \in Wavefronts : UopsPlaced(v)'
        /\ UnitsPlaced' /\ CountersInv'
        /\ Issued(w)' = Issued(w) \cup {p}
        /\ \A v \in Wavefronts : v # w => Issued(v)' = Issued(v)
    BY <1>0, <1>1, <1>3, IssuePlaces
  <2>2. SamePassed'
    BY <1>0, <1>3, <2>1, IssuePassed
  <2> QED  BY <1>1, <2>1, <2>2 DEF PlacesInv
<1>4. ASSUME NEW b \in {fetchBuf, specBuf}, IssueFrom(b, w)
      PROVE  /\ \A v \in Wavefronts : v # w =>
                  /\ mode'[v] = mode[v] /\ memWait'[v] = memWait[v]
                  /\ atBarrier'[v] = atBarrier[v]
             /\ ModeNeedsHints'
  <2>1. /\ mode \in [Wavefronts -> {0, 1}] /\ memWait \in [Wavefronts -> BOOLEAN]
        /\ atBarrier \in [Wavefronts -> BOOLEAN] /\ ModeNeedsHints
    BY <1>0 DEF TypeOK, EndInv
  <2>2. \A v \in Wavefronts : v # w =>
           /\ mode'[v] = mode[v] /\ memWait'[v] = memWait[v]
           /\ atBarrier'[v] = atBarrier[v]
    BY <1>4, <2>1 DEF IssueFrom
  <2>3. mode'[w] = 1 => HasHints
    <3>1. mode'[w] = IF Program[Head(b[w])] = "wait" /\ HasHints THEN 1 ELSE ModeNow(w)
      BY <1>4, <2>1 DEF IssueFrom
    <3> QED  BY <2>1, <3>1 DEF ModeNow, ModeNeedsHints
  <2>4. ModeNeedsHints'
    BY <2>1, <2>2, <2>3 DEF ModeNeedsHints, HasHints
  <2> QED  BY <2>2, <2>4
<1>5. CASE Issue(w)
  <2>1. IssuedFrom(w, Head(fetchBuf[w]))
    BY <1>0, <1>5, IssueFetched
  <2>2. PlacesInv' /\ CountersInv' /\ SamePassed'
    BY <1>3, <2>1
  <2>3. /\ mapped /\ mapped' = mapped /\ ended' = ended /\ pc' = pc
        /\ \A v \in Wavefronts : v # w => fetchBuf'[v] = fetchBuf[v]
    BY <2>1 DEF IssuedFrom
  <2>4. /\ \A v \in Wavefronts : v # w =>
             /\ mode'[v] = mode[v] /\ memWait'[v] = memWait[v]
             /\ atBarrier'[v] = atBarrier[v]
        /\ ModeNeedsHints'
    BY <1>4, <1>5 DEF Issue
  <2>5. /\ fetchBuf[w] \in Seq(PCs) /\ fetchBuf[w] # <<>>
        /\ fetchBuf'[w] = Tail(fetchBuf[w])
    BY <1>0, <1>5 DEF Issue, IssueFrom, TypeOK
  <2>6. ASSUME Finished(w), fetchBuf'[w] # <<>>
        PROVE  fetchBuf'[w][Len(fetchBuf'[w])] = Last
    <3>1. fetchBuf[w][Len(fetchBuf[w])] = Last
      BY <1>0, <2>5, <2>6 DEF EndInv, EndIsLast
    <3> QED  BY <2>5, <2>6, <3>1
  <2>7. ASSUME Finished(w), fetchBuf'[w] = <<>>
        PROVE  mode'[w] = 0 /\ ~ memWait'[w] /\ ~ atBarrier'[w]
    <3>1. Head(fetchBuf[w]) = Last
      <4>1. fetchBuf[w][Len(fetchBuf[w])] = Last
        BY <1>0, <2>5, <2>7 DEF EndInv, EndIsLast
      <4>2. Len(fetchBuf[w]) = 1
        <5>1. Len(Tail(fetchBuf[w])) = Len(fetchBuf[w]) - 1 /\ Len(fetchBuf[w]) \in Nat
          BY <2>5
        <5>2. Len(Tail(fetchBuf[w])) = 0
          <6>1. Len(<<>>) = 0
            OBVIOUS
          <6> QED  BY <2>5, <2>7, <6>1, Zenon
        <5> QED  BY <5>1, <5>2
      <4> QED  BY <2>5, <4>1, <4>2
    <3>2. Program[Head(fetchBuf[w])] = "end"
      BY <1>0, <3>1, KernelAssumption DEF PCs
    <3>3. /\ mode \in [Wavefronts -> {0, 1}] /\ memWait \in [Wavefronts -> BOOLEAN]
          /\ atBarrier \in [Wavefronts -> BOOLEAN]
      BY <1>0 DEF TypeOK
    <3>4. ModeNow(w) = 0 /\ (memWait[w] => WaitIsOver(w))
      <4>1. /\ ~ (HasHints /\ ModeNow(w) = 1)
            /\ memWait[w] => WaitIsOver(w) \/ mode[w] = 1
        BY <1>5 DEF Issue, CanIssue
      <4>2. mode[w] = 1 => HasHints
        BY <1>0 DEF EndInv, ModeNeedsHints
      <4> QED  BY <3>3, <4>1, <4>2 DEF ModeNow
    <3>5. /\ memWait' = [memWait EXCEPT ![w] = \/ Program[Head(fetchBuf[w])] = "wait"
                                               \/ @ /\ ~ WaitIsOver(w)]
          /\ mode' = [mode EXCEPT ![w] = IF Program[Head(fetchBuf[w])] = "wait" /\ HasHints
                                         THEN 1 ELSE ModeNow(w)]
          /\ atBarrier' = [atBarrier EXCEPT ![w] = Program[Head(fetchBuf[w])] = "barrier"]
      BY <1>5, Zenon DEF Issue, IssueFrom
    <3>6. mode'[w] = 0
      BY <3>2, <3>3, <3>4, <3>5
    <3>7. ~ memWait'[w]
      <4>1. memWait'[w] = (\/ Program[Head(fetchBuf[w])] = "wait"
                           \/ memWait[w] /\ ~ WaitIsOver(w))
        BY <3>3, <3>5, Zenon
      <4> QED  BY <3>2, <3>4, <4>1
    <3>8. ~ atBarrier'[w]
      BY <3>2, <3>3, <3>5
    <3> QED  BY <3>6, <3>7, <3>8
  <2>8. EndIsLast'
    BY <1>0, <2>3, <2>4, <2>6, <2>7 DEF EndInv, EndIsLast, Finished
  <2>9. EndInv'
    BY <1>0, <2>3, <2>4, <2>8 DEF EndInv, EndedIsFinished, Finished, NothingLeft, CleanUnmap
  <2> QED  BY <2>2, <2>9 DEF UopsInv
<1>6. CASE IssueSpeculated(w)
  <2>1. IssuedFrom(w, Head(specBuf[w]))
    BY <1>0, <1>6, IssueHinted
  <2>2. PlacesInv' /\ CountersInv' /\ SamePassed'
    BY <1>3, <2>1
  <2>3. /\ mapped /\ mapped' = mapped /\ ended' = ended /\ pc' = pc
        /\ fetchBuf' = fetchBuf /\ specBuf[w] # <<>>
    BY <1>6, <2>1 DEF IssuedFrom, IssueSpeculated, IssueFrom
  <2>4. /\ \A v \in Wavefronts : v # w =>
             /\ mode'[v] = mode[v] /\ memWait'[v] = memWait[v]
             /\ atBarrier'[v] = atBarrier[v]
        /\ ModeNeedsHints'
    BY <1>4, <1>6 DEF IssueSpeculated
  <2>5. ~ Finished(w)
    BY <1>0, <2>3 DEF StrandedInv, NothingStranded
  <2>6. EndIsLast'
    BY <1>0, <2>3, <2>4, <2>5 DEF EndInv, EndIsLast, Finished
  <2>7. EndInv'
    BY <1>0, <2>3, <2>4, <2>6 DEF EndInv, EndedIsFinished, Finished, NothingLeft, CleanUnmap
  <2> QED  BY <2>2, <2>7 DEF UopsInv
<1> QED  BY <1>2, <1>5, <1>6 DEF IssueStep

NoneInFlight ==
    /\ \A u \in Units : units[u] = <<>>
    /\ \A w \in Wavefronts : fetchBuf[w] = <<>> /\ specBuf[w] = <<>> /\ lgkm[w] = 0

\* When nothing is in flight, the buffers of Fetch and the units are empty.
LEMMA CountsNone == PlacesInv /\ CountersInv /\ inflight = 0 => NoneInFlight
<1> SUFFICES ASSUME PlacesInv, CountersInv, inflight = 0
             PROVE  NoneInFlight
  OBVIOUS
<1>1. TypeOK
  BY DEF PlacesInv, StrandedInv
<1>2. InFlightUops = {}
  <2>1. Cardinality(InFlightUops) = 0
    BY DEF CountersInv, InflightExact
  <2> QED  BY <1>1, <2>1, InFlightFinite, FS_EmptySet
<1>3. \A w \in Wavefronts : InFetch(w) = {} /\ InSpec(w) = {} /\ InUnits(w) = {}
  <2>1. ASSUME NEW w \in Wavefronts, NEW p \in InFlight(w)
        PROVE  FALSE
    <3>1. p \in PCs
      BY <1>1, InFlightType
    <3>2. <<w, p>> \in InFlightUops
      BY <3>1 DEF InFlightUops, InFlight, InFetch, InSpec
    <3> QED  BY <1>2, <3>2
  <2> QED  BY <2>1 DEF InFlight
<1>4. ASSUME NEW u \in Units
      PROVE  units[u] = <<>>
  <2>1. units[u] \in Seq(Wavefronts \X PCs)
    BY <1>1 DEF TypeOK
  <2>2. Range(units[u]) = {}
    <3>1. ASSUME NEW x \in Range(units[u])
          PROVE  FALSE
      <4>1. x \in Wavefronts \X PCs
        BY <2>1 DEF Range
      <4>2. x[2] \in InUnits(x[1])
        BY <4>1 DEF InUnits
      <4> QED  BY <1>3, <4>1, <4>2
    <3> QED  BY <3>1
  <2> QED  BY <2>1, <2>2, RangeEmpty
<1>5. ASSUME NEW w \in Wavefronts
      PROVE  fetchBuf[w] = <<>> /\ specBuf[w] = <<>> /\ lgkm[w] = 0
  <2>1. fetchBuf[w] \in Seq(PCs) /\ specBuf[w] \in Seq(PCs)
    BY <1>1 DEF TypeOK
  <2>2. MemoryUops(w) = {}
    BY <1>3 DEF MemoryUops
  <2>3. lgkm[w] = 0
    BY <2>2, FS_EmptySet DEF CountersInv, LgkmExact
  <2> QED  BY <1>3, <2>1, <2>3, RangeEmpty DEF InFetch, InSpec
<1> QED  BY <1>4, <1>5 DEF NoneInFlight

\* The last s_endpgm of a work group unmaps it when nothing else is in flight:
\* then nothing is left in a buffer, and no wavefront waits for anything.
LEMMA CompleteUops ==
    ASSUME UopsInv, NEW u \in Units, CompleteStep(u)
    PROVE  UopsInv'
<1>0. /\ TypeOK /\ PlacesInv /\ CountersInv /\ EndInv /\ SamePassed
      /\ StrandedInv /\ Last \in Nat \ {0}
  BY KernelAssumption DEF UopsInv, PlacesInv, StrandedInv
<1>1. StrandedInv' /\ TypeOK'
  BY <1>0, NextStranded DEF Next, StrandedInv
<1>2. /\ units[u] # <<>> /\ Retire(u) /\ UNCHANGED front
      /\ mode' = mode /\ memWait' = memWait
  BY DEF CompleteStep, Complete, CompleteBarrier, CompleteEnd, flags
<1>3. PICK w, p : Head(units[u]) = <<w, p>>
  <2>1. Head(units[u]) \in Wavefronts \X PCs
    BY <1>0, <1>2 DEF TypeOK
  <2> QED  BY <2>1
<1>4. /\ \A v \in Wavefronts : UopsPlaced(v)' /\ Issued(v)' = Issued(v)
      /\ UnitsPlaced' /\ CountersInv'
      /\ w \in Wavefronts /\ p \in PCs /\ p \in Issued(w)
  BY <1>0, <1>1, <1>2, <1>3, RetirePlaces
<1>5. PlacesInv'
  BY <1>1, <1>4 DEF PlacesInv
<1>6. mapped
  BY <1>0, <1>2 DEF EndInv, NothingLeft
<1>7. pc' = pc /\ fetchBuf' = fetchBuf /\ specBuf' = specBuf /\ preBuf' = preBuf
  BY <1>2 DEF front
<1>8. ModeNeedsHints'
  BY <1>0, <1>2 DEF EndInv, ModeNeedsHints, HasHints
<1>9. CASE Complete(u)
  <2>1. ended' = ended /\ mapped' = mapped /\ atBarrier' = atBarrier
    BY <1>9 DEF Complete, flags, group
  <2>2. EndInv'
    BY <1>0, <1>2, <1>6, <1>7, <1>8, <2>1
       DEF EndInv, EndIsLast, EndedIsFinished, Finished, NothingLeft, CleanUnmap
  <2>3. SamePassed'
    BY <1>0, <1>4, <2>1, PassedFrame
  <2> QED  BY <1>4, <1>5, <2>2, <2>3 DEF UopsInv
<1>10. CASE u = "scalar" /\ CompleteBarrier
  <2>1. /\ ended' = ended /\ mapped' = mapped
        /\ atBarrier' = IF \A v \in Wavefronts : atBarrier[v]
                        THEN [v \in Wavefronts |-> FALSE] ELSE atBarrier
    BY <1>10 DEF CompleteBarrier, group
  <2>2. \A v \in Wavefronts : atBarrier'[v] => atBarrier[v]
    BY <2>1
  <2>3. EndIsLast'
    BY <1>0, <1>2, <1>7, <2>2 DEF EndInv, EndIsLast, Finished
  <2>4. EndInv'
    BY <1>0, <1>6, <1>7, <1>8, <2>1, <2>3
       DEF EndInv, EndedIsFinished, Finished, NothingLeft, CleanUnmap
  <2>5. SamePassed'
    <3>1. CASE \A v \in Wavefronts : atBarrier[v]
      <4>1. \A v \in Wavefronts : BarriersIssued(v)' = BarriersIssued(v)
        BY <1>4 DEF BarriersIssued
      <4>2. \A v \in Wavefronts : BarriersIssued(v) \in Nat
        BY <1>0, IssuedFinite
      <4>3. \A v \in Wavefronts : BarriersPassed(v) = BarriersIssued(v) - 1
        BY <3>1 DEF BarriersPassed
      <4>4. \A v \in Wavefronts : BarriersPassed(v)' = BarriersIssued(v)
        BY <2>1, <3>1, <4>1, <4>2 DEF BarriersPassed
      <4>5. ASSUME NEW x \in Wavefronts, NEW y \in Wavefronts
            PROVE  BarriersPassed(x)' = BarriersPassed(y)'
        <5>1. BarriersPassed(x) = BarriersPassed(y)
          BY <1>0 DEF SamePassed
        <5> QED  BY <4>2, <4>3, <4>4, <5>1
      <4> QED  BY <4>5 DEF SamePassed
    <3>2. CASE ~ \A v \in Wavefronts : atBarrier[v]
      BY <1>0, <1>4, <2>1, <3>2, PassedFrame
    <3> QED  BY <3>1, <3>2
  <2> QED  BY <1>4, <1>5, <2>4, <2>5 DEF UopsInv
<1>11. CASE u = "scalar" /\ CompleteEnd
  <2>1. /\ Program[p] = "end" /\ ended' = [ended EXCEPT ![w] = TRUE]
        /\ mapped' = ~ ((\A v \in Wavefronts : ended'[v]) /\ inflight = 1)
        /\ atBarrier' = atBarrier
    <3>1. Head(units["scalar"])[1] = w /\ Head(units["scalar"])[2] = p
      BY <1>3, <1>11
    <3> QED  BY <1>11, <3>1 DEF CompleteEnd, flags
  <2>2. Finished(w)
    <3>1. p = Last
      BY <1>4, <2>1, KernelAssumption
    <3>2. p \in 1 .. pc[w] - 1 /\ pc[w] \in 1 .. Last + 1
      BY <1>0, <1>4 DEF PlacesInv, UopsPlaced, TypeOK
    <3> QED  BY <1>0, <3>1, <3>2 DEF Finished
  <2>3. EndedIsFinished'
    <3>1. ended \in [Wavefronts -> BOOLEAN]
      BY <1>0 DEF TypeOK
    <3> QED  BY <1>0, <1>4, <1>7, <2>1, <2>2, <3>1 DEF EndInv, EndedIsFinished, Finished
  <2>4. EndIsLast'
    BY <1>0, <1>2, <1>7, <2>1 DEF EndInv, EndIsLast, Finished
  <2>5. NothingLeft' /\ CleanUnmap'
    <3> SUFFICES ASSUME ~ mapped'
                 PROVE  /\ \A v \in Units : units'[v] = <<>>
                        /\ \A v \in Wavefronts :
                             /\ lgkm'[v] = 0 /\ ~ memWait'[v] /\ ~ atBarrier'[v]
                             /\ mode'[v] = 0 /\ fetchBuf'[v] = <<>>
                             /\ specBuf'[v] = <<>> /\ preBuf'[v] = <<>>
      BY DEF NothingLeft, CleanUnmap
    <3>1. \A v \in Wavefronts : Finished(v)'
      BY <2>1, <2>3 DEF EndedIsFinished
    <3>2. inflight' = 0
      <4>1. inflight = 1 /\ inflight' = inflight - 1
        BY <1>2, <2>1, Zenon DEF Retire
      <4> QED  BY <4>1
    <3>3. NoneInFlight'
      <4>1. PlacesInv' /\ CountersInv' /\ (inflight = 0)'
        BY <1>4, <1>5, <3>2
      <4> QED  BY <4>1, CountsNone, PTL
    <3>4. \A v \in Wavefronts : preBuf'[v] = <<>>
      BY <1>1, <3>1 DEF StrandedInv, NothingStranded
    <3>5. \A v \in Wavefronts : mode'[v] = 0 /\ ~ memWait'[v] /\ ~ atBarrier'[v]
      BY <2>4, <3>1, <3>3 DEF EndIsLast, NoneInFlight
    <3> QED  BY <3>3, <3>4, <3>5 DEF NoneInFlight
  <2>6. SamePassed'
    BY <1>0, <1>4, <2>1, PassedFrame
  <2> QED  BY <1>4, <1>5, <1>8, <2>3, <2>4, <2>5, <2>6 DEF UopsInv, EndInv
<1> QED  BY <1>9, <1>10, <1>11 DEF CompleteStep

\* The next work group finds the entries as they were in the beginning.
LEMMA MapUops ==
    ASSUME UopsInv, MapWorkGroup
    PROVE  UopsInv'
<1>0. TypeOK /\ PlacesInv /\ CountersInv /\ EndInv /\ StrandedInv
  BY DEF UopsInv, PlacesInv, StrandedInv
<1>1. StrandedInv' /\ TypeOK'
  BY <1>0, NextStranded DEF Next, StrandedInv
<1>2. /\ ~ mapped /\ mapped' /\ pc' = [w \in Wavefronts |-> 1]
      /\ ended' = [w \in Wavefronts |-> FALSE] /\ inflight' = 0
      /\ completed' = [w \in Wavefronts |-> {}]
      /\ fetchBuf' = fetchBuf /\ specBuf' = specBuf /\ preBuf' = preBuf
      /\ mode' = mode /\ memWait' = memWait /\ atBarrier' = atBarrier
      /\ lgkm' = lgkm /\ units' = units
  BY DEF MapWorkGroup, flags
<1>3. \A u \in Units : units'[u] = <<>>
  BY <1>0, <1>2 DEF EndInv, NothingLeft
<1>4. \A w \in Wavefronts :
        /\ lgkm'[w] = 0 /\ ~ memWait'[w] /\ ~ atBarrier'[w] /\ mode'[w] = 0
        /\ fetchBuf'[w] = <<>> /\ specBuf'[w] = <<>> /\ preBuf'[w] = <<>>
  BY <1>0, <1>2 DEF EndInv, CleanUnmap
<1>5. \A w \in Wavefronts :
        /\ InFetch(w)' = {} /\ InSpec(w)' = {} /\ InPre(w)' = {}
        /\ InUnits(w)' = {} /\ completed'[w] = {} /\ Issued(w)' = {}
  BY <1>2, <1>3, <1>4, EmptyRange DEF InFetch, InSpec, InPre, InUnits, Issued
<1>6. PlacesInv'
  <2>1. \A w \in Wavefronts : 1 .. pc'[w] - 1 = {}
    BY <1>2
  <2>2. \A w \in Wavefronts : UopsPlaced(w)'
    BY <1>4, <1>5, <2>1, EmptyRange DEF UopsPlaced
  <2>3. UnitsPlaced'
    BY <1>3, EmptyRange DEF UnitsPlaced
  <2> QED  BY <1>1, <2>2, <2>3 DEF PlacesInv
<1>7. CountersInv'
  <2>1. InFlightUops' = {}
    BY <1>5 DEF InFlightUops, InFetch, InSpec
  <2>2. \A w \in Wavefronts : MemoryUops(w)' = {}
    BY <1>5 DEF MemoryUops
  <2> QED  BY <1>2, <1>4, <2>1, <2>2, FS_EmptySet
           DEF CountersInv, InflightExact, LgkmExact
<1>8. EndInv'
  <2>1. \A w \in Wavefronts : ~ Finished(w)'
    BY <1>2, KernelAssumption DEF Finished
  <2> QED  BY <1>2, <1>4, <2>1 DEF EndInv, ModeNeedsHints, EndIsLast, EndedIsFinished,
                                  NothingLeft, CleanUnmap
<1>9. SamePassed'
  <2>1. \A w \in Wavefronts : {p \in Issued(w)' : Program[p] = "barrier"} = {}
    BY <1>5
  <2>2. \A w \in Wavefronts : BarriersIssued(w)' = 0
    BY <2>1, FS_EmptySet DEF BarriersIssued
  <2>3. \A w \in Wavefronts : BarriersPassed(w)' = 0
    BY <1>4, <2>2 DEF BarriersPassed
  <2> QED  BY <2>3 DEF SamePassed
<1> QED  BY <1>6, <1>7, <1>8, <1>9 DEF UopsInv

\* A step of another part of the simulator changes nothing.
LEMMA StutterUops == UopsInv /\ UNCHANGED vars => UopsInv'
<1> SUFFICES ASSUME UopsInv, UNCHANGED vars
             PROVE  UopsInv'
  OBVIOUS
<1> USE DEF vars, front, flags, group
<1>0. PlacesInv /\ CountersInv /\ EndInv /\ SamePassed
  BY DEF UopsInv
<1>1. \A w : InUnits(w)' = InUnits(w) /\ Issued(w)' = Issued(w)
  BY UnitsFrame
<1>2. PlacesInv'
  <2>1. StrandedInv'
    BY <1>0, NextStranded DEF PlacesInv
  <2>2. UnitsPlaced'
    BY <1>0 DEF PlacesInv, UnitsPlaced
  <2>3. \A w \in Wavefronts : UopsPlaced(w)'
    BY <1>0, <1>1 DEF PlacesInv, UopsPlaced, InFetch, InSpec, InPre
  <2> QED  BY <2>1, <2>2, <2>3 DEF PlacesInv
<1>3. CountersInv'
  BY <1>0, <1>1 DEF CountersInv, InflightExact, LgkmExact, MemoryUops, InFlightUops
<1>4. EndInv'
  BY <1>0 DEF EndInv, ModeNeedsHints, EndIsLast, EndedIsFinished, NothingLeft,
              CleanUnmap, Finished, HasHints
<1>5. SamePassed'
  BY <1>0, <1>1, PassedFrame
<1> QED  BY <1>2, <1>3, <1>4, <1>5 DEF UopsInv

\* An empty compute unit satisfies the invariant.
LEMMA InitUops == Init => UopsInv
<1> SUFFICES ASSUME Init
             PROVE  UopsInv
  OBVIOUS
<1>1. StrandedInv
  BY InitStranded
<1>2. \A w \in Wavefronts :
        /\ InFetch(w) = {} /\ InSpec(w) = {} /\ InPre(w) = {}
        /\ InUnits(w) = {} /\ completed[w] = {} /\ Issued(w) = {}
  BY EmptyRange DEF Init, InFetch, InSpec, InPre, InUnits, Issued
<1>3. PlacesInv
  <2>1. \A w \in Wavefronts : 1 .. pc[w] - 1 = {}
    BY DEF Init
  <2>2. \A w \in Wavefronts : UopsPlaced(w)
    BY <1>2, <2>1, EmptyRange DEF Init, UopsPlaced
  <2>3. UnitsPlaced
    BY EmptyRange DEF Init, UnitsPlaced
  <2> QED  BY <1>1, <2>2, <2>3 DEF PlacesInv
<1>4. CountersInv
  <2>1. InFlightUops = {}
    BY <1>2 DEF InFlightUops, InFetch, InSpec
  <2>2. \A w \in Wavefronts : MemoryUops(w) = {}
    BY <1>2 DEF MemoryUops
  <2> QED  BY <2>1, <2>2, FS_EmptySet DEF Init, CountersInv, InflightExact, LgkmExact
<1>5. EndInv
  <2>1. \A w \in Wavefronts : ~ Finished(w)
    BY KernelAssumption DEF Init, Finished
  <2> QED  BY <2>1 DEF Init, EndInv, ModeNeedsHints, EndIsLast, EndedIsFinished,
                      NothingLeft, CleanUnmap
<1>6. SamePassed
  <2>1. \A w \in Wavefronts : {p \in Issued(w) : Program[p] = "barrier"} = {}
    BY <1>2
  <2>2. \A w \in Wavefronts : BarriersIssued(w) = 0
    BY <2>1, FS_EmptySet DEF BarriersIssued
  <2> QED  BY <2>2 DEF Init, SamePassed, BarriersPassed
<1> QED  BY <1>3, <1>4, <1>5, <1>6 DEF UopsInv

\* Every step of the compute unit keeps the invariant.
LEMMA NextUops == UopsInv /\ [Next]_vars => UopsInv'
  BY FetchUops, IssueUops, CompleteUops, MapUops, StutterUops DEF Next

LEMMA UopsInvariant == Spec => []UopsInv
  BY InitUops, NextUops, PTL DEF Spec

\* However the modes alternate, no emulated uop is lost or duplicated: it is in
\* one of the buffers, in a unit or completed, and in one of them only.
THEOREM UopsAreConserved == Spec => []UopsConserved
<1>1. UopsInv => UopsConserved
  <2> SUFFICES ASSUME UopsInv, NEW w \in Wavefronts
               PROVE  /\ IsInjective(fetchBuf[w] \o specBuf[w] \o preBuf[w])
                      /\ Range(fetchBuf[w] \o specBuf[w] \o preBuf[w])
                           = (1 .. pc[w] - 1) \ Issued(w)
                      /\ Issued(w) \subseteq 1 .. pc[w] - 1
                      /\ InUnits(w) \cap completed[w] = {}
    BY DEF UopsConserved
  <2> DEFINE q == fetchBuf[w] \o specBuf[w]
  <2>1. /\ fetchBuf[w] \in Seq(PCs) /\ specBuf[w] \in Seq(PCs) /\ preBuf[w] \in Seq(PCs)
        /\ UopsPlaced(w)
    BY DEF UopsInv, PlacesInv, StrandedInv, TypeOK
  <2>2. q \in Seq(PCs) /\ Range(q) = InFetch(w) \cup InSpec(w) /\ IsInjective(q)
    BY <2>1, ConcatRange DEF UopsPlaced, InFetch, InSpec
  <2>3. Range(q) \cap Range(preBuf[w]) = {} /\ IsInjective(preBuf[w])
    BY <2>1, <2>2 DEF UopsPlaced, InPre
  <2> HIDE DEF q
  <2>4. Range(q \o preBuf[w]) = Range(q) \cup InPre(w) /\ IsInjective(q \o preBuf[w])
    BY <2>1, <2>2, <2>3, ConcatRange DEF InPre
  <2> QED  BY <2>1, <2>2, <2>4 DEF UopsPlaced, q
<1> QED  BY <1>1, UopsInvariant, PTL

\* inflight_instructions, with which ScalarUnit::Complete decides over the end
\* of a work group, is exactly the number of uops in the buffers of Fetch and
\* in the units, although Fetch takes uops out of the count and puts them back.
THEOREM InflightIsExact == Spec => []InflightExact
  BY UopsInvariant, PTL DEF UopsInv, CountersInv

\* A work group is unmapped only when its entries are as WavefrontPoolEntry::
\* Clear asserts and as the next wavefronts need them.
THEOREM UnmapIsClean == Spec => []CleanUnmap
  BY UopsInvariant, PTL DEF UopsInv, EndInv

\* The barrier holds every wavefront until all of them have issued it: they
\* have passed the same number of barriers at any time.
THEOREM BarriersInLockstep == Spec => []BarrierLockstep
<1>1. UopsInv => BarrierLockstep
  <2> SUFFICES ASSUME UopsInv, NEW v \in Wavefronts, NEW w \in Wavefronts
               PROVE  BarriersIssued(v) <= BarriersIssued(w) + 1
    BY DEF BarrierLockstep
  <2>1. BarriersIssued(v) \in Nat /\ BarriersIssued(w) \in Nat
    BY IssuedFinite DEF UopsInv, PlacesInv, StrandedInv
  <2>2. BarriersPassed(v) = BarriersPassed(w)
    BY DEF UopsInv, SamePassed
  <2> QED  BY <2>1, <2>2 DEF BarriersPassed
<1> QED  BY <1>1, UopsInvariant, PTL
=============================================================================
