-------------------------- MODULE X86Registers_proof --------------------------
(***************************************************************************)
(* Proofs about the registers of the x86 thread: in whatever order uops    *)
(* are renamed, written back, squashed and committed, the books of the     *)
(* register file are exact, and none of its assertions fails.              *)
(***************************************************************************)
EXTENDS X86Thread_proof, RegisterFile_proof

(***************************************************************************)
(* The books of queue q, which holds uops in program order.                *)
(***************************************************************************)
RenamedOf(q, us) == UNION {{<<x, i>> : i \in DOMAIN us[x].out} : x \in Range(q)}
PlaceIn(q) == [x \in Range(q) |-> CHOOSE i \in DOMAIN q : q[i] = x]

\* A uop that has been renamed when the top of the stack was top.
Sized(u, top) ==
    LET n == Len(u.inst.out)
    IN  /\ u.out \in [1 .. n -> Int] /\ u.old \in [1 .. n -> Int] /\ DOMAIN u.dst = 1 .. n
        /\ \A i \in 1 .. n : u.dst[i] = RelativeTo(top, u.inst.out[i])

\* t[i] is the top of the stack after the i-th uop has been renamed.
TurnsBy(q, us, t) ==
    /\ t \in [0 .. Len(q) -> 0 .. StackSize - 1]
    /\ \A i \in 1 .. Len(q) :
        t[i] = TopAfter(t[i - 1], us[q[i]].inst.op) /\ Sized(us[q[i]], t[i])
Turns(q, us, top) == \E t : TurnsBy(q, us, t) /\ t[Len(q)] = top

Exact(file, us, q) ==
    Books(file, us, RenamedOf(q, us), PlaceIn(q), {}) /\ Turns(q, us, file.top)

\* An output that has not been written is pending.
PendingComplete(file, us, q) ==
    \A e \in RenamedOf(q, us) : ~ IsDone(us, e) => file.pending[KindIn(us, e)][New(us, e)]

(***************************************************************************)
(* The inductive invariant.                                                *)
(***************************************************************************)
InstInv ==
    \A x \in UopIds : uops[x] # NoUop =>
        /\ uops[x].inst \in Micros
        /\ uops[x].inst.op = "store" => uops[x].out = <<>>
        /\ uops[x].spec /\ uops[x].inst.op = "load" => LateLoads

\* A uop completes once, after it has been issued.
StageInv ==
    /\ \A x \in Range(uopq) \cup Range(fetchq) \cup Waiting : ~ uops[x].completed
    /\ iq \cap events = {}

\* Only stores, and loads of a wrong path, are written back outside the reorder buffer.
InRob ==
    \A x \in iq \cup loadq \cup memory \cup events :
        uops[x].inst.op # "store" => x \in Range(rob)

RegisterInv ==
    /\ InstInv /\ StageInv /\ Exact(rf, uops, rob)
    /\ LateLoads \/ (PendingComplete(rf, uops, rob) /\ InRob)
-----------------------------------------------------------------------------
(***************************************************************************)
(* Entries and their places.                                               *)
(***************************************************************************)
LEMMA EntryIn ==
    ASSUME NEW q, NEW us, NEW e
    PROVE  e \in RenamedOf(q, us) <=>
                /\ e = <<e[1], e[2]>> /\ e[1] \in Range(q) /\ e[2] \in DOMAIN us[e[1]].out
<1>1. ASSUME e \in RenamedOf(q, us)
      PROVE  e = <<e[1], e[2]>> /\ e[1] \in Range(q) /\ e[2] \in DOMAIN us[e[1]].out
  <2>1. PICK x \in Range(q) : e \in {<<x, i>> : i \in DOMAIN us[x].out}
    BY <1>1 DEF RenamedOf
  <2>2. PICK i \in DOMAIN us[x].out : e = <<x, i>>
    BY <2>1
  <2> QED BY <2>2
<1>2. ASSUME e = <<e[1], e[2]>>, e[1] \in Range(q), e[2] \in DOMAIN us[e[1]].out
      PROVE  e \in RenamedOf(q, us)
  <2> DEFINE x == e[1]
             i == e[2]
  <2> HIDE DEF x, i
  <2>1. x \in Range(q) /\ i \in DOMAIN us[x].out /\ e = <<x, i>>
    BY <1>2 DEF x, i
  <2>2. <<x, i>> \in {<<x, j>> : j \in DOMAIN us[x].out}
    BY <2>1
  <2> QED BY <2>1, <2>2 DEF RenamedOf
<1> QED BY <1>1, <1>2

LEMMA EntriesSame ==
    ASSUME NEW q, NEW us, NEW vs, \A x \in Range(q) : DOMAIN vs[x].out = DOMAIN us[x].out
    PROVE  RenamedOf(q, vs) = RenamedOf(q, us)
  BY DEF RenamedOf

\* The place of a uop is its index.
LEMMA PlaceIs ==
    ASSUME NEW A, NEW q \in Seq(A), IsInjective(q)
    PROVE  /\ \A i \in 1 .. Len(q) : q[i] \in Range(q) /\ PlaceIn(q)[q[i]] = i
           /\ \A x \in Range(q) : PlaceIn(q)[x] \in 1 .. Len(q) /\ q[PlaceIn(q)[x]] = x
<1>1. DOMAIN q = 1 .. Len(q)
  OBVIOUS
<1>2. ASSUME NEW x \in Range(q)
      PROVE  PlaceIn(q)[x] \in 1 .. Len(q) /\ q[PlaceIn(q)[x]] = x
  <2>1. \E i \in DOMAIN q : q[i] = x
    BY DEF Range
  <2>2. PlaceIn(q)[x] = CHOOSE i \in DOMAIN q : q[i] = x
    BY DEF PlaceIn
  <2> QED BY <1>1, <2>1, <2>2
<1>3. ASSUME NEW i \in 1 .. Len(q)
      PROVE  q[i] \in Range(q) /\ PlaceIn(q)[q[i]] = i
  <2>1. q[i] \in Range(q)
    BY <1>1 DEF Range
  <2>2. PlaceIn(q)[q[i]] \in DOMAIN q /\ q[PlaceIn(q)[q[i]]] = q[i]
    BY <1>1, <1>2, <2>1
  <2> QED BY <1>1, <2>1, <2>2 DEF IsInjective
<1> QED BY <1>2, <1>3

\* The tops do not change while the uops of the queue are the same.
Unmoved(q, us, vs) ==
    \A x \in Range(q) : /\ vs[x].inst = us[x].inst /\ vs[x].out = us[x].out
                        /\ vs[x].old = us[x].old /\ vs[x].dst = us[x].dst

LEMMA TurnsSame ==
    ASSUME NEW A, NEW q \in Seq(A), NEW us, NEW vs, Unmoved(q, us, vs), NEW t,
           TurnsBy(q, us, t)
    PROVE  TurnsBy(q, vs, t)
<1>1. \A i \in 1 .. Len(q) : q[i] \in Range(q)
  BY DEF Range
<1>2. ASSUME NEW i \in 1 .. Len(q)
      PROVE  t[i] = TopAfter(t[i - 1], vs[q[i]].inst.op) /\ Sized(vs[q[i]], t[i])
  <2>1. t[i] = TopAfter(t[i - 1], us[q[i]].inst.op) /\ Sized(us[q[i]], t[i])
    BY DEF TurnsBy
  <2>2. /\ vs[q[i]].inst = us[q[i]].inst /\ vs[q[i]].out = us[q[i]].out
        /\ vs[q[i]].old = us[q[i]].old /\ vs[q[i]].dst = us[q[i]].dst
    BY <1>1 DEF Unmoved
  <2> QED BY <2>1, <2>2 DEF Sized
<1> QED BY <1>2 DEF TurnsBy

\* The books are the same when the uops of the queue are.
LEMMA ExactSame ==
    ASSUME NEW A, NEW q \in Seq(A), IsInjective(q), NEW file, NEW us, NEW vs,
           Exact(file, us, q), \A x \in Range(q) : vs[x] = us[x]
    PROVE  /\ Exact(file, vs, q) /\ RenamedOf(q, vs) = RenamedOf(q, us)
           /\ PendingComplete(file, us, q) => PendingComplete(file, vs, q)
<1> DEFINE E == RenamedOf(q, us)
           place == PlaceIn(q)
<1>1. RenamedOf(q, vs) = E
  BY EntriesSame
<1>2. \A e \in E : e[1] \in Range(q)
  BY EntryIn
<1>3. Agree(us, vs, E)
  BY <1>2 DEF Agree, Dst, New, Old, IsDone
<1>4. SameOrder(E, place, place) /\ \A e \in E : place[e[1]] \in Nat
  BY DEF SameOrder, Exact, Books, EntryTypes
<1>5. Books(file, vs, E, place, {})
  <2>1. Books(file, us, E, place, {})
    BY DEF Exact
  <2> HIDE DEF E, place
  <2> QED BY <1>3, <1>4, <2>1, BooksSame
<1>6. Turns(q, vs, file.top)
  <2>1. PICK t : TurnsBy(q, us, t) /\ t[Len(q)] = file.top
    BY DEF Exact, Turns
  <2>2. Unmoved(q, us, vs)
    BY DEF Unmoved
  <2> QED BY <2>1, <2>2, TurnsSame DEF Turns
<1>7. ASSUME PendingComplete(file, us, q)
      PROVE  PendingComplete(file, vs, q)
  BY <1>1, <1>3, <1>7 DEF PendingComplete, Agree, KindIn
<1> QED BY <1>1, <1>5, <1>6, <1>7 DEF Exact
-----------------------------------------------------------------------------
(***************************************************************************)
(* The stages that leave the register file and the reorder buffer alone.   *)
(***************************************************************************)
LEMMA QuietRegisters ==
    ASSUME RegisterInv, UNCHANGED <<cf, rf, rob, uops>>,
           \A x \in iq' \cup loadq' \cup memory' \cup events' :
                uops[x].inst.op # "store" => x \in iq \cup loadq \cup memory \cup events,
           \A x \in Range(uopq') \cup Range(fetchq') \cup Waiting' :
                x \in Range(uopq) \cup Range(fetchq) \cup Waiting,
           iq' \cap events' = {}
    PROVE  RegisterInv'
<1>1. LateLoads' <=> LateLoads
  BY DEF LateLoads
<1>2. InstInv'
  BY <1>1 DEF RegisterInv, InstInv
<1>3. StageInv'
  BY DEF RegisterInv, StageInv
<1>4. Exact(rf', uops', rob') /\ (PendingComplete(rf', uops', rob') <=> PendingComplete(rf, uops, rob))
  BY DEF RegisterInv
<1>5. InRob => InRob'
  BY DEF InRob
<1> QED BY <1>1, <1>2, <1>3, <1>4, <1>5 DEF RegisterInv

LEMMA ScheduleRegisters ==
    ASSUME RegisterInv, NEW expired, Schedule(expired) PROVE RegisterInv'
<1>1. UNCHANGED <<cf, rf, rob, uops, uopq, fetchq, iq, loadq, storeq, memory, events>>
  BY DEF Schedule
<1>2. Waiting' = Waiting
  BY <1>1 DEF Waiting
<1>3. iq' \cap events' = {}
  BY <1>1 DEF RegisterInv, StageInv
<1> QED BY <1>1, <1>2, <1>3, QuietRegisters

LEMMA DecodeRegisters ==
    ASSUME ThreadInv, ThreadInv', RegisterInv, Decode, Path' = Path PROVE RegisterInv'
<1>1. UNCHANGED <<cf, rf, rob, uops, iq, loadq, storeq, memory, events>>
  BY DEF Decode
<1>2. Waiting' = Waiting
  BY <1>1 DEF Waiting
<1>3. iq' \cap events' = {}
  BY <1>1 DEF RegisterInv, StageInv
<1>4. ASSUME NEW x \in Range(uopq') \cup Range(fetchq')
      PROVE  x \in Range(uopq) \cup Range(fetchq)
  <2>1. /\ PathOf(rob, uopq, fetchq, Path) /\ PathOf(rob', uopq', fetchq', Path')
    BY PathIs DEF Path, ThreadInv, ThreadTypes
  <2>2. x \in Range(Path)
    BY <2>1, <1>4 DEF PathOf
  <2>3. x \notin Range(rob')
    <3>1. IsInjective(Row(rob', uopq', fetchq'))
      BY DEF ThreadInv, PathInv, Path, Row
    <3>2. Range(rob') \cap Range(uopq') = {} /\ Range(rob') \cap Range(fetchq') = {}
      BY <3>1, RowInjective DEF ThreadInv, ThreadTypes
    <3> QED BY <1>4, <3>2
  <2> QED BY <1>1, <2>1, <2>2, <2>3 DEF PathOf
<1> QED BY <1>1, <1>2, <1>3, <1>4, QuietRegisters

LEMMA IssueRegisters ==
    ASSUME ThreadInv, RegisterInv, NEW x \in UopIds,
           IssueLoad(x) \/ IssueInstruction(x) \/ MemoryAccessEnd(x)
    PROVE  RegisterInv'
<1>1. UNCHANGED <<cf, rf, rob, uops, uopq, fetchq, storeq>>
  BY DEF IssueLoad, IssueInstruction, MemoryAccessEnd
<1>2. iq' \cup loadq' \cup memory' \cup events' = iq \cup loadq \cup memory \cup events
  BY DEF IssueLoad, IssueInstruction, MemoryAccessEnd
<1>3. Waiting' = Waiting
  BY <1>1, <1>2 DEF Waiting
<1>4. iq' \cap events' = {}
  <2>1. iq \cap events = {} /\ iq \cap memory = {}
    BY DEF RegisterInv, StageInv, ThreadInv, WaitInv, IsMem
  <2> QED BY <2>1 DEF IssueLoad, IssueInstruction, MemoryAccessEnd
<1> QED BY <1>1, <1>2, <1>3, <1>4, QuietRegisters

LEMMA IssueStoreRegisters ==
    ASSUME ThreadInv, RegisterInv, IssueStore PROVE RegisterInv'
<1> DEFINE x == Head(storeq)
<1>1. /\ UNCHANGED <<cf, rf, rob, uops, uopq, fetchq, iq, loadq, events>>
      /\ storeq # <<>> /\ storeq' = Tail(storeq) /\ memory' = memory \cup {x}
  BY DEF IssueStore
<1>2. x \in Range(storeq) /\ Range(storeq) = Range(storeq') \cup {x}
  BY <1>1, TailRange DEF ThreadInv, ThreadTypes
<1> HIDE DEF x
<1>3. Waiting' = Waiting
  BY <1>1, <1>2 DEF Waiting
<1>4. uops[x].inst.op = "store"
  BY <1>2 DEF ThreadInv, WaitInv
<1>5. iq' \cap events' = {}
  BY <1>1 DEF RegisterInv, StageInv
<1> QED BY <1>1, <1>3, <1>4, <1>5, QuietRegisters
-----------------------------------------------------------------------------
(***************************************************************************)
(* Fetch.                                                                  *)
(***************************************************************************)
\* The uops of a fetched instruction carry its micro-instructions.
LEMMA FetchedInst ==
    ASSUME NEW mop \in Macros, NEW sp, NEW pos, Fetched(mop, sp, pos), NEW x \in UopIds
    PROVE  \/ uops'[x] = uops[x]
           \/ /\ \E i \in DOMAIN mop : uops'[x].inst = mop[i]
              /\ uops'[x].spec = sp /\ uops'[x].out = <<>>
<1> DEFINE new == [i \in DOMAIN mop |-> Nth(Fresh, i)]
           index == CHOOSE i \in DOMAIN mop : new[i] = x
           u == [op |-> "uop", inst |-> mop[index], index |-> index - 1,
                 position |-> pos, spec |-> sp, first |-> sp /\ ~ spec /\ index = 1,
                 completed |-> FALSE, in |-> <<>>, out |-> <<>>, old |-> <<>>, dst |-> <<>>]
<1>1. uops'[x] = IF x \notin Range(new) THEN uops[x] ELSE u
  BY DEF Fetched
<1>2. ASSUME x \in Range(new)
      PROVE  index \in DOMAIN mop
  <2>1. \E i \in DOMAIN mop : new[i] = x
    BY <1>2 DEF Range
  <2> QED BY <2>1
<1>3. u.inst = mop[index] /\ u.spec = sp /\ u.out = <<>>
  OBVIOUS
<1> HIDE DEF u, index, new
<1> QED BY <1>1, <1>2, <1>3

LEMMA FetchRegisters ==
    ASSUME ThreadInv, RegisterInv, NEW mop \in Macros, NEW sp \in BOOLEAN, NEW pos \in Nat,
           Fetched(mop, sp, pos),
           sp /\ (\E i \in DOMAIN mop : mop[i].op = "load") => LateLoads,
           UNCHANGED <<cf, uopq, rob, iq, loadq, storeq, memory, events, rf>>
    PROVE  RegisterInv'
<1>1. PICK new : Fetches(new, mop, sp, pos)
  BY FetchedEffect DEF ThreadInv
<1>2. /\ new \in Seq(UopIds) /\ fetchq' = fetchq \o new /\ DOMAIN new = 1 .. Len(new)
      /\ \A x \in Range(new) : uops[x] = NoUop /\ ~ uops'[x].completed
      /\ \A x \in UopIds \ Range(new) : uops'[x] = uops[x]
  <2>1. new \in Seq(UopIds)
    BY <1>1 DEF Fetches
  <2>2. DOMAIN new = 1 .. Len(new)
    BY <2>1
  <2>3. \A x \in Range(new) : ~ uops'[x].completed
    BY <1>1, <2>2 DEF Fetches, Range
  <2> QED BY <1>1, <2>1, <2>2, <2>3 DEF Fetches
<1>3. LateLoads' <=> LateLoads
  BY DEF LateLoads
<1>4. /\ Range(fetchq') = Range(fetchq) \cup Range(new)
      /\ Waiting' = Waiting
  BY <1>2, ConcatRange DEF Waiting, ThreadInv, ThreadTypes
<1>5. \A x \in Range(Path) \cup Waiting : x \in UopIds /\ uops[x] # NoUop /\ uops'[x] = uops[x]
  <2>1. Range(Path) \in SUBSET UopIds
    <3>1. PathOf(rob, uopq, fetchq, Path)
      BY PathIs DEF Path, ThreadInv, ThreadTypes
    <3> QED BY <3>1 DEF PathOf
  <2>2. Waiting \in SUBSET UopIds
    <3>1. Range(storeq) \in SUBSET UopIds
      BY DEF Range, ThreadInv, ThreadTypes
    <3> QED BY <3>1 DEF Waiting, ThreadInv, ThreadTypes
  <2>3. \A x \in Range(Path) \cup Waiting : uops[x] # NoUop
    BY DEF ThreadInv, PathInv
  <2> QED BY <1>2, <2>1, <2>2, <2>3
<1>6. Range(Path) = Range(rob) \cup Range(uopq) \cup Range(fetchq)
  <2>1. PathOf(rob, uopq, fetchq, Path)
    BY PathIs DEF Path, ThreadInv, ThreadTypes
  <2> QED BY <2>1 DEF PathOf
<1>7. InstInv'
  <2> SUFFICES ASSUME NEW x \in UopIds, uops'[x] # NoUop
               PROVE  /\ uops'[x].inst \in Micros
                      /\ uops'[x].inst.op = "store" => uops'[x].out = <<>>
                      /\ uops'[x].spec /\ uops'[x].inst.op = "load" => LateLoads
    BY <1>3 DEF InstInv
  <2>1. CASE uops'[x] = uops[x]
    BY <2>1 DEF RegisterInv, InstInv
  <2>2. CASE uops'[x] # uops[x]
    <3>1. PICK i \in DOMAIN mop : uops'[x].inst = mop[i]
      BY <2>2, FetchedInst
    <3>2. uops'[x].spec = sp /\ uops'[x].out = <<>>
      BY <2>2, FetchedInst
    <3>3. mop[i] \in Micros
      BY DEF Macros
    <3> QED BY <3>1, <3>2, <3>3
  <2> QED BY <2>1, <2>2
<1>8. StageInv'
  BY <1>2, <1>4, <1>5, <1>6 DEF RegisterInv, StageInv
<1>9. /\ Exact(rf', uops', rob')
      /\ PendingComplete(rf, uops, rob) => PendingComplete(rf', uops', rob')
  <2>1. rob \in Seq(UopIds) /\ IsInjective(rob)
    <3>1. IsInjective(Row(rob, uopq, fetchq))
      BY DEF ThreadInv, PathInv, Path, Row
    <3> QED BY <3>1, RowInjective DEF ThreadInv, ThreadTypes
  <2>2. Exact(rf, uops, rob)
    BY DEF RegisterInv
  <2>3. \A x \in Range(rob) : uops'[x] = uops[x]
    BY <1>5, <1>6
  <2>4. /\ Exact(rf, uops', rob)
        /\ PendingComplete(rf, uops, rob) => PendingComplete(rf, uops', rob)
    BY <2>1, <2>2, <2>3, ExactSame
  <2> QED BY <2>4
<1>10. InRob => InRob'
  <2>1. \A x \in iq \cup loadq \cup memory \cup events : uops'[x] = uops[x]
    BY <1>5 DEF Waiting
  <2> QED BY <2>1 DEF InRob
<1> QED BY <1>3, <1>7, <1>8, <1>9, <1>10 DEF RegisterInv

LEMMA FetchRightRegisters ==
    ASSUME ThreadInv, RegisterInv, FetchRight PROVE RegisterInv'
<1> DEFINE mop == cf.programs[context][pc[context] + 1]
           pos == pc[context] + 1
<1>1. /\ canFetch /\ Fetched(mop, FALSE, pos)
      /\ UNCHANGED <<cf, uopq, rob, iq, loadq, storeq, memory, events, rf>>
  BY DEF FetchRight
<1>2. mop \in Macros /\ pos \in Nat
  BY <1>1, NextInstruction DEF canFetch, ThreadInv, ThreadTypes
<1> HIDE DEF mop, pos
<1> QED BY <1>1, <1>2, FetchRegisters

LEMMA FetchWrongRegisters ==
    ASSUME ThreadInv, RegisterInv, FetchWrong PROVE RegisterInv'
<1>1. PICK mop \in cf.wrong : Fetched(mop, TRUE, 0)
  BY DEF FetchWrong
<1>2. mop \in Macros
  BY ConfigAssumption DEF ThreadInv, ThreadTypes
<1>3. (\E i \in DOMAIN mop : mop[i].op = "load") => LateLoads
  BY DEF LateLoads
<1>4. UNCHANGED <<cf, uopq, rob, iq, loadq, storeq, memory, events, rf>>
  BY DEF FetchWrong
<1> QED BY <1>1, <1>2, <1>3, <1>4, FetchRegisters
-----------------------------------------------------------------------------
(***************************************************************************)
(* Dispatch.                                                               *)
(***************************************************************************)
\* What is known of the queues and of the uops in them.
LEMMA QueuesAre ==
    ASSUME ThreadInv
    PROVE  /\ rob \in Seq(UopIds) /\ uopq \in Seq(UopIds) /\ fetchq \in Seq(UopIds)
           /\ storeq \in Seq(UopIds) /\ IsInjective(rob) /\ IsInjective(uopq)
           /\ Range(rob) \cap Range(uopq) = {} /\ Range(rob) \cap Range(fetchq) = {}
           /\ Range(uopq) \cap Range(fetchq) = {}
           /\ Range(Path) = Range(rob) \cup Range(uopq) \cup Range(fetchq)
           /\ \A x \in Range(Path) \cup Waiting :
                    x \in UopIds /\ uops[x] # NoUop /\ IsUop(uops[x])
           /\ Waiting \cap (Range(uopq) \cup Range(fetchq)) = {}
<1>1. IsInjective(Row(rob, uopq, fetchq))
  BY DEF ThreadInv, PathInv, Path, Row
<1>2. /\ rob \in Seq(UopIds) /\ uopq \in Seq(UopIds) /\ fetchq \in Seq(UopIds)
      /\ storeq \in Seq(UopIds)
  BY DEF ThreadInv, ThreadTypes
<1>3. PathOf(rob, uopq, fetchq, Path)
  BY <1>2, PathIs DEF Path
<1>4. Range(Path) = Range(rob) \cup Range(uopq) \cup Range(fetchq) /\ Range(Path) \in SUBSET UopIds
  BY <1>3 DEF PathOf
<1>5. Waiting \in SUBSET UopIds
  <2>1. Range(storeq) \in SUBSET UopIds
    BY <1>2 DEF Range
  <2> QED BY <2>1 DEF Waiting, ThreadInv, ThreadTypes
<1>6. \A x \in Range(Path) \cup Waiting : uops[x] # NoUop
  BY DEF ThreadInv, PathInv
<1>7. Waiting \cap (Range(uopq) \cup Range(fetchq)) = {}
  BY DEF ThreadInv, PathInv
<1> QED BY <1>1, <1>2, <1>4, <1>5, <1>6, <1>7, RowInjective DEF ThreadInv, ThreadTypes

\* A uop is put at the end of a queue.
LEMMA PlaceNext ==
    ASSUME NEW A, NEW q \in Seq(A), IsInjective(q), NEW x \in A, x \notin Range(q)
    PROVE  LET p == Append(q, x)
           IN  /\ p \in Seq(A) /\ Len(p) = Len(q) + 1 /\ Len(q) \in Nat
               /\ \A i \in 1 .. Len(q) : p[i] = q[i]
               /\ p[Len(q) + 1] = x
               /\ Range(p) = Range(q) \cup {x} /\ IsInjective(p)
               /\ \A y \in Range(q) : PlaceIn(p)[y] = PlaceIn(q)[y] /\ PlaceIn(q)[y] \in 1 .. Len(q)
               /\ PlaceIn(p)[x] = Len(q) + 1
<1> DEFINE p == Append(q, x)
           m == Len(q)
<1>1. /\ p \in Seq(A) /\ Len(p) = m + 1 /\ m \in Nat
      /\ \A i \in 1 .. m : p[i] = q[i]
      /\ p[m + 1] = x
  OBVIOUS
<1>2. Range(p) = Range(q) \cup {x} /\ IsInjective(p)
  BY AppendRange
<1> HIDE DEF p
<1>3. \A i \in 1 .. m + 1 : PlaceIn(p)[p[i]] = i
  BY <1>1, <1>2, PlaceIs
<1>4. ASSUME NEW y \in Range(q)
      PROVE  PlaceIn(p)[y] = PlaceIn(q)[y] /\ PlaceIn(q)[y] \in 1 .. m
  <2> DEFINE i == PlaceIn(q)[y]
  <2>1. i \in 1 .. m /\ q[i] = y
    BY PlaceIs
  <2> HIDE DEF i
  <2>2. p[i] = y /\ i \in 1 .. m + 1
    BY <1>1, <2>1
  <2>3. PlaceIn(p)[y] = i
    BY <1>3, <2>2
  <2> QED BY <2>1, <2>3 DEF i
<1>5. PlaceIn(p)[x] = m + 1
  <2>1. m + 1 \in 1 .. m + 1
    BY <1>1
  <2> QED BY <1>1, <1>3, <2>1
<1> QED BY <1>1, <1>2, <1>4, <1>5 DEF p

\* Uop x of us is renamed to u and put at the end of the queue.
Appends(file, us, q, x, R, vs, p) ==
    /\ Exact(file, us, q) /\ p = Append(q, x)
    /\ q \in Seq(UopIds) /\ IsInjective(q) /\ x \in UopIds /\ x \notin Range(q)
    /\ canRename(file, us[x].inst) /\ us[x].inst \in Micros
    /\ R = Rename(file, us[x].inst) /\ \A y \in Range(q) : vs[y] = us[y]
    /\ vs[x].inst = us[x].inst /\ vs[x].completed = FALSE
    /\ vs[x].out = R.out /\ vs[x].old = R.old /\ vs[x].dst = R.dst

LEMMA DispatchExact ==
    ASSUME NEW file, NEW us, NEW q, NEW x, NEW R, NEW vs, NEW p,
           Appends(file, us, q, x, R, vs, p)
    PROVE  /\ Exact(R.rf, vs, p)
           /\ PendingComplete(file, us, q) => PendingComplete(R.rf, vs, p)
           /\ Len(R.out) = Len(us[x].inst.out)
<1> DEFINE inst == us[x].inst
           n == Len(inst.out)
           top == TopAfter(file.top, inst.op)
           E == RenamedOf(q, us)
           F == RenamedOf(p, vs)
           old == PlaceIn(q)
           place == PlaceIn(p)
           gs == Given(us, UopIds, x, R, R.dst)
<1>1. /\ q \in Seq(UopIds) /\ IsInjective(q) /\ x \in UopIds /\ x \notin Range(q)
      /\ canRename(file, inst) /\ inst.out \in Seq(Logical)
      /\ R = Rename(file, inst) /\ \A y \in Range(q) : vs[y] = us[y]
      /\ vs[x].inst = inst /\ vs[x].completed = FALSE
      /\ vs[x].out = R.out /\ vs[x].old = R.old /\ vs[x].dst = R.dst
      /\ Exact(file, us, q) /\ p = Append(q, x)
  BY DEF Appends, Micros
<1>2. Books(file, us, E, old, {}) /\ FileTypes(file)
  BY <1>1 DEF Exact, Books
<1>3. /\ p \in Seq(UopIds) /\ Len(p) = Len(q) + 1 /\ Len(q) \in Nat
      /\ \A i \in 1 .. Len(q) : p[i] = q[i]
      /\ p[Len(q) + 1] = x
      /\ Range(p) = Range(q) \cup {x} /\ IsInjective(p)
      /\ \A y \in Range(q) : place[y] = old[y] /\ old[y] \in 1 .. Len(q)
      /\ place[x] = Len(q) + 1
  BY <1>1, PlaceNext
<1>4. \A f \in E : f = <<f[1], f[2]>> /\ f[1] \in Range(q) /\ f[2] \in DOMAIN us[f[1]].out
  BY EntryIn
<1> HIDE DEF inst, n, top, E, F, old, place, gs
<1>5. Books(file, us, E, place, {})
  <2>1. SameOrder(E, old, place) /\ \A f \in E : place[f[1]] \in Nat
    BY <1>3, <1>4 DEF SameOrder
  <2>2. Agree(us, us, E)
    BY DEF Agree
  <2> QED BY <1>2, <2>1, <2>2, BooksSame
<1>6. Renames(file, us, UopIds, x, E, place, inst)
  <2>1. \A f \in E : f[1] \in UopIds /\ f[1] # x /\ place[f[1]] < place[x]
    <3>1. Range(q) \in SUBSET UopIds
      BY <1>1 DEF Range
    <3> QED BY <1>1, <1>3, <1>4, <3>1
  <2> QED BY <1>1, <1>3, <1>5, <2>1 DEF Renames
<1> DEFINE G == E \cup EntriesOf(x, 1 .. n)
<1>7. Renaming(file, us, UopIds, x, E, inst, R, n, top, gs, G)
  BY <1>1 DEF Renaming, n, top, gs
<1> HIDE DEF G
<1>8. /\ R.out \in [1 .. n -> Int] /\ R.old \in [1 .. n -> Int] /\ DOMAIN R.dst = 1 .. n
      /\ \A i \in 1 .. n : R.dst[i] = RelativeTo(top, inst.out[i])
      /\ Books(R.rf, gs, G, place, {})
      /\ R.rf.top = top /\ StillPending(file, R)
      /\ \A i \in 1 .. n : R.rf.pending[Kind(R.dst[i])][R.out[i]]
  BY ONLY <1>6, <1>7, RenameBooks
<1>9. F = E \cup EntriesOf(x, 1 .. n)
  <2>1. ASSUME NEW e
        PROVE  e \in F <=> e \in E \cup EntriesOf(x, 1 .. n)
    <3>1. e \in F <=> e = <<e[1], e[2]>> /\ e[1] \in Range(p) /\ e[2] \in DOMAIN vs[e[1]].out
      BY EntryIn DEF F
    <3>2. e \in E <=> e = <<e[1], e[2]>> /\ e[1] \in Range(q) /\ e[2] \in DOMAIN us[e[1]].out
      BY EntryIn DEF E
    <3>3. e \in EntriesOf(x, 1 .. n) <=> e = <<e[1], e[2]>> /\ e[1] = x /\ e[2] \in 1 .. n
      BY DEF EntriesOf
    <3>4. DOMAIN vs[x].out = 1 .. n
      BY <1>1, <1>8
    <3> QED BY <1>1, <1>3, <3>1, <3>2, <3>3, <3>4
  <2> QED BY <2>1
<1>10. Agree(gs, vs, F)
  <2> SUFFICES ASSUME NEW e \in F
               PROVE  /\ Dst(gs, e) = Dst(vs, e) /\ New(gs, e) = New(vs, e)
                      /\ Old(gs, e) = Old(vs, e) /\ IsDone(gs, e) = IsDone(vs, e)
    BY DEF Agree
  <2>1. CASE e \in E
    <3>1. e[1] # x /\ e[1] \in UopIds /\ vs[e[1]] = us[e[1]]
      BY <1>1, <1>4, <1>6, <2>1 DEF Renames
    <3>2. gs[e[1]] = us[e[1]]
      BY <3>1 DEF gs, Given
    <3> QED BY <3>1, <3>2 DEF Dst, New, Old, IsDone
  <2>2. CASE e \in EntriesOf(x, 1 .. n)
    <3>1. e[1] = x
      BY <2>2 DEF EntriesOf
    <3>2. /\ gs[x].out = R.out /\ gs[x].old = R.old /\ gs[x].dst = R.dst
          /\ gs[x].completed = FALSE
      BY <1>1 DEF gs, Given
    <3>3. Dst(gs, e) = Dst(vs, e) /\ New(gs, e) = New(vs, e)
      BY <1>1, <3>1, <3>2 DEF Dst, New
    <3>4. Old(gs, e) = Old(vs, e) /\ IsDone(gs, e) = IsDone(vs, e)
      BY <1>1, <3>1, <3>2 DEF Old, IsDone
    <3> QED BY <3>3, <3>4
  <2> QED BY <1>9, <2>1, <2>2
<1>11. Books(R.rf, vs, F, place, {})
  <2>1. Books(R.rf, gs, F, place, {})
    BY <1>8, <1>9 DEF G
  <2>2. SameOrder(F, place, place) /\ \A e \in F : place[e[1]] \in Nat
    BY <2>1 DEF SameOrder, Books, EntryTypes
  <2> QED BY <1>10, <2>1, <2>2, BooksSame
<1>12. Turns(p, vs, R.rf.top)
  <2>1. PICK t : TurnsBy(q, us, t) /\ t[Len(q)] = file.top
    BY <1>1 DEF Exact, Turns
  <2> DEFINE m == Len(q)
             s == [i \in 0 .. m + 1 |-> IF i <= m THEN t[i] ELSE top]
  <2>2. top \in 0 .. StackSize - 1
    BY <1>2, TopType DEF FileTypes, top
  <2>3. t \in [0 .. m -> 0 .. StackSize - 1]
    BY <2>1 DEF TurnsBy
  <2>4. s \in [0 .. m + 1 -> 0 .. StackSize - 1] /\ s[m + 1] = top
        /\ \A i \in 0 .. m : s[i] = t[i]
    BY <1>3, <2>2, <2>3
  <2> HIDE DEF s
  <2>5. ASSUME NEW i \in 1 .. m
        PROVE  s[i] = TopAfter(s[i - 1], vs[p[i]].inst.op) /\ Sized(vs[p[i]], s[i])
    <3>1. i \in 0 .. m /\ i - 1 \in 0 .. m
      BY <1>3
    <3>2. s[i] = t[i] /\ s[i - 1] = t[i - 1]
      BY <2>4, <3>1
    <3>3. p[i] = q[i] /\ vs[q[i]] = us[q[i]]
      BY <1>1, <1>3 DEF Range
    <3> QED BY <2>1, <3>2, <3>3 DEF TurnsBy
  <2>6. s[m + 1] = TopAfter(s[m], vs[p[m + 1]].inst.op) /\ Sized(vs[p[m + 1]], s[m + 1])
    <3>1. s[m] = file.top /\ p[m + 1] = x
      BY <1>3, <2>1, <2>4
    <3>2. s[m + 1] = TopAfter(s[m], vs[p[m + 1]].inst.op)
      BY <1>1, <2>4, <3>1 DEF top
    <3>3. Sized(vs[x], top)
      BY <1>1, <1>8 DEF Sized, n
    <3> QED BY <2>4, <3>1, <3>2, <3>3
  <2>7. \A i \in 1 .. m + 1 : s[i] = TopAfter(s[i - 1], vs[p[i]].inst.op) /\ Sized(vs[p[i]], s[i])
    <3> SUFFICES ASSUME NEW i \in 1 .. m + 1
                 PROVE  s[i] = TopAfter(s[i - 1], vs[p[i]].inst.op) /\ Sized(vs[p[i]], s[i])
      OBVIOUS
    <3>1. CASE i \in 1 .. m
      BY <2>5, <3>1
    <3>2. CASE i = m + 1
      <4>1. i - 1 = m
        BY <1>3, <3>2
      <4> QED BY <2>6, <3>2, <4>1
    <3> QED BY <1>3, <3>1, <3>2
  <2>8. TurnsBy(p, vs, s)
    BY <1>3, <2>4, <2>7 DEF TurnsBy
  <2>9. s[Len(p)] = R.rf.top
    BY <1>3, <1>8, <2>4
  <2> QED BY <2>8, <2>9 DEF Turns
<1>13. ASSUME PendingComplete(file, us, q)
       PROVE  PendingComplete(R.rf, vs, p)
  <2> SUFFICES ASSUME NEW e \in F, ~ IsDone(vs, e)
               PROVE  R.rf.pending[KindIn(vs, e)][New(vs, e)]
    BY DEF PendingComplete, F
  <2>1. CASE e \in E
    <3>1. vs[e[1]] = us[e[1]]
      BY <1>1, <1>4, <2>1
    <3>2. file.pending[KindIn(us, e)][New(us, e)]
      BY <1>13, <2>1, <3>1 DEF PendingComplete, E, IsDone
    <3>3. KindIn(us, e) \in Kinds /\ New(us, e) \in Physical(KindIn(us, e))
      BY <1>2, <2>1, KindType DEF Books, EntryTypes, KindIn
    <3>4. R.rf.pending[KindIn(us, e)][New(us, e)]
      BY <1>8, <3>2, <3>3 DEF StillPending
    <3> QED BY <3>1, <3>4 DEF KindIn, New, Dst
  <2>2. CASE e \in EntriesOf(x, 1 .. n)
    <3>1. e[1] = x /\ e[2] \in 1 .. n
      BY <2>2 DEF EntriesOf
    <3> QED BY <1>1, <1>8, <3>1 DEF KindIn, New, Dst
  <2> QED BY <1>9, <2>1, <2>2
<1>14. Len(R.out) = n
  <2>1. n \in Nat
    BY <1>1 DEF n
  <2> QED BY <1>8, <2>1
<1> QED BY <1>11, <1>12, <1>13, <1>14 DEF Exact, F, place, n, inst

LEMMA DispatchRegisters ==
    ASSUME ThreadInv, RegisterInv, Dispatch PROVE RegisterInv'
<1> DEFINE x == Head(uopq)
           u == uops[x]
           R == Rename(rf, u.inst)
<1> HIDE DEF R
<1>1. /\ uopq # <<>> /\ uopq' = Tail(uopq) /\ rf' = R.rf
      /\ uops' = [uops EXCEPT ![x] = [u EXCEPT !.in = R.in, !.out = R.out,
                                               !.old = R.old, !.dst = R.dst]]
      /\ rob' = Append(rob, x)
      /\ iq' = IF IsMem(u) THEN iq ELSE iq \cup {x}
      /\ loadq' = IF u.inst.op = "load" THEN loadq \cup {x} ELSE loadq
      /\ storeq' = IF u.inst.op = "store" THEN Append(storeq, x) ELSE storeq
      /\ UNCHANGED <<cf, spec, fetchq, memory, events>>
      /\ canRename(rf, u.inst)
  BY DEF Dispatch, canDispatch, R
<1>2. /\ rob \in Seq(UopIds) /\ uopq \in Seq(UopIds) /\ fetchq \in Seq(UopIds)
      /\ storeq \in Seq(UopIds) /\ IsInjective(rob) /\ IsInjective(uopq)
      /\ Range(rob) \cap Range(uopq) = {} /\ Range(uopq) \cap Range(fetchq) = {}
      /\ Range(Path) = Range(rob) \cup Range(uopq) \cup Range(fetchq)
      /\ \A y \in Range(Path) \cup Waiting : y \in UopIds /\ uops[y] # NoUop /\ IsUop(uops[y])
      /\ Waiting \cap (Range(uopq) \cup Range(fetchq)) = {}
  BY QueuesAre
<1>3. /\ x \in Range(uopq) /\ Range(uopq') = Range(uopq) \ {x} /\ uopq' \in Seq(UopIds)
  BY <1>1, <1>2, TailRange
<1> HIDE DEF x
<1>4. x \in UopIds /\ x \notin Range(rob) /\ u # NoUop /\ IsUop(u) /\ x \notin Waiting
      /\ DOMAIN uops = UopIds
  BY <1>2, <1>3 DEF ThreadInv, ThreadTypes
<1>5. u.inst \in Micros /\ u.completed = FALSE
      /\ (u.spec /\ u.inst.op = "load" => LateLoads)
  <2>1. ~ u.completed /\ u.completed \in BOOLEAN
    BY <1>3, <1>4 DEF RegisterInv, StageInv, IsUop
  <2> QED BY <1>4, <2>1 DEF RegisterInv, InstInv
<1>6. /\ \A y \in UopIds \ {x} : uops'[y] = uops[y]
      /\ uops'[x] = [u EXCEPT !.in = R.in, !.out = R.out, !.old = R.old, !.dst = R.dst]
  <2> HIDE DEF u
  <2> QED BY <1>1, <1>4
<1>7. /\ uops'[x].inst = u.inst /\ uops'[x].spec = u.spec /\ uops'[x].completed = FALSE
      /\ uops'[x].out = R.out /\ uops'[x].old = R.old /\ uops'[x].dst = R.dst
  <2>1. DOMAIN u = Fields
    BY <1>4 DEF IsUop
  <2> DEFINE v == uops'[x]
  <2>2. v = [u EXCEPT !.in = R.in, !.out = R.out, !.old = R.old, !.dst = R.dst]
    BY <1>6
  <2>3. u.completed = FALSE
    BY <1>5
  <2> HIDE DEF u, v
  <2>4. /\ v.inst = u.inst /\ v.spec = u.spec /\ v.completed = FALSE
        /\ v.out = R.out /\ v.old = R.old /\ v.dst = R.dst
    BY <2>1, <2>2, <2>3 DEF Fields
  <2> QED BY <2>4 DEF v
<1>8. Appends(rf, uops, rob, x, R, uops', rob')
  <2>1. \A y \in Range(rob) : uops'[y] = uops[y]
    BY <1>2, <1>4, <1>6
  <2> QED BY <1>1, <1>2, <1>4, <1>5, <1>7, <2>1 DEF Appends, R, RegisterInv
<1>9. /\ Exact(rf', uops', rob')
      /\ PendingComplete(rf, uops, rob) => PendingComplete(rf', uops', rob')
      /\ Len(R.out) = Len(u.inst.out)
  <2> DEFINE p == rob'
             vs == uops'
  <2>1. Appends(rf, uops, rob, x, R, vs, p)
    BY <1>8
  <2>2. rf' = R.rf
    BY <1>1
  <2> HIDE DEF p, vs
  <2>3. /\ Exact(R.rf, vs, p)
        /\ PendingComplete(rf, uops, rob) => PendingComplete(R.rf, vs, p)
        /\ Len(R.out) = Len(uops[x].inst.out)
    BY ONLY <2>1, DispatchExact
  <2> QED BY <2>2, <2>3 DEF p, vs
<1>10. LateLoads' <=> LateLoads
  BY <1>1 DEF LateLoads
<1>11. InstInv'
  <2> SUFFICES ASSUME NEW y \in UopIds, uops'[y] # NoUop
               PROVE  /\ uops'[y].inst \in Micros
                      /\ uops'[y].inst.op = "store" => uops'[y].out = <<>>
                      /\ uops'[y].spec /\ uops'[y].inst.op = "load" => LateLoads
    BY <1>10 DEF InstInv
  <2>1. CASE y = x
    <3>1. ASSUME u.inst.op = "store"
          PROVE  R.out = <<>>
      <4>1. Len(R.out) = 0
        <5>1. u.inst.out = <<>>
          BY <1>5, <3>1 DEF Micros
        <5> QED BY <1>9, <5>1
      <4>2. R.out \in Seq(Int)
        <5>1. PICK t : TurnsBy(rob', uops', t)
          BY <1>9 DEF Exact, Turns
        <5>2. rob'[Len(rob) + 1] = x /\ Len(rob) + 1 \in 1 .. Len(rob')
          BY <1>1, <1>2, <1>4
        <5>3. Sized(uops'[x], t[Len(rob) + 1])
          BY <5>1, <5>2 DEF TurnsBy
        <5>4. Len(u.inst.out) \in Nat
          BY <1>5 DEF Micros
        <5>5. R.out \in [1 .. Len(u.inst.out) -> Int]
          BY <1>7, <5>3 DEF Sized
        <5> QED BY <5>4, <5>5
      <4> QED BY <4>1, <4>2
    <3> QED BY <1>5, <1>7, <2>1, <3>1
  <2>2. CASE y # x
    BY <1>6, <2>2 DEF RegisterInv, InstInv
  <2> QED BY <2>1, <2>2
<1>12. /\ Range(storeq') \subseteq Range(storeq) \cup {x}
       /\ Waiting' \subseteq Waiting \cup {x}
       /\ Range(rob') = Range(rob) \cup {x}
  <2>1. Range(Append(storeq, x)) = Range(storeq) \cup {x}
        /\ Range(Append(rob, x)) = Range(rob) \cup {x}
    BY <1>2, <1>4, AppendRange
  <2>2. Range(storeq') \subseteq Range(storeq) \cup {x}
    BY <1>1, <2>1
  <2>3. iq' \subseteq iq \cup {x} /\ loadq' \subseteq loadq \cup {x} /\ memory' = memory
        /\ events' = events
    BY <1>1
  <2>4. Waiting' \subseteq Waiting \cup {x}
    BY <2>2, <2>3 DEF Waiting
  <2> QED BY <1>1, <2>1, <2>2, <2>4
<1>13. StageInv'
  <2>1. ASSUME NEW y \in Range(uopq') \cup Range(fetchq') \cup Waiting'
        PROVE  ~ uops'[y].completed
    <3>1. CASE y = x
      BY <1>7, <3>1
    <3>2. CASE y # x
      <4>1. y \in Range(uopq) \cup Range(fetchq) \cup Waiting
        BY <1>1, <1>3, <1>12, <3>2
      <4>2. uops'[y] = uops[y]
        BY <1>2, <1>6, <3>2, <4>1
      <4> QED BY <4>1, <4>2 DEF RegisterInv, StageInv
    <3> QED BY <3>1, <3>2
  <2>2. iq' \cap events' = {}
    <3>1. x \notin events /\ iq \cap events = {} /\ iq' \subseteq iq \cup {x} /\ events' = events
      BY <1>1, <1>4 DEF RegisterInv, StageInv, Waiting
    <3> QED BY <3>1
  <2> QED BY <2>1, <2>2 DEF StageInv
<1>14. InRob => InRob'
  <2> SUFFICES ASSUME InRob, NEW y \in iq' \cup loadq' \cup memory' \cup events',
                      uops'[y].inst.op # "store"
               PROVE  y \in Range(rob')
    BY DEF InRob
  <2>1. CASE y = x
    BY <1>12, <2>1
  <2>2. CASE y # x
    <3>1. y \in iq \cup loadq \cup memory \cup events
      BY <1>1, <2>2
    <3>2. uops'[y] = uops[y]
      BY <1>2, <1>6, <2>2, <3>1 DEF Waiting
    <3> QED BY <1>12, <3>1, <3>2 DEF InRob
  <2> QED BY <2>1, <2>2
<1> QED BY <1>9, <1>10, <1>11, <1>13, <1>14 DEF RegisterInv
-----------------------------------------------------------------------------
(***************************************************************************)
(* Writeback.                                                              *)
(***************************************************************************)
\* The outputs of a uop that has been renamed.
LEMMA OutputsOf ==
    ASSUME NEW us, NEW x, NEW top, Sized(us[x], top), us[x].inst.out \in Seq(Logical), NEW E,
           \A i \in DOMAIN us[x].out : <<x, i>> \in E,
           \A e \in E : e[1] = x => e[2] \in DOMAIN us[x].out
    PROVE  Outputs(us, E, x, Len(us[x].inst.out), top)
<1> DEFINE u == us[x]
           n == Len(u.inst.out)
<1>1. n \in Nat /\ DOMAIN u.inst.out = 1 .. n /\ \A i \in 1 .. n : u.inst.out[i] \in Logical
  OBVIOUS
<1>2. /\ u.out \in [1 .. n -> Int] /\ u.old \in [1 .. n -> Int]
      /\ \A i \in 1 .. n : u.dst[i] = RelativeTo(top, u.inst.out[i])
  BY DEF Sized
<1> HIDE DEF n
<1>3. Len(u.out) = n /\ Len(u.old) = n
  <2>1. u.out \in Seq(Int) /\ u.old \in Seq(Int) /\ DOMAIN u.out = 1 .. n /\ DOMAIN u.old = 1 .. n
    BY <1>1, <1>2
  <2> QED BY <1>1, <2>1
<1>4. DOMAIN u.out = 1 .. n
  BY <1>2
<1> QED BY <1>1, <1>2, <1>3, <1>4 DEF Outputs, n

\* A uop writes the registers of its outputs.
LEMMA OutputWrites ==
    ASSUME NEW us, NEW e, NEW top \in 0 .. StackSize - 1, Sized(us[e[1]], top),
           us[e[1]].inst.out \in Seq(Logical), e[2] \in DOMAIN us[e[1]].out
    PROVE  Writes(us[e[1]], KindIn(us, e), New(us, e))
<1> DEFINE u == us[e[1]]
           i == e[2]
           n == Len(u.inst.out)
<1>1. i \in 1 .. n /\ u.dst[i] = RelativeTo(top, u.inst.out[i]) /\ u.inst.out[i] \in Logical
  BY DEF Sized
<1> HIDE DEF u, i, n
<1>2. Kind(u.inst.out[i]) = Kind(u.dst[i])
  BY <1>1, RelativeKind
<1> QED BY <1>2 DEF Writes, KindIn, New, Dst, u, i

\* It writes no register of another uop.
LEMMA WritesOwn ==
    ASSUME NEW us, NEW x, NEW top \in 0 .. StackSize - 1, Sized(us[x], top),
           us[x].inst.out \in Seq(Logical), NEW E, Owned(us, E),
           \A i \in DOMAIN us[x].out : <<x, i>> \in E,
           NEW e \in E, Writes(us[x], KindIn(us, e), New(us, e))
    PROVE  e[1] = x
<1> DEFINE k == KindIn(us, e)
           r == New(us, e)
<1>1. PICK j \in DOMAIN us[x].out : Kind(us[x].inst.out[j]) = k /\ us[x].out[j] = r
  BY DEF Writes
<1> HIDE DEF k, r
<1> DEFINE f == <<x, j>>
<1>2. f \in E /\ f[1] = x /\ f[2] = j
  OBVIOUS
<1> HIDE DEF f
<1>3. us[x].inst.out[j] \in Logical /\ us[x].dst[j] = RelativeTo(top, us[x].inst.out[j])
  <2> DEFINE u == us[x]
             n == Len(u.inst.out)
  <2>1. /\ u.out \in [1 .. n -> Int] /\ \A i \in 1 .. n : u.dst[i] = RelativeTo(top, u.inst.out[i])
    BY DEF Sized
  <2>2. \A i \in 1 .. n : u.inst.out[i] \in Logical
    OBVIOUS
  <2>3. j \in DOMAIN u.out
    OBVIOUS
  <2> HIDE DEF u, n
  <2>4. j \in 1 .. n
    BY <2>1, <2>3
  <2> QED BY <2>1, <2>2, <2>4 DEF u
<1>4. Kind(us[x].dst[j]) = Kind(us[x].inst.out[j])
  BY <1>3, RelativeKind
<1>5. KindIn(us, f) = k /\ New(us, f) = r
  BY <1>1, <1>2, <1>4 DEF KindIn, New, Dst
<1> QED BY <1>2, <1>5 DEF Owned, k, r

\* The uops of queue q are us before uop x is written back, and vs afterwards.
Written(file, us, vs, q, x) ==
    /\ q \in Seq(UopIds) /\ IsInjective(q) /\ Exact(file, us, q)
    /\ \A y \in Range(q) : us[y].inst.out \in Seq(Logical) /\ (y # x => vs[y] = us[y])
    /\ x \in Range(q) =>
        /\ vs[x].inst = us[x].inst /\ vs[x].out = us[x].out /\ vs[x].old = us[x].old
        /\ vs[x].dst = us[x].dst

LEMMA WrittenExact ==
    ASSUME NEW file, NEW us, NEW vs, NEW q, NEW x, Written(file, us, vs, q, x)
    PROVE  /\ Exact(WriteUop(file, us[x]), vs, q)
           /\ PendingComplete(file, us, q)
                /\ (IF x \in Range(q) THEN vs[x].completed ELSE us[x].out = <<>>)
                    => PendingComplete(WriteUop(file, us[x]), vs, q)
<1> DEFINE E == RenamedOf(q, us)
           place == PlaceIn(q)
           u == us[x]
           s == WriteUop(file, u)
<1>1. /\ q \in Seq(UopIds) /\ IsInjective(q) /\ Exact(file, us, q) /\ DOMAIN q = 1 .. Len(q)
      /\ \A y \in Range(q) : us[y].inst.out \in Seq(Logical) /\ (y # x => vs[y] = us[y])
      /\ x \in Range(q) =>
            /\ vs[x].inst = us[x].inst /\ vs[x].out = us[x].out /\ vs[x].old = us[x].old
            /\ vs[x].dst = us[x].dst
  BY DEF Written
<1>2. \A e \in E : e = <<e[1], e[2]>> /\ e[1] \in Range(q) /\ e[2] \in DOMAIN us[e[1]].out
  BY EntryIn
<1>3. Unmoved(q, us, vs)
  BY <1>1 DEF Unmoved
<1>4. RenamedOf(q, vs) = E
  BY <1>3, EntriesSame DEF Unmoved
<1>5. PICK t : TurnsBy(q, us, t) /\ t[Len(q)] = file.top
  BY <1>1 DEF Exact, Turns
<1> HIDE DEF E, place, u, s
<1>6. Books(file, us, E, place, {}) /\ FileTypes(file)
  BY <1>1 DEF Exact, Books, E, place
<1>7. /\ FileTypes(s) /\ s.top = file.top
      /\ \A k \in Kinds : \A r \in Physical(k) :
            s.pending[k][r] <=> file.pending[k][r] /\ ~ Writes(u, k, r)
  BY <1>6, WriteEffect DEF s
<1>8. Turns(q, vs, s.top)
  <2>1. TurnsBy(q, vs, t)
    BY <1>1, <1>3, <1>5, TurnsSame
  <2> QED BY <1>5, <1>7, <2>1 DEF Turns
<1>9. \A e \in E : e[1] = x => Writes(u, KindIn(us, e), New(us, e))
  <2> SUFFICES ASSUME NEW e \in E, e[1] = x PROVE Writes(us[e[1]], KindIn(us, e), New(us, e))
    BY DEF u
  <2>1. PICK i \in 1 .. Len(q) : q[i] = e[1]
    BY <1>1, <1>2 DEF Range
  <2>2. Sized(us[e[1]], t[i]) /\ t[i] \in 0 .. StackSize - 1
    <3>1. i \in 0 .. Len(q)
      BY <1>1
    <3> QED BY <1>5, <2>1, <3>1 DEF TurnsBy
  <2>3. us[e[1]].inst.out \in Seq(Logical) /\ e[2] \in DOMAIN us[e[1]].out
    BY <1>1, <1>2
  <2> QED BY <2>2, <2>3, OutputWrites
<1>10. Completes(us, vs, E, x)
  <2> SUFFICES ASSUME NEW e \in E
               PROVE  /\ Dst(us, e) = Dst(vs, e) /\ New(us, e) = New(vs, e)
                      /\ Old(us, e) = Old(vs, e)
                      /\ IsDone(us, e) = IsDone(vs, e) \/ e[1] = x
    BY DEF Completes
  <2>1. e[1] \in Range(q)
    BY <1>2
  <2>2. IsDone(us, e) = IsDone(vs, e) \/ e[1] = x
    BY <1>1, <2>1 DEF IsDone
  <2>3. Dst(us, e) = Dst(vs, e) /\ New(us, e) = New(vs, e) /\ Old(us, e) = Old(vs, e)
    BY <1>3, <2>1 DEF Unmoved, Dst, New, Old
  <2> QED BY <2>2, <2>3
<1>11. Books(s, vs, E, place, {})
  BY <1>6, <1>9, <1>10, WriteBooks DEF s
<1>12. ASSUME PendingComplete(file, us, q),
              IF x \in Range(q) THEN vs[x].completed ELSE us[x].out = <<>>
       PROVE  PendingComplete(s, vs, q)
  <2> SUFFICES ASSUME NEW e \in E, ~ IsDone(vs, e)
               PROVE  s.pending[KindIn(vs, e)][New(vs, e)]
    BY <1>4 DEF PendingComplete
  <2> DEFINE k == KindIn(us, e)
             r == New(us, e)
  <2>1. e[1] # x /\ vs[e[1]] = us[e[1]]
    BY <1>1, <1>2, <1>12 DEF IsDone
  <2>2. file.pending[k][r] /\ KindIn(vs, e) = k /\ New(vs, e) = r
    BY <1>12, <2>1 DEF PendingComplete, E, IsDone, KindIn, New, Dst
  <2>3. k \in Kinds /\ r \in Physical(k)
    BY <1>6, KindType DEF Books, EntryTypes, KindIn
  <2> HIDE DEF k, r
  <2>4. ~ Writes(u, k, r)
    <3> SUFFICES ASSUME Writes(us[x], k, r) PROVE FALSE
      BY DEF u
    <3>1. x \in Range(q)
      BY <1>12 DEF Writes
    <3>2. PICK i \in 1 .. Len(q) : q[i] = x
      BY <1>1, <3>1 DEF Range
    <3>3. Sized(us[x], t[i]) /\ t[i] \in 0 .. StackSize - 1
      <4>1. i \in 0 .. Len(q)
        BY <1>1
      <4> QED BY <1>5, <3>2, <4>1 DEF TurnsBy
    <3>4. \A j \in DOMAIN us[x].out : <<x, j>> \in E
      BY <3>1, EntryIn DEF E
    <3>5. Owned(us, E) /\ us[x].inst.out \in Seq(Logical)
      BY <1>1, <1>6, <3>1 DEF Books
    <3>6. e[1] = x
      BY <3>3, <3>4, <3>5, WritesOwn DEF k, r
    <3> QED BY <2>1, <3>6
  <2> QED BY <1>7, <2>2, <2>3, <2>4
<1> QED BY <1>1, <1>4, <1>8, <1>11, <1>12 DEF Exact, s, u, place

\* Uops us are the ones that exist when uop x has completed.
Completed(us, x) ==
    /\ \A y \in UopIds \ {x} : us[y] = uops[y]
    /\ us[x].completed = TRUE /\ IsUop(us[x]) /\ us[x] # NoUop
    /\ us[x].inst = uops[x].inst /\ us[x].out = uops[x].out /\ us[x].old = uops[x].old
    /\ us[x].dst = uops[x].dst /\ us[x].spec = uops[x].spec /\ us[x].first = uops[x].first
    /\ us[x].index = uops[x].index /\ us[x].position = uops[x].position

LEMMA CompletedIs ==
    ASSUME ThreadInv, NEW x \in events
    PROVE  Completed([uops EXCEPT ![x].completed = TRUE], x)
<1> DEFINE u == uops[x]
           us == [uops EXCEPT ![x].completed = TRUE]
<1>1. x \in UopIds /\ u # NoUop /\ IsUop(u) /\ DOMAIN uops = UopIds
  BY QueuesAre DEF Waiting, ThreadInv, ThreadTypes
<1>2. us[x] = [u EXCEPT !.completed = TRUE] /\ \A y \in UopIds \ {x} : us[y] = uops[y]
  <2> HIDE DEF u
  <2> QED BY <1>1 DEF u
<1> HIDE DEF us
<1> DEFINE v == us[x]
<1>3. DOMAIN u = Fields /\ v = [u EXCEPT !.completed = TRUE]
  BY <1>1, <1>2 DEF IsUop
<1> HIDE DEF u, v
<1>4. /\ DOMAIN v = Fields /\ v.op = u.op /\ v.inst = u.inst /\ v.spec = u.spec
      /\ v.index = u.index /\ v.position = u.position /\ v.first = u.first
      /\ v.completed = TRUE
  BY <1>3 DEF Fields
<1>5. v.out = u.out /\ v.old = u.old /\ v.dst = u.dst
  BY <1>3 DEF Fields
<1>6. IsUop(v)
  <2>1. v.completed \in BOOLEAN
    BY <1>4
  <2> QED BY <1>1, <1>4, <2>1 DEF IsUop
<1>7. v # NoUop
  BY <1>6 DEF IsUop, NoUop
<1> QED BY <1>2, <1>4, <1>5, <1>6, <1>7 DEF Completed, us, v, u

\* The file after the write, for the uops us.
LEMMA WriteExact ==
    ASSUME ThreadInv, RegisterInv, NEW x \in events, NEW us, Completed(us, x)
    PROVE  /\ Exact(WriteUop(rf, uops[x]), us, rob)
           /\ LateLoads \/ PendingComplete(WriteUop(rf, uops[x]), us, rob)
<1>1. /\ rob \in Seq(UopIds) /\ IsInjective(rob)
      /\ \A y \in Range(rob) : y \in UopIds /\ uops[y] # NoUop
      /\ x \in UopIds /\ uops[x] # NoUop
  BY QueuesAre DEF Waiting
<1>2. \A y \in Range(rob) : uops[y].inst.out \in Seq(Logical)
  BY <1>1 DEF RegisterInv, InstInv, Micros
<1>3. Written(rf, uops, us, rob, x)
  BY <1>1, <1>2 DEF Written, Completed, RegisterInv
<1>4. LateLoads \/ (PendingComplete(rf, uops, rob)
                    /\ (IF x \in Range(rob) THEN us[x].completed ELSE uops[x].out = <<>>))
  <2> SUFFICES ASSUME ~ LateLoads
               PROVE  /\ PendingComplete(rf, uops, rob)
                      /\ IF x \in Range(rob) THEN us[x].completed ELSE uops[x].out = <<>>
    OBVIOUS
  <2>1. PendingComplete(rf, uops, rob) /\ InRob
    BY DEF RegisterInv
  <2>2. x \notin Range(rob) => uops[x].out = <<>>
    BY <1>1, <2>1 DEF InRob, RegisterInv, InstInv
  <2> QED BY <2>1, <2>2 DEF Completed
<1> QED BY <1>3, <1>4, WrittenExact

LEMMA WritebackRegisters ==
    ASSUME ThreadInv, RegisterInv, NEW x \in UopIds, Writeback(x),
           ~ (cf.atWriteback /\ uops[x].first)
    PROVE  RegisterInv'
<1> DEFINE us == [uops EXCEPT ![x].completed = TRUE]
           file == WriteUop(rf, uops[x])
<1>1. /\ x \in events /\ events' = events \ {x} /\ rf' = file /\ uops' = Kept(us)
      /\ UNCHANGED <<cf, fetchq, uopq, rob, iq, loadq, storeq, memory>>
  BY DEF Writeback, canWrite
<1>2. Completed(us, x)
  BY <1>1, CompletedIs
<1> HIDE DEF us, file
<1>3. Exact(file, us, rob) /\ (LateLoads \/ PendingComplete(file, us, rob))
  BY <1>1, <1>2, WriteExact DEF file
<1>4. /\ rob \in Seq(UopIds) /\ uopq \in Seq(UopIds) /\ fetchq \in Seq(UopIds)
      /\ IsInjective(rob)
      /\ Range(Path) = Range(rob) \cup Range(uopq) \cup Range(fetchq)
      /\ \A y \in Range(Path) \cup Waiting : y \in UopIds /\ uops[y] # NoUop
      /\ Waiting \cap (Range(uopq) \cup Range(fetchq)) = {}
  BY QueuesAre
<1>5. Path' = Path /\ Waiting' = Waiting \ {x} /\ x \in Waiting
  <2>1. x \notin iq /\ x \notin loadq /\ x \notin Range(storeq) /\ x \notin memory
    BY <1>1 DEF RegisterInv, StageInv, ThreadInv, WaitInv
  <2>2. Path' = Path
    BY <1>1 DEF Path
  <2> QED BY <1>1, <2>1, <2>2 DEF Waiting
<1>6. \A y \in UopIds :
            uops'[y] = IF y \in Range(Path') \cup Waiting' THEN us[y] ELSE NoUop
  <2>1. rob' \in Seq(UopIds) /\ uopq' \in Seq(UopIds) /\ fetchq' \in Seq(UopIds)
    BY <1>1, <1>4
  <2> QED BY <1>1, <2>1, KeptIs
<1>7. LateLoads' <=> LateLoads
  BY <1>1 DEF LateLoads
<1>8. InstInv'
  <2> SUFFICES ASSUME NEW y \in UopIds, uops'[y] # NoUop
               PROVE  /\ uops'[y].inst \in Micros
                      /\ uops'[y].inst.op = "store" => uops'[y].out = <<>>
                      /\ uops'[y].spec /\ uops'[y].inst.op = "load" => LateLoads
    BY <1>7 DEF InstInv
  <2>1. uops'[y] = us[y] /\ uops[y] # NoUop
    BY <1>4, <1>5, <1>6
  <2>2. us[y].inst = uops[y].inst /\ us[y].out = uops[y].out /\ us[y].spec = uops[y].spec
    BY <1>2 DEF Completed
  <2> QED BY <2>1, <2>2 DEF RegisterInv, InstInv
<1>9. StageInv'
  <2>1. ASSUME NEW y \in Range(uopq') \cup Range(fetchq') \cup Waiting'
        PROVE  ~ uops'[y].completed
    <3>1. y # x /\ y \in Range(uopq) \cup Range(fetchq) \cup Waiting
      BY <1>1, <1>4, <1>5
    <3>2. y \in UopIds /\ y \in Range(Path') \cup Waiting'
      BY <1>1, <1>4, <1>5
    <3>3. uops'[y] = uops[y]
      BY <1>2, <1>6, <3>1, <3>2 DEF Completed
    <3> QED BY <3>1, <3>3 DEF RegisterInv, StageInv
  <2>2. iq' \cap events' = {}
    BY <1>1 DEF RegisterInv, StageInv
  <2> QED BY <2>1, <2>2 DEF StageInv
<1>10. Exact(rf', uops', rob') /\ (LateLoads \/ PendingComplete(rf', uops', rob'))
  <2>1. \A y \in Range(rob) : uops'[y] = us[y]
    BY <1>4, <1>5, <1>6
  <2>2. /\ Exact(file, uops', rob)
        /\ PendingComplete(file, us, rob) => PendingComplete(file, uops', rob)
    BY <1>3, <1>4, <2>1, ExactSame
  <2> QED BY <1>1, <1>3, <2>2
<1>11. InRob => InRob'
  <2> SUFFICES ASSUME InRob, NEW y \in iq' \cup loadq' \cup memory' \cup events',
                      uops'[y].inst.op # "store"
               PROVE  y \in Range(rob')
    BY DEF InRob
  <2>1. y \in Waiting' /\ y \in iq \cup loadq \cup memory \cup events
    BY <1>1 DEF Waiting
  <2>2. y # x /\ uops'[y] = uops[y]
    BY <1>2, <1>4, <1>5, <1>6, <2>1 DEF Completed
  <2> QED BY <1>1, <2>1, <2>2 DEF InRob
<1> QED BY <1>7, <1>8, <1>9, <1>10, <1>11 DEF RegisterInv
-----------------------------------------------------------------------------
(***************************************************************************)
(* Recovery: the wrong path is taken from the end of the queue.            *)
(***************************************************************************)
\* The entries of the first j uops.
Upto(q, us, j) == {e \in RenamedOf(q, us) : PlaceIn(q)[e[1]] <= j}
Open(file, us, F) ==
    \A e \in F : ~ IsDone(us, e) => file.pending[KindIn(us, e)][New(us, e)]

UndoneStep(r, u) ==
    IF ~ u.spec THEN r ELSE UndoUop(IF u.completed THEN r ELSE WriteUop(r, u), u)

\* The wrong path of q comes after its first m uops.
Squashing(us, q, t, m) ==
    /\ q \in Seq(UopIds) /\ IsInjective(q) /\ TurnsBy(q, us, t) /\ m \in 0 .. Len(q)
    /\ \A y \in Range(q) : us[y].inst.out \in Seq(Logical)
    /\ \A j \in 1 .. Len(q) : us[q[j]].spec <=> m < j

\* The j-th uop is squashed, which takes register file r to s.
Squashes1(us, q, t, m, j, r, s) ==
    /\ Squashing(us, q, t, m) /\ j \in 1 .. Len(q) /\ m < j
    /\ Books(r, us, Upto(q, us, j), PlaceIn(q), {}) /\ r.top = t[j]
    /\ s = UndoneStep(r, us[q[j]])

LEMMA SquashStep ==
    ASSUME NEW us, NEW q, NEW t, NEW m, NEW j, NEW r, NEW s, Squashes1(us, q, t, m, j, r, s)
    PROVE  /\ Books(s, us, Upto(q, us, j - 1), PlaceIn(q), {})
           /\ s.top = t[j - 1]
           /\ Open(r, us, Upto(q, us, j)) => Open(s, us, Upto(q, us, j - 1))
<1> DEFINE place == PlaceIn(q)
           x == q[j]
           E == Upto(q, us, j)
           F == Upto(q, us, j - 1)
           w == IF us[x].completed THEN r ELSE WriteUop(r, us[x])
           n == Len(us[x].inst.out)
<1>0. /\ Squashing(us, q, t, m) /\ j \in 1 .. Len(q) /\ m < j
      /\ Books(r, us, E, place, {}) /\ r.top = t[j] /\ s = UndoneStep(r, us[x])
  BY DEF Squashes1
<1>1. /\ q \in Seq(UopIds) /\ IsInjective(q) /\ TurnsBy(q, us, t) /\ Len(q) \in Nat
      /\ us[x].inst.out \in Seq(Logical) /\ us[x].spec /\ x \in Range(q)
      /\ j \in 1 .. Len(q) /\ j \in Nat
  <2>1. Squashing(us, q, t, m) /\ j \in 1 .. Len(q) /\ m < j
    BY <1>0
  <2> QED BY <2>1 DEF Squashing, Range
<1>2. /\ place[x] = j
      /\ \A y \in Range(q) : place[y] \in 1 .. Len(q) /\ q[place[y]] = y
  BY <1>1, PlaceIs
<1>3. \A e \in E : /\ e \in RenamedOf(q, us) /\ place[e[1]] <= j
                   /\ e[1] \in Range(q) /\ e[2] \in DOMAIN us[e[1]].out
  BY EntryIn DEF Upto
<1>4. \A i \in DOMAIN us[x].out : <<x, i>> \in E
  <2> SUFFICES ASSUME NEW i \in DOMAIN us[x].out PROVE <<x, i>> \in E
    OBVIOUS
  <2>1. <<x, i>> \in RenamedOf(q, us)
    BY <1>1, EntryIn
  <2>2. place[<<x, i>>[1]] = j /\ j <= j
    BY <1>1, <1>2
  <2> QED BY <2>1, <2>2 DEF Upto
<1>5. \A e \in E : e[1] # x => place[e[1]] < j
  <2> SUFFICES ASSUME NEW e \in E, e[1] # x PROVE place[e[1]] # j
    BY <1>1, <1>2, <1>3
  <2> QED BY <1>2, <1>3
<1>6. F = {e \in E : e[1] # x}
  <2>1. ASSUME NEW e
        PROVE  e \in F <=> e \in E /\ e[1] # x
    <3>1. e \in F <=> e \in RenamedOf(q, us) /\ place[e[1]] <= j - 1
      BY DEF Upto
    <3>2. e \in E <=> e \in RenamedOf(q, us) /\ place[e[1]] <= j
      BY DEF Upto
    <3>3. e \in RenamedOf(q, us) => e[1] \in Range(q) /\ place[e[1]] \in Nat
      BY <1>1, <1>2, EntryIn
    <3>4. e \in E /\ e[1] # x => place[e[1]] <= j - 1
      BY <1>1, <1>5, <3>2, <3>3
    <3>5. e \in F => e \in E /\ e[1] # x
      <4> SUFFICES ASSUME e \in F PROVE e \in E /\ e[1] # x
        OBVIOUS
      <4>1. place[e[1]] <= j - 1 /\ place[e[1]] \in Nat
        BY <3>1, <3>3
      <4>2. place[e[1]] <= j /\ place[e[1]] # j
        BY <1>1, <4>1
      <4> QED BY <1>2, <3>1, <3>2, <4>2
    <3> QED BY <3>1, <3>2, <3>4, <3>5
  <2> QED BY <2>1
<1>7. t[j] \in 0 .. StackSize - 1 /\ t[j - 1] \in 0 .. StackSize - 1
      /\ t[j] = TopAfter(t[j - 1], us[x].inst.op) /\ Sized(us[x], t[j])
  <2>1. j \in 0 .. Len(q) /\ j - 1 \in 0 .. Len(q)
    BY <1>1
  <2> QED BY <1>1, <2>1 DEF TurnsBy
<1> HIDE DEF place, x, E, F, w, n
<1>8. Books(r, us, E, place, {}) /\ FileTypes(r)
  BY <1>0 DEF Books
<1>9. \A e \in E : e[1] = x => Writes(us[x], KindIn(us, e), New(us, e))
  <2> SUFFICES ASSUME NEW e \in E, e[1] = x PROVE Writes(us[e[1]], KindIn(us, e), New(us, e))
    OBVIOUS
  <2> QED BY <1>1, <1>3, <1>7, OutputWrites
<1>10. /\ Books(w, us, E, place, {}) /\ w.top = t[j]
       /\ \A k \in Kinds : \A g \in Physical(k) :
            w.pending[k][g] <=> r.pending[k][g] /\ (us[x].completed \/ ~ Writes(us[x], k, g))
  <2>1. CASE us[x].completed
    BY <1>0, <1>8, <2>1 DEF w
  <2>2. CASE ~ us[x].completed
    <3>1. Completes(us, us, E, x)
      BY DEF Completes
    <3>2. Books(WriteUop(r, us[x]), us, E, place, {})
      BY <1>8, <1>9, <3>1, WriteBooks
    <3> QED BY <1>0, <1>8, <2>2, <3>2, WriteEffect DEF w
  <2> QED BY <2>1, <2>2
<1>11. Owned(us, E) /\ PendingSound(r, us, E) /\ EntryTypes(us, E, place)
  BY <1>8 DEF Books
<1>12. Outputs(us, E, x, n, w.top)
  BY <1>1, <1>3, <1>4, <1>7, <1>10, OutputsOf DEF n
<1>13. \A i \in 1 .. n : ~ w.pending[Kind(us[x].dst[i])][us[x].out[i]]
  <2> SUFFICES ASSUME NEW i \in 1 .. n, w.pending[Kind(us[x].dst[i])][us[x].out[i]]
               PROVE  FALSE
    OBVIOUS
  <2> DEFINE e == <<x, i>>
  <2>1. e \in E /\ e[1] = x /\ e[2] = i
    BY <1>12 DEF Outputs
  <2> HIDE DEF e
  <2> DEFINE k == KindIn(us, e)
             g == New(us, e)
  <2>2. k \in Kinds /\ g \in Physical(k) /\ w.pending[k][g]
    BY <1>11, <2>1, KindType DEF EntryTypes, KindIn, New, Dst
  <2>3. r.pending[k][g] /\ us[x].completed
    BY <1>9, <1>10, <2>1, <2>2
  <2>4. PICK f \in E : KindIn(us, f) = k /\ New(us, f) = g /\ ~ IsDone(us, f)
    BY <1>11, <2>2, <2>3 DEF PendingSound
  <2>5. f[1] = x
    BY <1>11, <2>1, <2>4 DEF Owned
  <2> QED BY <2>3, <2>4, <2>5 DEF IsDone
<1>14. s = UndoUop(w, us[x])
  BY <1>0, <1>1 DEF UndoneStep, w
<1>15. \A f \in E : f[1] # x => place[f[1]] < place[x]
  BY <1>2, <1>5
<1>16. /\ Books(s, us, F, place, {}) /\ s.pending = w.pending
       /\ s.top = TopAfter(w.top, InverseTurn(us[x].inst.op))
  <2>1. Undoes(w, us, E, place, x, n, s, F)
    BY <1>6, <1>10, <1>12, <1>13, <1>14, <1>15 DEF Undoes
  <2> QED BY ONLY <2>1, UndoUopBooks
<1>17. s.top = t[j - 1]
  BY <1>7, <1>10, <1>16, TurnBack
<1>18. ASSUME Open(r, us, E)
       PROVE  Open(s, us, F)
  <2> SUFFICES ASSUME NEW e \in F, ~ IsDone(us, e)
               PROVE  s.pending[KindIn(us, e)][New(us, e)]
    BY DEF Open
  <2>1. e \in E /\ e[1] # x
    BY <1>6
  <2>2. ~ Writes(us[x], KindIn(us, e), New(us, e))
    BY <1>1, <1>4, <1>7, <1>11, <2>1, WritesOwn
  <2>3. r.pending[KindIn(us, e)][New(us, e)]
    BY <1>18, <2>1 DEF Open
  <2>4. KindIn(us, e) \in Kinds /\ New(us, e) \in Physical(KindIn(us, e))
    BY <1>11, <2>1, KindType DEF EntryTypes, KindIn
  <2> QED BY <1>10, <1>16, <2>2, <2>3, <2>4
<1> QED BY <1>16, <1>17, <1>18 DEF E, F, place

\* The wrong path is squashed from the last uop on; T are the files in between.
Squashes(file, us, q, t, m, T) ==
    /\ Squashing(us, q, t, m) /\ T[0] = file
    /\ \A i \in 1 .. Len(q) : T[i] = UndoneStep(T[i - 1], us[q[Len(q) + 1 - i]])
    /\ Books(file, us, Upto(q, us, Len(q)), PlaceIn(q), {}) /\ file.top = t[Len(q)]

LEMMA SquashAll ==
    ASSUME NEW file, NEW us, NEW q, NEW t, NEW m, NEW T, Squashes(file, us, q, t, m, T),
           NEW z, z = T[Len(q)]
    PROVE  /\ Books(z, us, Upto(q, us, m), PlaceIn(q), {}) /\ z.top = t[m]
           /\ Open(file, us, Upto(q, us, Len(q))) => Open(z, us, Upto(q, us, m))
<1> DEFINE n == Len(q)
           All == Open(file, us, Upto(q, us, n))
           P(i) == /\ Books(T[i], us, Upto(q, us, n - i), PlaceIn(q), {})
                   /\ T[i].top = t[n - i]
                   /\ All => Open(T[i], us, Upto(q, us, n - i))
           S == {i \in 0 .. n - m : P(i)}
           Q == {i \in 0 .. m : T[n - m + i] = T[n - m]}
<1>1. /\ q \in Seq(UopIds) /\ n \in Nat /\ m \in 0 .. n /\ m \in Nat /\ n - m \in Nat
      /\ \A j \in 1 .. n : us[q[j]].spec <=> m < j
      /\ Squashing(us, q, t, m) /\ T[0] = file
      /\ \A i \in 1 .. n : T[i] = UndoneStep(T[i - 1], us[q[n + 1 - i]])
      /\ Books(file, us, Upto(q, us, n), PlaceIn(q), {}) /\ file.top = t[n]
  BY DEF Squashes, Squashing
<1> HIDE DEF n, All
<1>2. 0 \in S
  <2>1. n - 0 = n /\ 0 \in 0 .. n - m
    BY <1>1
  <2> QED BY <1>1, <2>1 DEF All
<1>3. ASSUME NEW i \in 0 .. n - m - 1, i \in S
      PROVE  i + 1 \in S
  <2> DEFINE j == n - i
             r == T[i]
             s == T[i + 1]
  <2>1. /\ j \in 1 .. n /\ m < j /\ i + 1 \in 1 .. n /\ (i + 1) - 1 = i /\ n + 1 - (i + 1) = j
        /\ n - (i + 1) = j - 1 /\ i + 1 \in 0 .. n - m
    BY <1>1
  <2>2. s = UndoneStep(r, us[q[j]])
    BY <1>1, <2>1
  <2>3. /\ Books(r, us, Upto(q, us, j), PlaceIn(q), {}) /\ r.top = t[j]
        /\ All => Open(r, us, Upto(q, us, j))
    BY <1>3
  <2>4. j \in 1 .. Len(q)
    BY <2>1 DEF n
  <2> HIDE DEF P, j, r, s
  <2>5. Squashes1(us, q, t, m, j, r, s)
    BY <1>1, <2>1, <2>2, <2>3, <2>4 DEF Squashes1
  <2>6. /\ Books(s, us, Upto(q, us, j - 1), PlaceIn(q), {})
        /\ s.top = t[j - 1]
        /\ Open(r, us, Upto(q, us, j)) => Open(s, us, Upto(q, us, j - 1))
    BY ONLY <2>5, SquashStep
  <2>7. P(i + 1)
    BY <2>1, <2>3, <2>6 DEF P, s
  <2> QED BY <2>1, <2>7
<1>4. P(n - m)
  <2> HIDE DEF P
  <2>1. \A i \in 0 .. n - m - 1 : i \in S => i + 1 \in S
    BY <1>3
  <2> HIDE DEF S
  <2>2. n - m \in S
    <3> DEFINE k == n - m
    <3>1. k \in Nat /\ \A i \in 0 .. k - 1 : i \in S => i + 1 \in S
      BY <1>1, <2>1
    <3> HIDE DEF k
    <3>2. \A i \in 0 .. k : i \in S
      BY <1>2, <3>1, UpTo
    <3> QED BY <3>1, <3>2 DEF k
  <2> QED BY <2>2 DEF S
<1>5. 0 \in Q
  BY <1>1
<1>6. ASSUME NEW i \in 0 .. m - 1, i \in Q
      PROVE  i + 1 \in Q
  <2> DEFINE a == n - m + i
             j == m - i
  <2>1. /\ a + 1 \in 1 .. n /\ (a + 1) - 1 = a /\ n + 1 - (a + 1) = j /\ j \in 1 .. n /\ ~ (m < j)
        /\ n - m + (i + 1) = a + 1 /\ i + 1 \in 0 .. m
    BY <1>1
  <2>2. T[a + 1] = UndoneStep(T[a], us[q[j]])
    BY <1>1, <2>1
  <2>3. ~ us[q[j]].spec
    BY <1>1, <2>1
  <2>4. T[a + 1] = T[a]
    BY <2>2, <2>3 DEF UndoneStep
  <2>5. T[a] = T[n - m]
    BY <1>6
  <2>6. T[n - m + (i + 1)] = T[n - m]
    BY <2>1, <2>4, <2>5
  <2> QED BY <2>1, <2>6
<1>7. z = T[n - m]
  <2>1. \A i \in 0 .. m - 1 : i \in Q => i + 1 \in Q
    BY <1>6
  <2> HIDE DEF Q
  <2>2. \A i \in 0 .. m : i \in Q
    BY <1>1, <1>5, <2>1, UpTo
  <2>3. m \in Q
    BY <1>1, <2>2
  <2>4. T[n - m + m] = T[n - m] /\ n - m + m = n
    BY <1>1, <2>3 DEF Q
  <2> QED BY <2>4 DEF n
<1>8. n - (n - m) = m
  BY <1>1
<1> QED BY <1>4, <1>7, <1>8 DEF All, n

\* The books of q are exact and its wrong path can be squashed, which leaves queue p and
\* register file z.
Squashable(file, us, q, m, T, z, p) ==
    /\ q \in Seq(UopIds) /\ IsInjective(q) /\ m \in 0 .. Len(q) /\ Exact(file, us, q)
    /\ \A y \in Range(q) : us[y].inst.out \in Seq(Logical)
    /\ \A j \in 1 .. Len(q) : us[q[j]].spec <=> m < j
    /\ T[0] = file
    /\ \A i \in 1 .. Len(q) : T[i] = UndoneStep(T[i - 1], us[q[Len(q) + 1 - i]])
    /\ z = T[Len(q)] /\ p = SubSeq(q, 1, m)

LEMMA SquashExact ==
    ASSUME NEW file, NEW us, NEW q, NEW m, NEW T, NEW z, NEW p,
           Squashable(file, us, q, m, T, z, p)
    PROVE  /\ Exact(z, us, p)
           /\ PendingComplete(file, us, q) => PendingComplete(z, us, p)
<1> DEFINE n == Len(q)
           place == PlaceIn(q)
           E == Upto(q, us, n)
           F == Upto(q, us, m)
<1>0. /\ q \in Seq(UopIds) /\ IsInjective(q) /\ m \in 0 .. n /\ Exact(file, us, q)
      /\ z = T[n] /\ p = SubSeq(q, 1, m)
  BY DEF Squashable
<1>1. n \in Nat /\ m \in Nat /\ m <= n /\ DOMAIN q = 1 .. n
  BY <1>0
<1>2. \A i \in 1 .. n : q[i] \in Range(q) /\ place[q[i]] = i
  BY <1>0, PlaceIs
<1>3. \A x \in Range(q) : place[x] \in 1 .. n /\ q[place[x]] = x
  BY <1>0, PlaceIs
<1>4. \A e \in RenamedOf(q, us) : e[1] \in Range(q)
  BY EntryIn
<1>5. E = RenamedOf(q, us)
  <2>1. \A e \in RenamedOf(q, us) : place[e[1]] <= n
    BY <1>1, <1>3, <1>4
  <2> QED BY <2>1 DEF Upto
<1>6. PICK t : TurnsBy(q, us, t) /\ t[n] = file.top
  BY <1>0 DEF Exact, Turns
<1>7. Squashes(file, us, q, t, m, T)
  BY <1>5, <1>6 DEF Squashes, Squashing, Exact, Squashable
<1>8. /\ Books(z, us, F, place, {}) /\ z.top = t[m]
      /\ Open(file, us, E) => Open(z, us, F)
  BY <1>0, <1>7, SquashAll
<1>9. p \in Seq(UopIds) /\ Len(p) = m /\ DOMAIN p = 1 .. m /\ \A i \in 1 .. m : p[i] = q[i]
  <2>1. p \in Seq(UopIds) /\ Len(p) = m /\ \A i \in 1 .. m : p[i] = q[i]
    BY <1>0, SplitIs
  <2> QED BY <2>1
<1>10. IsInjective(p)
  <2>1. \A i \in DOMAIN p : i \in DOMAIN q /\ p[i] = q[i]
    BY <1>1, <1>9
  <2> QED BY <1>0, <2>1 DEF IsInjective
<1>11. \A x : x \in Range(p) <=> x \in Range(q) /\ place[x] <= m
  <2> SUFFICES ASSUME NEW x PROVE x \in Range(p) <=> x \in Range(q) /\ place[x] <= m
    OBVIOUS
  <2>1. ASSUME x \in Range(p)
        PROVE  x \in Range(q) /\ place[x] <= m
    <3>1. PICK i \in 1 .. m : p[i] = x
      BY <1>9, <2>1 DEF Range
    <3>2. i \in 1 .. n /\ q[i] = x
      BY <1>1, <1>9, <3>1
    <3> QED BY <1>1, <1>2, <3>1, <3>2
  <2>2. ASSUME x \in Range(q), place[x] <= m
        PROVE  x \in Range(p)
    <3>1. place[x] \in 1 .. m /\ q[place[x]] = x
      BY <1>1, <1>3, <2>2
    <3>2. p[place[x]] = x
      BY <1>9, <3>1
    <3> QED BY <1>9, <3>1, <3>2 DEF Range
  <2> QED BY <2>1, <2>2
<1>12. \A x \in Range(p) : PlaceIn(p)[x] = place[x] /\ place[x] \in Nat
  <2> SUFFICES ASSUME NEW x \in Range(p) PROVE PlaceIn(p)[x] = place[x] /\ place[x] \in Nat
    OBVIOUS
  <2> DEFINE i == place[x]
  <2>1. i \in 1 .. n /\ i <= m /\ q[i] = x
    BY <1>3, <1>11
  <2> HIDE DEF i
  <2>2. i \in 1 .. m /\ p[i] = x
    BY <1>1, <1>9, <2>1
  <2>3. \A k \in 1 .. Len(p) : PlaceIn(p)[p[k]] = k
    <3>1. p \in Seq(UopIds)
      BY <1>9
    <3> QED BY <1>10, <3>1, PlaceIs
  <2>4. PlaceIn(p)[p[i]] = i
    BY <1>9, <2>2, <2>3
  <2> QED BY <2>1, <2>2, <2>4 DEF i
<1>13. F = RenamedOf(p, us)
  <2>1. ASSUME NEW e
        PROVE  e \in F <=> e \in RenamedOf(p, us)
    <3>1. e \in F <=> e \in RenamedOf(q, us) /\ place[e[1]] <= m
      BY DEF Upto
    <3>2. e \in RenamedOf(q, us) <=>
            /\ e = <<e[1], e[2]>> /\ e[1] \in Range(q) /\ e[2] \in DOMAIN us[e[1]].out
      BY EntryIn
    <3>3. e \in RenamedOf(p, us) <=>
            /\ e = <<e[1], e[2]>> /\ e[1] \in Range(p) /\ e[2] \in DOMAIN us[e[1]].out
      BY EntryIn
    <3> QED BY <1>11, <3>1, <3>2, <3>3
  <2> QED BY <2>1
<1>14. Books(z, us, RenamedOf(p, us), PlaceIn(p), {})
  <2> DEFINE spot == PlaceIn(p)
  <2>1. \A e \in F : e[1] \in Range(p)
    BY <1>13, EntryIn
  <2>2. SameOrder(F, place, spot) /\ \A e \in F : spot[e[1]] \in Nat
    BY <1>12, <2>1 DEF SameOrder
  <2>3. Agree(us, us, F)
    BY DEF Agree
  <2> HIDE DEF F, place, spot
  <2>4. Books(z, us, F, place, {})
    BY <1>8
  <2>5. Books(z, us, F, spot, {})
    BY <2>2, <2>3, <2>4, BooksSame
  <2> QED BY <1>13, <2>5 DEF spot
<1>15. Turns(p, us, z.top)
  <2> DEFINE s == [i \in 0 .. m |-> t[i]]
  <2>1. t \in [0 .. n -> 0 .. StackSize - 1]
    BY <1>6 DEF TurnsBy
  <2>2. s \in [0 .. m -> 0 .. StackSize - 1] /\ \A i \in 0 .. m : s[i] = t[i]
    <3>1. \A i \in 0 .. m : i \in 0 .. n
      BY <1>1
    <3>2. \A i \in 0 .. m : t[i] \in 0 .. StackSize - 1
      BY <2>1, <3>1
    <3> QED BY <3>2
  <2> HIDE DEF s
  <2>3. ASSUME NEW i \in 1 .. m
        PROVE  s[i] = TopAfter(s[i - 1], us[p[i]].inst.op) /\ Sized(us[p[i]], s[i])
    <3>1. i \in 0 .. m /\ i - 1 \in 0 .. m /\ i \in 1 .. n
      BY <1>1
    <3>2. s[i] = t[i] /\ s[i - 1] = t[i - 1] /\ p[i] = q[i]
      BY <1>9, <2>2, <3>1
    <3> QED BY <1>6, <3>1, <3>2 DEF TurnsBy
  <2>4. TurnsBy(p, us, s) /\ s[Len(p)] = z.top
    <3>1. m \in 0 .. m
      BY <1>1
    <3> QED BY <1>8, <1>9, <2>2, <2>3, <3>1 DEF TurnsBy
  <2> QED BY <2>4 DEF Turns
<1>16. PendingComplete(file, us, q) => PendingComplete(z, us, p)
  <2>1. PendingComplete(file, us, q) <=> Open(file, us, E)
    BY <1>5 DEF PendingComplete, Open
  <2>2. PendingComplete(z, us, p) <=> Open(z, us, F)
    BY <1>13 DEF PendingComplete, Open
  <2> QED BY <1>8, <2>1, <2>2
<1> QED BY <1>14, <1>15, <1>16 DEF Exact

\* The loop of Recover.
LEMMA UndoneFileIs ==
    ASSUME rob \in Seq(UopIds), NEW file, NEW us
    PROVE  \E T : /\ T[0] = file /\ UndoneFile(file, us) = T[Len(rob)]
                  /\ \A i \in 1 .. Len(rob) :
                        T[i] = UndoneStep(T[i - 1], us[rob[Len(rob) + 1 - i]])
<1> DEFINE n == Len(rob)
           R(t, k) == t = [i \in 0 .. k |-> IF i = 0 THEN file
                                            ELSE UndoneStep(t[i - 1], us[rob[n + 1 - i]])]
           S == {k \in 0 .. n : \E t : R(t, k)}
<1>0. n \in Nat
  OBVIOUS
<1>1. 0 \in S
  <2>1. R([i \in 0 .. 0 |-> file], 0)
    OBVIOUS
  <2> HIDE DEF R
  <2> QED BY <1>0, <2>1
<1>2. ASSUME NEW k \in 0 .. n - 1, k \in S
      PROVE  k + 1 \in S
  <2>1. PICK t : R(t, k)
    BY <1>2
  <2> HIDE DEF n
  <2> DEFINE s == [i \in 0 .. k + 1 |-> IF i <= k THEN t[i]
                                        ELSE UndoneStep(t[k], us[rob[n + 1 - i]])]
  <2>2. R(s, k + 1)
    <3>1. ASSUME NEW i \in 0 .. k + 1
          PROVE  s[i] = IF i = 0 THEN file ELSE UndoneStep(s[i - 1], us[rob[n + 1 - i]])
      <4>1. CASE i = 0
        BY <1>0, <2>1, <4>1
      <4>2. CASE i \in 1 .. k
        <5>1. s[i] = t[i] /\ i # 0 /\ s[i - 1] = t[i - 1]
          BY <1>0, <4>2
        <5>2. t[i] = UndoneStep(t[i - 1], us[rob[n + 1 - i]])
          BY <1>0, <2>1, <4>2
        <5> QED BY <5>1, <5>2
      <4>3. CASE i = k + 1
        <5>1. /\ s[i] = UndoneStep(t[k], us[rob[n + 1 - i]])
              /\ i - 1 = k /\ s[i - 1] = t[k] /\ i # 0
          BY <1>0, <4>3
        <5> QED BY <5>1
      <4> QED BY <1>0, <4>1, <4>2, <4>3
    <3> QED BY <3>1
  <2>3. k + 1 \in 0 .. n
    BY <1>0
  <2> HIDE DEF R
  <2> QED BY <2>2, <2>3
<1>3. n \in S
  <2> HIDE DEF S, R, n
  <2>1. \A k \in 0 .. n - 1 : k \in S => k + 1 \in S
    BY <1>2
  <2>2. \A k \in 0 .. n : k \in S
    BY <1>0, <1>1, <2>1, UpTo
  <2> QED BY <1>0, <2>2
<1>4. PICK t : R(t, n)
  BY <1>3
<1>5. \E T : R(T, n) /\ UndoneFile(file, us) = T[n]
  BY <1>4 DEF UndoneFile, UndoneStep
<1>6. PICK T : R(T, n) /\ UndoneFile(file, us) = T[n]
  BY <1>5
<1>7. \A i \in 0 .. n : T[i] = IF i = 0 THEN file ELSE UndoneStep(T[i - 1], us[rob[n + 1 - i]])
  BY <1>6
<1> HIDE DEF R, n
<1>8. T[0] = file /\ \A i \in 1 .. n : T[i] = UndoneStep(T[i - 1], us[rob[n + 1 - i]])
  BY <1>0, <1>7
<1> QED BY <1>6, <1>8 DEF n

\* What is left of a queue was in it.
LEMMA TrimmedWithin ==
    ASSUME NEW A, NEW q \in Seq(A), NEW gone PROVE Range(Trimmed(q, gone)) \subseteq Range(q)
<1>1. PICK n \in 0 .. Len(q) : Trimmed(q, gone) = SubSeq(q, 1, n)
  BY TrimmedIs
<1> DEFINE t == SubSeq(q, 1, n)
<1>2. t \in Seq(A) /\ Len(t) = n /\ \A i \in 1 .. n : t[i] = q[i]
  BY SplitIs
<1> HIDE DEF t
<1>3. \A i \in DOMAIN t : i \in DOMAIN q /\ t[i] = q[i]
  BY <1>2
<1>4. Range(t) \subseteq Range(q)
  BY <1>3 DEF Range
<1> QED BY <1>1, <1>4 DEF t

\* Uops us are the ones that exist but for what has completed and been written back.
Continues(us, es) ==
    /\ SameUops(us) /\ es \subseteq events
    /\ \A y \in UopIds : uops[y] # NoUop => us[y].out = uops[y].out
    /\ \A y \in Range(uopq) \cup Range(fetchq) \cup iq \cup loadq \cup Range(storeq)
                    \cup memory \cup es : ~ uops[y].completed => ~ us[y].completed

LEMMA RecoverRegisters ==
    ASSUME ThreadInv, RegisterInv, NEW file, NEW us, NEW es, Recover(file, us, es),
           Continues(us, es), ~ signal, NEW x \in Range(rob), uops[x].first,
           cf.atWriteback => x \notin memory,
           Exact(file, us, rob), LateLoads \/ PendingComplete(file, us, rob)
    PROVE  RegisterInv'
<1> DEFINE gone == Squashed(us)
<1>1. /\ fetchq' = Trimmed(fetchq, gone) /\ uopq' = Trimmed(uopq, gone)
      /\ iq' = iq \ gone
      /\ loadq' = loadq \ gone
      /\ storeq' = Only(storeq, UopIds \ gone)
      /\ events' = es \ gone
      /\ rob' = Trimmed(rob, gone)
      /\ rf' = UndoneFile(file, us)
      /\ UNCHANGED <<cf, memory>>
      /\ uops' = Kept(us)
  BY DEF Recover
<1>2. SameUops(us) /\ es \subseteq events
  BY DEF Continues
<1>3. ThreadInv' /\ \A y \in Range(Path') : uops'[y] = us[y] /\ y \in Range(Path)
  BY <1>2, RecoverInv
<1>4. /\ rob \in Seq(UopIds) /\ uopq \in Seq(UopIds) /\ fetchq \in Seq(UopIds)
      /\ storeq \in Seq(UopIds) /\ IsInjective(rob)
      /\ Range(Path) = Range(rob) \cup Range(uopq) \cup Range(fetchq)
      /\ \A y \in Range(Path) \cup Waiting : y \in UopIds /\ uops[y] # NoUop
  BY QueuesAre
<1>5. /\ rob' \in Seq(UopIds) /\ uopq' \in Seq(UopIds) /\ fetchq' \in Seq(UopIds)
      /\ IsInjective(rob')
  <2>1. IsInjective(Row(rob', uopq', fetchq'))
    BY <1>3 DEF ThreadInv, PathInv, Path, Row
  <2> QED BY <1>3, <2>1, RowInjective DEF ThreadInv, ThreadTypes
<1>6. Range(Path') = Range(rob') \cup Range(uopq') \cup Range(fetchq')
  <2>1. PathOf(rob', uopq', fetchq', Path')
    BY <1>5, PathIs DEF Path
  <2> QED BY <2>1 DEF PathOf
<1>7. \A y \in Range(Path) \cup Waiting : y \in gone <=> uops[y].spec
  BY <1>2, <1>4 DEF Squashed, SameUops
<1> HIDE DEF gone
<1>8. /\ Range(storeq') \subseteq Range(storeq) \ gone
      /\ Waiting' \subseteq iq \cup loadq \cup Range(storeq) \cup memory \cup es
      /\ Waiting' \subseteq Waiting
  <2>1. IsInjective(storeq)
    BY DEF ThreadInv, WaitInv
  <2>2. Range(storeq') \subseteq Range(storeq) \ gone
    BY <1>1, <1>4, <2>1, OnlyRange
  <2> QED BY <1>1, <1>2, <2>2 DEF Waiting
<1>9. \A y \in UopIds :
            uops'[y] = IF y \in Range(Path') \cup Waiting' THEN us[y] ELSE NoUop
  BY <1>1, <1>5, KeptIs
<1>10. PICK m \in 0 .. Len(rob) :
          /\ rob' = SubSeq(rob, 1, m)
          /\ \A i \in 1 .. Len(rob) : m < i => rob[i] \in gone
          /\ m # 0 => rob[m] \notin gone
  BY <1>1, <1>4, TrimmedIs
<1>11. \A i \in 1 .. Len(rob) : rob[i] \in Range(rob) /\ (rob[i] \in gone <=> m < i)
  <2> SUFFICES ASSUME NEW i \in 1 .. Len(rob)
               PROVE  rob[i] \in Range(rob) /\ (rob[i] \in gone <=> m < i)
    OBVIOUS
  <2>1. rob[i] \in Range(rob) /\ (m < i => rob[i] \in gone) /\ Len(rob) \in Nat
    BY <1>4, <1>10 DEF Range
  <2>2. ASSUME rob[i] \in gone, ~ m < i
        PROVE  FALSE
    <3>1. m # 0 /\ m \in 1 .. Len(rob) /\ i <= m
      BY <2>1, <2>2
    <3>2. /\ DOMAIN Path = 1 .. Len(Path) /\ Len(Path) \in Nat /\ Len(rob) <= Len(Path)
          /\ \A j \in 1 .. Len(rob) : Path[j] = rob[j]
      <4>1. PathOf(rob, uopq, fetchq, Path)
        BY <1>4, PathIs DEF Path
      <4>2. Len(uopq) \in Nat /\ Len(fetchq) \in Nat
        BY <1>4
      <4> QED BY <2>1, <4>1, <4>2 DEF PathOf
    <3>3. i \in DOMAIN Path /\ m \in DOMAIN Path /\ Path[i] = rob[i] /\ Path[m] = rob[m]
      BY <2>1, <3>1, <3>2
    <3>4. Path[i] \in Range(Path) /\ Path[m] \in Range(Path)
      BY <3>3 DEF Range
    <3>5. uops[Path[i]].spec
      BY <1>7, <2>2, <3>3, <3>4
    <3>6. uops[Path[m]].spec
      BY <3>1, <3>3, <3>5 DEF ThreadInv, SpecInv, Ordered
    <3> QED BY <1>7, <1>10, <3>1, <3>3, <3>4, <3>6
  <2> QED BY <2>1, <2>2
<1>12. \A y \in UopIds : uops[y] # NoUop =>
            /\ us[y].spec = uops[y].spec /\ us[y].inst = uops[y].inst /\ us[y].out = uops[y].out
  BY DEF Continues, SameUops
<1>13. /\ Exact(rf', uops', rob')
       /\ LateLoads \/ PendingComplete(rf', uops', rob')
  <2>1. \A y \in Range(rob) : us[y].inst.out \in Seq(Logical)
    BY <1>4, <1>12 DEF RegisterInv, InstInv, Micros
  <2>2. \A j \in 1 .. Len(rob) : us[rob[j]].spec <=> m < j
    BY <1>4, <1>7, <1>11, <1>12
  <2>3. PICK T : /\ T[0] = file /\ UndoneFile(file, us) = T[Len(rob)]
                 /\ \A i \in 1 .. Len(rob) :
                        T[i] = UndoneStep(T[i - 1], us[rob[Len(rob) + 1 - i]])
    BY <1>4, UndoneFileIs
  <2> DEFINE z == rf'
             p == rob'
             vs == uops'
  <2>4. Squashable(file, us, rob, m, T, z, p)
    BY <1>1, <1>4, <1>10, <2>1, <2>2, <2>3 DEF Squashable
  <2>5. p \in Seq(UopIds) /\ IsInjective(p) /\ \A y \in Range(p) : vs[y] = us[y]
    BY <1>3, <1>5, <1>6
  <2> HIDE DEF z, p, vs
  <2>6. /\ Exact(z, us, p)
        /\ PendingComplete(file, us, rob) => PendingComplete(z, us, p)
    BY ONLY <2>4, SquashExact
  <2>7. /\ Exact(z, vs, p)
        /\ PendingComplete(z, us, p) => PendingComplete(z, vs, p)
    BY <2>5, <2>6, ExactSame
  <2> QED BY <2>6, <2>7 DEF z, p, vs
<1>14. LateLoads' <=> LateLoads
  BY <1>1 DEF LateLoads
<1>15. \A y \in Range(Path') \cup Waiting' :
            /\ y \in UopIds /\ uops[y] # NoUop /\ uops'[y] = us[y]
            /\ y \in Range(Path) \cup Waiting
  <2> SUFFICES ASSUME NEW y \in Range(Path') \cup Waiting'
               PROVE  /\ y \in UopIds /\ uops[y] # NoUop /\ uops'[y] = us[y]
                      /\ y \in Range(Path) \cup Waiting
    OBVIOUS
  <2>1. y \in Range(Path) \cup Waiting
    BY <1>3, <1>8
  <2> QED BY <1>4, <1>9, <2>1
<1>16. InstInv'
  <2> SUFFICES ASSUME NEW y \in UopIds, uops'[y] # NoUop
               PROVE  /\ uops'[y].inst \in Micros
                      /\ uops'[y].inst.op = "store" => uops'[y].out = <<>>
                      /\ uops'[y].spec /\ uops'[y].inst.op = "load" => LateLoads
    BY <1>14 DEF InstInv
  <2>1. uops'[y] = us[y] /\ uops[y] # NoUop
    BY <1>9, <1>15
  <2>2. us[y].inst = uops[y].inst /\ us[y].out = uops[y].out /\ us[y].spec = uops[y].spec
    BY <1>12, <2>1
  <2> QED BY <2>1, <2>2 DEF RegisterInv, InstInv
<1>17. StageInv'
  <2>1. ASSUME NEW y \in Range(uopq') \cup Range(fetchq') \cup Waiting'
        PROVE  ~ uops'[y].completed
    <3>1. uops'[y] = us[y] /\ y \in UopIds
      BY <1>6, <1>15
    <3>2. y \in Range(uopq) \cup Range(fetchq) \cup iq \cup loadq \cup Range(storeq) \cup memory
                    \cup es
      <4>1. Range(uopq') \subseteq Range(uopq) /\ Range(fetchq') \subseteq Range(fetchq)
        BY <1>1, <1>4, TrimmedWithin
      <4> QED BY <1>8, <4>1
    <3>3. ~ uops[y].completed
      BY <1>2, <3>2 DEF RegisterInv, StageInv, Waiting
    <3> QED BY <3>1, <3>2, <3>3 DEF Continues
  <2>2. iq' \cap events' = {}
    BY <1>1, <1>2 DEF RegisterInv, StageInv
  <2> QED BY <2>1, <2>2 DEF StageInv
<1>18. InRob => InRob' \/ LateLoads
  <2> SUFFICES ASSUME InRob, ~ LateLoads, NEW y \in iq' \cup loadq' \cup memory' \cup events',
                      uops'[y].inst.op # "store"
               PROVE  y \in Range(rob')
    BY DEF InRob
  <2>1. /\ y \in iq \cup loadq \cup memory \cup events /\ y \in Waiting'
        /\ y \in gone => y \in memory
    BY <1>1, <1>2 DEF Waiting
  <2>2. y \in UopIds /\ uops[y] # NoUop /\ uops'[y] = us[y] /\ y \in Waiting
    BY <1>8, <1>15, <2>1
  <2>3. uops[y].inst.op # "store"
    BY <1>12, <2>2
  <2>4. y \in Range(rob)
    BY <2>1, <2>3 DEF InRob
  <2>5. y \notin gone
    <3> SUFFICES ASSUME y \in gone PROVE FALSE
      OBVIOUS
    <3>1. uops[y].spec
      BY <1>7, <2>2
    <3>2. uops[y].inst.op = "load"
      BY <2>1, <2>3 DEF ThreadInv, WaitInv
    <3> QED BY <2>2, <3>1, <3>2 DEF RegisterInv, InstInv
  <2>6. PICK i \in 1 .. Len(rob) : rob[i] = y
    BY <1>4, <2>4 DEF Range
  <2>7. i \in 1 .. m
    BY <1>11, <2>5, <2>6
  <2> DEFINE p == SubSeq(rob, 1, m)
  <2>8. p \in Seq(UopIds) /\ Len(p) = m /\ \A k \in 1 .. m : p[k] = rob[k]
    BY <1>4, SplitIs
  <2> HIDE DEF p
  <2>9. p[i] = y /\ i \in DOMAIN p
    BY <2>6, <2>7, <2>8
  <2>10. rob' = p
    BY <1>10 DEF p
  <2> QED BY <2>9, <2>10 DEF Range
<1> QED BY <1>13, <1>14, <1>16, <1>17, <1>18 DEF RegisterInv

LEMMA WritebackAllRegisters ==
    ASSUME ThreadInv, RegisterInv, NEW x \in UopIds, Writeback(x) PROVE RegisterInv'
<1>1. CASE ~ (cf.atWriteback /\ uops[x].first)
  BY <1>1, WritebackRegisters
<1>2. CASE cf.atWriteback /\ uops[x].first
  <2> DEFINE us == [uops EXCEPT ![x].completed = TRUE]
             file == WriteUop(rf, uops[x])
             es == events \ {x}
  <2>1. ~ signal /\ x \in events /\ Recover(file, us, es)
    BY <1>2 DEF Writeback, canWrite
  <2>2. Completed(us, x)
    BY <2>1, CompletedIs
  <2> HIDE DEF us
  <2>3. Exact(file, us, rob) /\ (LateLoads \/ PendingComplete(file, us, rob))
    BY <2>1, <2>2, WriteExact
  <2> HIDE DEF file
  <2>4. /\ Range(Path) = Range(rob) \cup Range(uopq) \cup Range(fetchq)
        /\ \A y \in Range(Path) \cup Waiting : y \in UopIds /\ uops[y] # NoUop /\ IsUop(uops[y])
        /\ Waiting \cap (Range(uopq) \cup Range(fetchq)) = {}
    BY QueuesAre
  <2>5. x \in Waiting /\ x \notin iq /\ x \notin loadq /\ x \notin Range(storeq)
        /\ x \notin memory
    BY <2>1 DEF Waiting, RegisterInv, StageInv, ThreadInv, WaitInv
  <2>6. x \in Range(rob)
    BY <1>2, <2>4, <2>5 DEF ThreadInv, WaitInv
  <2>7. Continues(us, es)
    <3>1. SameUops(us)
      <4> SUFFICES ASSUME NEW y \in UopIds
                   PROVE  /\ us[y] = NoUop <=> uops[y] = NoUop
                          /\ uops[y] # NoUop =>
                                /\ IsUop(us[y]) /\ us[y].inst = uops[y].inst
                                /\ us[y].spec = uops[y].spec /\ us[y].index = uops[y].index
                                /\ us[y].position = uops[y].position
                                /\ us[y].first = uops[y].first
        BY DEF SameUops
      <4>1. CASE y = x
        BY <2>2, <2>4, <2>5, <4>1 DEF Completed
      <4>2. CASE y # x
        <5>1. us[y] = uops[y]
          BY <2>2, <4>2 DEF Completed
        <5>2. uops[y] = NoUop \/ IsUop(uops[y])
          BY DEF ThreadInv, ThreadTypes
        <5> QED BY <5>1, <5>2
      <4> QED BY <4>1, <4>2
    <3>2. \A y \in UopIds : uops[y] # NoUop => us[y].out = uops[y].out
      BY <2>2 DEF Completed
    <3>3. ASSUME NEW y \in Range(uopq) \cup Range(fetchq) \cup iq \cup loadq \cup Range(storeq)
                                \cup memory \cup es
          PROVE  ~ uops[y].completed => ~ us[y].completed
      <4>1. y # x
        BY <2>4, <2>5
      <4>2. y \in UopIds
        BY <2>4 DEF Waiting
      <4> QED BY <2>2, <4>1, <4>2 DEF Completed
    <3> QED BY <3>1, <3>2, <3>3 DEF Continues
  <2> HIDE DEF es
  <2>8. uops[x].first /\ x \notin memory
    BY <1>2, <2>5
  <2> QED BY <2>1, <2>3, <2>6, <2>7, <2>8, RecoverRegisters
<1> QED BY <1>1, <1>2

LEMMA CommitRecoverRegisters ==
    ASSUME ThreadInv, RegisterInv, CommitRecover PROVE RegisterInv'
<1> DEFINE x == Head(rob)
           file == rf
           us == uops
           es == events
<1>1. /\ ~ signal /\ rob # <<>> /\ uops[x].first /\ Recover(rf, uops, events)
      /\ IF uops[x].inst.op = "store" THEN isUopReady(rf, uops[x]) ELSE uops[x].completed
  BY DEF CommitRecover, canCommit
<1>2. rob \in Seq(UopIds) /\ Range(rob) \subseteq Range(Path)
      /\ \A y \in Range(Path) : y \in UopIds /\ uops[y] # NoUop
  BY QueuesAre
<1>3. x \in Range(rob)
  BY <1>1, <1>2, TailRange
<1>4. cf.atWriteback => x \notin memory
  <2> SUFFICES ASSUME cf.atWriteback PROVE x \notin memory
    OBVIOUS
  <2>1. ~ uops[x].completed
    BY <1>1, <1>2, <1>3 DEF ThreadInv, WaitInv
  <2>2. uops[x].inst.op = "store"
    BY <1>1, <2>1
  <2> QED BY <1>3, <2>2 DEF ThreadInv, WaitInv
<1>5. Continues(us, es)
  <2>1. SameUops(us)
    BY DEF SameUops, ThreadInv, ThreadTypes
  <2> QED BY <2>1 DEF Continues
<1>6. Exact(file, us, rob) /\ (LateLoads \/ PendingComplete(file, us, rob))
  BY DEF RegisterInv
<1>7. Recover(file, us, es)
  BY <1>1
<1> HIDE DEF x, file, us, es
<1> QED BY <1>1, <1>3, <1>4, <1>5, <1>6, <1>7, RecoverRegisters
-----------------------------------------------------------------------------
(***************************************************************************)
(* Commit.                                                                 *)
(***************************************************************************)
\* The oldest uop of q has completed, or has no outputs; s is the register file without
\* it, and p are the other uops.
Retires(file, us, q, s, p) ==
    /\ q \in Seq(UopIds) /\ q # <<>> /\ IsInjective(q) /\ p = Tail(q) /\ Exact(file, us, q)
    /\ us[q[1]].inst.out \in Seq(Logical)
    /\ us[q[1]].inst.out = <<>> \/ us[q[1]].completed
    /\ s = CommitUop(file, us[q[1]])

LEMMA CommitExact ==
    ASSUME NEW file, NEW us, NEW q, NEW s, NEW p, Retires(file, us, q, s, p)
    PROVE  /\ Exact(s, us, p)
           /\ PendingComplete(file, us, q) => PendingComplete(s, us, p)
<1> DEFINE x == q[1]
           place == PlaceIn(q)
           spot == PlaceIn(p)
           E == RenamedOf(q, us)
           G == RenamedOf(p, us)
           n == Len(us[x].inst.out)
           m == Len(q)
<1>1. /\ q \in Seq(UopIds) /\ q # <<>> /\ IsInjective(q) /\ p = Tail(q) /\ Exact(file, us, q)
      /\ us[x].inst.out \in Seq(Logical)
      /\ us[x].inst.out = <<>> \/ us[x].completed
      /\ s = CommitUop(file, us[x])
  BY DEF Retires
<1>2. m \in Nat \ {0} /\ 1 \in 1 .. m /\ DOMAIN q = 1 .. m
  BY <1>1
<1>3. /\ p \in Seq(UopIds) /\ Len(p) = m - 1 /\ DOMAIN p = 1 .. m - 1
      /\ \A i \in 1 .. m - 1 : p[i] = q[i + 1]
  BY <1>1
<1>4. Range(p) = Range(q) \ {x} /\ IsInjective(p) /\ x \in Range(q)
  <2>1. Head(q) = x
    BY <1>1
  <2> QED BY <1>1, <2>1, TailRange
<1>5. /\ \A y \in Range(q) : place[y] \in 1 .. m /\ q[place[y]] = y
      /\ \A i \in 1 .. m : q[i] \in Range(q) /\ place[q[i]] = i
  BY <1>1, PlaceIs
<1>6. /\ \A y \in Range(p) : spot[y] \in 1 .. m - 1 /\ p[spot[y]] = y
      /\ \A i \in 1 .. m - 1 : p[i] \in Range(p) /\ spot[p[i]] = i
  BY <1>3, <1>4, PlaceIs
<1>7. \A y \in Range(p) : spot[y] = place[y] - 1 /\ place[y] \in Nat /\ 1 < place[y]
  <2> SUFFICES ASSUME NEW y \in Range(p)
               PROVE  spot[y] = place[y] - 1 /\ place[y] \in Nat /\ 1 < place[y]
    OBVIOUS
  <2> DEFINE i == spot[y]
  <2>1. i \in 1 .. m - 1 /\ p[i] = y
    BY <1>6
  <2> HIDE DEF i
  <2>2. i + 1 \in 1 .. m /\ q[i + 1] = y /\ i \in Nat
    BY <1>2, <1>3, <2>1
  <2>3. place[y] = i + 1
    BY <1>5, <2>2
  <2>4. spot[y] = i
    BY DEF i
  <2>6. place[y] - 1 = i /\ place[y] \in Nat /\ 1 < place[y]
    <3> DEFINE a == place[y]
    <3>1. a = i + 1 /\ i \in 1 .. m - 1 /\ m \in Nat
      BY <1>2, <2>1, <2>3
    <3> HIDE DEF a, i, m, place
    <3>2. a - 1 = i /\ a \in Nat /\ 1 < a
      BY <3>1
    <3> QED BY <3>2 DEF a
  <2> HIDE DEF place, spot, i
  <2> QED BY <2>4, <2>6
<1>8. PICK t : TurnsBy(q, us, t) /\ t[m] = file.top
  BY <1>1 DEF Exact, Turns
<1>9. \A i \in 0 .. m : t[i] \in 0 .. StackSize - 1
  BY <1>8 DEF TurnsBy
<1>10. Sized(us[x], t[1])
  BY <1>2, <1>8 DEF TurnsBy
<1>11. G = {e \in E : e[1] # x}
  <2> SUFFICES ASSUME NEW e
               PROVE  e \in G <=> e \in E /\ e[1] # x
    OBVIOUS
  <2>1. e \in G <=> e = <<e[1], e[2]>> /\ e[1] \in Range(p) /\ e[2] \in DOMAIN us[e[1]].out
    BY EntryIn
  <2>2. e \in E <=> e = <<e[1], e[2]>> /\ e[1] \in Range(q) /\ e[2] \in DOMAIN us[e[1]].out
    BY EntryIn
  <2> QED BY <1>4, <2>1, <2>2
<1>12. Outputs(us, E, x, n, t[1])
  <2>1. \A i \in DOMAIN us[x].out : <<x, i>> \in E
    BY <1>4, EntryIn
  <2>2. \A e \in E : e[1] = x => e[2] \in DOMAIN us[x].out
    BY EntryIn
  <2> HIDE DEF x, E
  <2> QED BY <1>1, <1>10, <2>1, <2>2, OutputsOf
<1>13. \A f \in E : f[1] # x => place[x] < place[f[1]]
  <2> SUFFICES ASSUME NEW f \in E, f[1] # x PROVE place[x] < place[f[1]]
    OBVIOUS
  <2>1. f[1] \in Range(p)
    BY <1>4, EntryIn
  <2>2. place[x] = 1
    BY <1>2, <1>5
  <2> QED BY <1>7, <2>1, <2>2
<1>14. n = 0 \/ us[x].completed
  BY <1>1
<1>15. Books(file, us, E, place, {})
  BY <1>1 DEF Exact
<1>16. t[1] \in 0 .. StackSize - 1
  BY <1>2, <1>9
<1>17. \A e \in G : e[1] \in Range(p)
  BY EntryIn
<1>18. p = Tail(q) /\ Len(p) = m - 1
  BY <1>1, <1>3
<1> HIDE DEF x, place, spot, E, G, n, m
<1>19. Books(s, us, G, place, {}) /\ s.pending = file.pending /\ s.top = file.top
  <2> DEFINE top == t[1]
  <2> HIDE DEF top
  <2>1. GivesUp(file, us, E, place, x, n, top, s, G)
    BY <1>1, <1>11, <1>12, <1>13, <1>14, <1>15, <1>16 DEF GivesUp, top
  <2> QED BY ONLY <2>1, CommitUopBooks
<1>20. Books(s, us, G, spot, {})
  <2>1. \A e, f \in G : place[e[1]] < place[f[1]] <=> spot[e[1]] < spot[f[1]]
    BY <1>7, <1>17
  <2>2. SameOrder(G, place, spot)
    BY <2>1 DEF SameOrder
  <2>3. \A e \in G : spot[e[1]] \in Nat
    BY <1>7, <1>17
  <2>4. Agree(us, us, G)
    BY DEF Agree
  <2> QED BY <1>19, <2>2, <2>3, <2>4, BooksSame
<1>21. Turns(p, us, s.top)
  <2> DEFINE r == [i \in 0 .. m - 1 |-> t[i + 1]]
  <2>1. r \in [0 .. m - 1 -> 0 .. StackSize - 1] /\ \A i \in 0 .. m - 1 : r[i] = t[i + 1]
    <3>1. \A i \in 0 .. m - 1 : i + 1 \in 0 .. m
      BY <1>2
    <3> QED BY <1>9, <3>1
  <2> HIDE DEF r
  <2>2. ASSUME NEW i \in 1 .. m - 1
        PROVE  r[i] = TopAfter(r[i - 1], us[p[i]].inst.op) /\ Sized(us[p[i]], r[i])
    <3>1. i \in 0 .. m - 1 /\ i - 1 \in 0 .. m - 1 /\ i + 1 \in 1 .. m /\ (i - 1) + 1 = i
          /\ (i + 1) - 1 = i
      BY <1>2
    <3>2. r[i] = t[i + 1] /\ r[i - 1] = t[i] /\ p[i] = q[i + 1]
      BY <1>3, <2>1, <3>1
    <3>3. /\ t[i + 1] = TopAfter(t[i], us[q[i + 1]].inst.op)
          /\ Sized(us[q[i + 1]], t[i + 1])
      <4>1. \A j \in 1 .. m : t[j] = TopAfter(t[j - 1], us[q[j]].inst.op) /\ Sized(us[q[j]], t[j])
        BY <1>8 DEF TurnsBy, m
      <4> QED BY <3>1, <4>1
    <3> QED BY <3>2, <3>3
  <2>3. TurnsBy(p, us, r)
    BY <1>18, <2>1, <2>2 DEF TurnsBy
  <2>4. r[Len(p)] = s.top
    <3>1. m - 1 \in 0 .. m - 1 /\ (m - 1) + 1 = m
      BY <1>2
    <3> QED BY <1>8, <1>18, <1>19, <2>1, <3>1
  <2> QED BY <2>3, <2>4 DEF Turns
<1>22. ASSUME PendingComplete(file, us, q)
       PROVE  PendingComplete(s, us, p)
  <2> SUFFICES ASSUME NEW e \in G, ~ IsDone(us, e) PROVE s.pending[KindIn(us, e)][New(us, e)]
    BY DEF PendingComplete, G
  <2>1. e \in E
    BY <1>11
  <2> QED BY <1>19, <1>22, <2>1 DEF PendingComplete, E
<1> QED BY <1>20, <1>21, <1>22 DEF Exact, G, spot

LEMMA CommitRegisters ==
    ASSUME ThreadInv, RegisterInv, Commit PROVE RegisterInv'
<1> DEFINE x == Head(rob)
<1>1. /\ rob # <<>> /\ rob' = Tail(rob) /\ rf' = CommitUop(rf, uops[x])
      /\ uops' = Kept(uops)
      /\ UNCHANGED <<cf, fetchq, uopq, iq, loadq, storeq, memory, events>>
      /\ IF uops[x].inst.op = "store" THEN isUopReady(rf, uops[x]) ELSE uops[x].completed
  BY DEF Commit, canCommit
<1>2. /\ rob \in Seq(UopIds) /\ uopq \in Seq(UopIds) /\ fetchq \in Seq(UopIds)
      /\ IsInjective(rob)
      /\ Range(Path) = Range(rob) \cup Range(uopq) \cup Range(fetchq)
      /\ \A y \in Range(Path) \cup Waiting : y \in UopIds /\ uops[y] # NoUop
  BY QueuesAre
<1>3. /\ x \in Range(rob) /\ Range(rob) = Range(rob') \cup {x} /\ rob' \in Seq(UopIds)
      /\ IsInjective(rob') /\ x = rob[1]
  <2>1. x = rob[1]
    BY <1>1, <1>2
  <2> QED BY <1>1, <1>2, <2>1, TailRange
<1> HIDE DEF x
<1>4. Range(Path') = Range(rob') \cup Range(uopq) \cup Range(fetchq) /\ Waiting' = Waiting
  <2>1. PathOf(rob', uopq', fetchq', Path')
    BY <1>1, <1>2, <1>3, PathIs DEF Path
  <2> QED BY <1>1, <2>1 DEF PathOf, Waiting
<1>5. \A y \in UopIds :
            uops'[y] = IF y \in Range(Path') \cup Waiting' THEN uops[y] ELSE NoUop
  <2>1. uopq' \in Seq(UopIds) /\ fetchq' \in Seq(UopIds)
    BY <1>1, <1>2
  <2> QED BY <1>1, <1>3, <2>1, KeptIs
<1>6. LateLoads' <=> LateLoads
  BY <1>1 DEF LateLoads
<1>7. InstInv'
  <2> SUFFICES ASSUME NEW y \in UopIds, uops'[y] # NoUop
               PROVE  /\ uops'[y].inst \in Micros
                      /\ uops'[y].inst.op = "store" => uops'[y].out = <<>>
                      /\ uops'[y].spec /\ uops'[y].inst.op = "load" => LateLoads
    BY <1>6 DEF InstInv
  <2>1. uops'[y] = uops[y] /\ uops[y] # NoUop
    BY <1>5
  <2> QED BY <2>1 DEF RegisterInv, InstInv
<1>8. \A y \in Range(Path') \cup Waiting : uops'[y] = uops[y] /\ y \in Range(Path) \cup Waiting
  <2> SUFFICES ASSUME NEW y \in Range(Path') \cup Waiting
               PROVE  uops'[y] = uops[y] /\ y \in Range(Path) \cup Waiting
    OBVIOUS
  <2>1. y \in Range(Path) \cup Waiting
    BY <1>2, <1>3, <1>4
  <2> QED BY <1>2, <1>4, <1>5, <2>1
<1>9. StageInv'
  <2>1. ASSUME NEW y \in Range(uopq') \cup Range(fetchq') \cup Waiting'
        PROVE  ~ uops'[y].completed
    <3>1. y \in Range(uopq) \cup Range(fetchq) \cup Waiting /\ uops'[y] = uops[y]
      BY <1>1, <1>4, <1>8
    <3> QED BY <3>1 DEF RegisterInv, StageInv
  <2>2. iq' \cap events' = {}
    BY <1>1 DEF RegisterInv, StageInv
  <2> QED BY <2>1, <2>2 DEF StageInv
<1>10. Exact(rf', uops', rob') /\ (LateLoads \/ PendingComplete(rf', uops', rob'))
  <2> DEFINE s == rf'
             p == rob'
             vs == uops'
  <2>1. uops[x].inst.out \in Seq(Logical) /\ (uops[x].inst.out = <<>> \/ uops[x].completed)
    <3>1. x \in UopIds /\ uops[x] # NoUop
      BY <1>2, <1>3
    <3>2. uops[x].inst \in Micros
      BY <3>1 DEF RegisterInv, InstInv
    <3> QED BY <1>1, <3>2 DEF Micros
  <2>2. Retires(rf, uops, rob, s, p)
    BY <1>1, <1>2, <1>3, <2>1 DEF Retires, RegisterInv
  <2>3. p \in Seq(UopIds) /\ IsInjective(p) /\ \A y \in Range(p) : vs[y] = uops[y]
    BY <1>3, <1>4, <1>8
  <2> HIDE DEF s, p, vs
  <2>4. /\ Exact(s, uops, p)
        /\ PendingComplete(rf, uops, rob) => PendingComplete(s, uops, p)
    BY ONLY <2>2, CommitExact
  <2>5. /\ Exact(s, vs, p)
        /\ PendingComplete(s, uops, p) => PendingComplete(s, vs, p)
    BY <2>3, <2>4, ExactSame
  <2> QED BY <2>4, <2>5 DEF RegisterInv, s, p, vs
<1>11. InRob => InRob'
  <2> SUFFICES ASSUME InRob, NEW y \in iq' \cup loadq' \cup memory' \cup events',
                      uops'[y].inst.op # "store"
               PROVE  y \in Range(rob')
    BY DEF InRob
  <2>1. y \in Waiting /\ y \in iq \cup loadq \cup memory \cup events
    BY <1>1 DEF Waiting
  <2>2. uops'[y] = uops[y]
    BY <1>8, <2>1
  <2>3. y \in Range(rob) /\ ~ uops[y].completed
    BY <2>1, <2>2 DEF InRob, RegisterInv, StageInv
  <2>4. y # x
    BY <1>1, <2>2, <2>3
  <2> QED BY <1>3, <2>3, <2>4
<1> QED BY <1>6, <1>7, <1>9, <1>10, <1>11 DEF RegisterInv
-----------------------------------------------------------------------------
(***************************************************************************)
(* The initial state: the owners of a kind share its last registers out.   *)
(***************************************************************************)
UpToOwner(S, x) == {o \in S : o <= x}

\* Members have different ranks, and every rank is that of a member.
LEMMA RankIs ==
    ASSUME NEW S \in SUBSET Nat, IsFiniteSet(S)
    PROVE  /\ Cardinality(S) \in Nat
           /\ \A x \in S : Cardinality(UpToOwner(S, x)) \in 1 .. Cardinality(S)
           /\ \A k \in 1 .. Cardinality(S) : \E x \in S : Cardinality(UpToOwner(S, x)) = k
<1> DEFINE n == Cardinality(S)
           f == [x \in S |-> Cardinality(UpToOwner(S, x))]
<1>1. n \in Nat
  BY FS_CardinalityType
<1>2. ASSUME NEW x \in S
      PROVE  /\ Cardinality(UpToOwner(S, x)) = Cardinality(Below(S, x)) + 1
             /\ Cardinality(Below(S, x)) \in 0 .. n - 1
  <2>1. IsFiniteSet(Below(S, x)) /\ Cardinality(Below(S, x)) \in 0 .. n - 1
    BY BelowSize
  <2>2. x \notin Below(S, x) /\ UpToOwner(S, x) = Below(S, x) \cup {x}
    <3>1. x \in Nat /\ \A o \in S : o \in Nat
      OBVIOUS
    <3>2. ~ (x < x) /\ x <= x /\ \A o \in S : o <= x <=> (o < x \/ o = x)
      BY <3>1
    <3> QED BY <3>2 DEF Below, UpToOwner
  <2>3. Cardinality(Below(S, x) \cup {x}) = Cardinality(Below(S, x)) + 1
    BY <2>1, <2>2, FS_AddElement
  <2> QED BY <2>1, <2>2, <2>3
<1> HIDE DEF n
<1>3. \A x \in S : Cardinality(UpToOwner(S, x)) \in 1 .. n
  <2> SUFFICES ASSUME NEW x \in S PROVE Cardinality(UpToOwner(S, x)) \in 1 .. n
    OBVIOUS
  <2> DEFINE b == Cardinality(Below(S, x))
  <2>1. Cardinality(UpToOwner(S, x)) = b + 1 /\ b \in 0 .. n - 1
    BY <1>2
  <2> HIDE DEF b
  <2>2. b + 1 \in 1 .. n
    BY <1>1, <2>1
  <2> QED BY <2>1, <2>2
<1>4. f \in [S -> 1 .. n] /\ \A x \in S : f[x] = Cardinality(UpToOwner(S, x))
  BY <1>3
<1> HIDE DEF f
<1>5. \A x, y \in S : f[x] = f[y] => x = y
  <2> SUFFICES ASSUME NEW x \in S, NEW y \in S, x # y PROVE f[x] # f[y]
    BY Zenon
  <2> DEFINE a == Cardinality(Below(S, x))
             b == Cardinality(Below(S, y))
  <2>1. f[x] = a + 1 /\ f[y] = b + 1 /\ a \in 0 .. n - 1 /\ b \in 0 .. n - 1
    BY <1>2, <1>4
  <2>2. x < y \/ y < x
    OBVIOUS
  <2>3. a < b \/ b < a
    BY <2>2, BelowOrder
  <2> HIDE DEF a, b
  <2> QED BY <1>1, <2>1, <2>3
<1>6. f \in Injection(S, 1 .. n)
  BY <1>4, <1>5, Fun_IsInj
<1>7. IsFiniteSet(1 .. n) /\ Cardinality(1 .. n) = n
  BY <1>1, FS_Interval
<1>8. f \in Surjection(S, 1 .. n)
  BY <1>6, <1>7, FS_Injection DEF n
<1>9. \A k \in 1 .. n : \E x \in S : f[x] = k
  BY <1>8, Fun_SurjectionProperties
<1>10. \A k \in 1 .. n : \E x \in S : Cardinality(UpToOwner(S, x)) = k
  BY <1>4, <1>9
<1> QED BY <1>1, <1>3, <1>10 DEF n

\* The registers that are mapped at first are the last ones of their kind.
LEMMA InitialRegisters ==
    ASSUME NEW k \in Kinds
    PROVE  /\ Cardinality(Owners(k)) \in 0 .. RegSize[k] /\ RegSize[k] \in Nat
           /\ \A l \in Logical : Kind(l) = k =>
                InitialRegister(l) \in RegSize[k] - Cardinality(Owners(k)) .. RegSize[k] - 1
           /\ \A r \in RegSize[k] - Cardinality(Owners(k)) .. RegSize[k] - 1 :
                \E l \in Logical : Kind(l) = k /\ InitialRegister(l) = r
<1> DEFINE S == Owners(k)
           n == Cardinality(S)
           c == RegSize[k]
<1>1. S \in SUBSET Nat /\ IsFiniteSet(S) /\ S \in SUBSET Logical
  <2>1. S \in SUBSET Logical
    BY DEF Owners
  <2> QED BY <2>1, FS_Subset, RegisterAssumption
<1>2. n \in Nat /\ c \in Nat /\ n <= c
  BY <1>1, FS_CardinalityType, RegisterAssumption
<1>3. \A l : Kind(l) = k => InitialRegister(l) = c - Cardinality(UpToOwner(S, l))
  BY DEF InitialRegister, UpToOwner
<1>4. /\ \A x \in S : Cardinality(UpToOwner(S, x)) \in 1 .. n
      /\ \A j \in 1 .. n : \E x \in S : Cardinality(UpToOwner(S, x)) = j
  BY <1>1, RankIs
<1>5. ASSUME NEW l \in Logical, Kind(l) = k
      PROVE  Cardinality(UpToOwner(S, l)) \in 1 .. n
  <2>1. CASE l \in S
    BY <1>4, <2>1
  <2>2. CASE l \notin S
    <3>1. l \in FlagRegs
      BY <1>5, <2>2 DEF Owners, IsFlag
    <3>2. PICK o \in IntRegs : o < l
      BY <3>1, RegisterAssumption
    <3>3. /\ l \notin FpRegs /\ l \notin XmmRegs /\ o \notin FpRegs /\ o \notin XmmRegs
          /\ o \notin FlagRegs /\ o \in Logical
      BY <3>1, <3>2, RegisterAssumption DEF Logical
    <3>4. Kind(l) = "int" /\ Kind(o) = "int" /\ ~ IsFlag(o) /\ k = "int"
      BY <1>5, <3>3 DEF Kind, IsFlag
    <3>5. o \in UpToOwner(S, l) /\ o \in Nat
      <4>1. o \in Nat /\ l \in Nat
        BY <3>3, RegisterAssumption
      <4>2. o <= l
        BY <3>2, <4>1
      <4>3. o \in S
        BY <3>3, <3>4 DEF Owners
      <4> QED BY <4>1, <4>2, <4>3 DEF UpToOwner
    <3>6. UpToOwner(S, l) \in SUBSET S
      BY DEF UpToOwner
    <3> DEFINE T == UpToOwner(S, l)
    <3> HIDE DEF T, S, n
    <3>7. IsFiniteSet(T) /\ Cardinality(T) <= Cardinality(S) /\ T # {}
      BY <1>1, <3>5, <3>6, FS_Subset DEF T
    <3>8. Cardinality(T) \in Nat /\ Cardinality(T) # 0
      BY <3>7, FS_EmptySet, FS_CardinalityType
    <3> QED BY <1>2, <3>7, <3>8 DEF T, n
  <2> QED BY <2>1, <2>2
<1> HIDE DEF S, n, c
<1>6. ASSUME NEW l \in Logical, Kind(l) = k
      PROVE  InitialRegister(l) \in c - n .. c - 1
  <2> DEFINE j == Cardinality(UpToOwner(S, l))
  <2>1. j \in 1 .. n /\ InitialRegister(l) = c - j
    BY <1>3, <1>5, <1>6
  <2> HIDE DEF j
  <2>2. c - j \in c - n .. c - 1
    BY <1>2, <2>1
  <2> QED BY <2>1, <2>2
<1>7. ASSUME NEW r \in c - n .. c - 1
      PROVE  \E l \in Logical : Kind(l) = k /\ InitialRegister(l) = r
  <2>1. c - r \in 1 .. n /\ c - (c - r) = r
    BY <1>2
  <2>2. PICK x \in S : Cardinality(UpToOwner(S, x)) = c - r
    BY <1>4, <2>1
  <2>3. x \in Logical /\ Kind(x) = k
    BY DEF S, Owners
  <2>4. InitialRegister(x) = r
    <3>1. InitialRegister(x) = c - Cardinality(UpToOwner(S, x))
      BY <1>3, <2>3
    <3>2. InitialRegister(x) = c - (c - r)
      BY <2>2, <3>1
    <3> QED BY <2>1, <3>2
  <2> QED BY <2>3, <2>4
<1> QED BY <1>2, <1>6, <1>7 DEF S, n, c

LEMMA InitialBooks ==
    ASSUME NEW us, NEW place
    PROVE  Books(InitialFile, us, {}, place, {})
<1> DEFINE f == InitialFile
<1>1. /\ DOMAIN f = {"rat", "busy", "pending", "free", "top", "ok"}
      /\ f.rat = [l \in Logical |-> InitialRegister(l)]
      /\ f.busy = [k \in Kinds |-> [r \in Physical(k) |->
                    Cardinality({l \in Logical : Kind(l) = k /\ InitialRegister(l) = r})]]
      /\ f.pending = [k \in Kinds |-> [r \in Physical(k) |-> FALSE]]
      /\ f.free = [k \in Kinds |-> [i \in 1 .. RegSize[k] - Cardinality(Owners(k)) |-> i - 1]]
      /\ f.top = 0 /\ f.ok = TRUE
  BY DEF InitialFile
<1> HIDE DEF f
<1>2. ASSUME NEW k \in Kinds
      PROVE  /\ \A r \in Physical(k) : f.busy[k][r] = Cardinality(Mapped(f.rat, k, r))
             /\ f.busy[k] \in [Physical(k) -> Nat]
             /\ f.free[k] \in Seq(Physical(k)) /\ IsInjective(f.free[k])
             /\ Range(f.free[k]) = {r \in Physical(k) : f.busy[k][r] = 0}
  <2> DEFINE n == Cardinality(Owners(k))
             c == RegSize[k]
  <2>1. /\ n \in 0 .. c /\ c \in Nat
        /\ \A l \in Logical : Kind(l) = k => f.rat[l] \in c - n .. c - 1
        /\ \A r \in c - n .. c - 1 : \E l \in Logical : Kind(l) = k /\ f.rat[l] = r
    BY <1>1, InitialRegisters
  <2>2. f.free[k] = [i \in 1 .. c - n |-> i - 1]
    BY <1>1
  <2>3. \A r \in Physical(k) : f.busy[k][r] = Cardinality(Mapped(f.rat, k, r))
    <3> SUFFICES ASSUME NEW r \in Physical(k)
                 PROVE  f.busy[k][r] = Cardinality(Mapped(f.rat, k, r))
      OBVIOUS
    <3>1. f.busy[k][r]
            = Cardinality({l \in Logical : Kind(l) = k /\ InitialRegister(l) = r})
      BY <1>1
    <3>2. {l \in Logical : Kind(l) = k /\ InitialRegister(l) = r} = Mapped(f.rat, k, r)
      BY <1>1 DEF Mapped
    <3> QED BY <3>1, <3>2
  <2>4. \A r : IsFiniteSet(Mapped(f.rat, k, r)) /\ Cardinality(Mapped(f.rat, k, r)) \in Nat
    BY MappedFinite
  <2>5. f.busy[k] \in [Physical(k) -> Nat]
    <3>1. f.busy[k] = [r \in Physical(k) |-> f.busy[k][r]]
      BY <1>1
    <3> QED BY <2>3, <2>4, <3>1
  <2>6. Physical(k) = 0 .. c - 1
    BY DEF Physical
  <2>7. \A r \in Physical(k) : f.busy[k][r] = 0 <=> r < c - n
    <3> SUFFICES ASSUME NEW r \in Physical(k) PROVE f.busy[k][r] = 0 <=> r < c - n
      OBVIOUS
    <3>1. f.busy[k][r] = 0 <=> Mapped(f.rat, k, r) = {}
      BY <2>3, <2>4, FS_EmptySet
    <3> HIDE DEF n, c
    <3>2. r < c - n => Mapped(f.rat, k, r) = {}
      <4> SUFFICES ASSUME r < c - n, NEW l \in Mapped(f.rat, k, r) PROVE FALSE
        OBVIOUS
      <4>1. r \in c - n .. c - 1
        BY <2>1 DEF Mapped
      <4> QED BY <2>1, <2>6, <4>1
    <3>3. ~ (r < c - n) => Mapped(f.rat, k, r) # {}
      <4> SUFFICES ASSUME ~ (r < c - n) PROVE Mapped(f.rat, k, r) # {}
        OBVIOUS
      <4>1. r \in c - n .. c - 1
        BY <2>1, <2>6
      <4>2. PICK l \in Logical : Kind(l) = k /\ f.rat[l] = r
        BY <2>1, <4>1
      <4> QED BY <4>2 DEF Mapped
    <3> QED BY <3>1, <3>2, <3>3
  <2> DEFINE q == f.free[k]
             m == c - n
  <2>8. m \in Nat /\ m <= c /\ c \in Nat
    BY <2>1
  <2>9. q = [i \in 1 .. m |-> i - 1] /\ Physical(k) = 0 .. c - 1
    BY <2>2, <2>6
  <2> HIDE DEF q, m, n, c
  <2>10. DOMAIN q = 1 .. m /\ \A i \in 1 .. m : q[i] = i - 1 /\ i - 1 \in Physical(k)
    BY <2>8, <2>9
  <2>11. q \in Seq(Physical(k))
    BY <2>8, <2>9, <2>10
  <2>12. IsInjective(q)
    BY <2>8, <2>10 DEF IsInjective
  <2>13. \A r \in Physical(k) : r \in Range(q) <=> r < m
    <3> SUFFICES ASSUME NEW r \in Physical(k) PROVE r \in Range(q) <=> r < m
      OBVIOUS
    <3>1. r < m => r + 1 \in 1 .. m /\ (r + 1) - 1 = r
      BY <2>8, <2>9
    <3>2. r < m => r \in Range(q)
      BY <2>10, <3>1 DEF Range
    <3>3. ASSUME r \in Range(q)
          PROVE  r < m
      <4>1. PICK i \in 1 .. m : r = i - 1
        BY <2>10, <3>3 DEF Range
      <4> QED BY <2>8, <4>1
    <3> QED BY <3>2, <3>3
  <2>14. Range(q) = {r \in Physical(k) : f.busy[k][r] = 0}
    <3>1. Range(q) \in SUBSET Physical(k)
      BY <2>10 DEF Range
    <3>2. \A r \in Physical(k) : f.busy[k][r] = 0 <=> r < m
      BY <2>7 DEF m
    <3> QED BY <2>13, <3>1, <3>2
  <2> QED BY <2>3, <2>5, <2>11, <2>12, <2>14 DEF q
<1>3. FileTypes(f)
  <2>1. ASSUME NEW l \in Logical
        PROVE  f.rat[l] \in Physical(Kind(l))
    <3> DEFINE k == Kind(l)
               n == Cardinality(Owners(k))
               c == RegSize[k]
    <3>1. k \in Kinds
      BY KindType
    <3>2. n \in 0 .. c /\ c \in Nat /\ f.rat[l] \in c - n .. c - 1
      BY <1>1, <3>1, InitialRegisters
    <3>3. Physical(k) = 0 .. c - 1
      BY DEF Physical
    <3> HIDE DEF k, n, c
    <3>4. f.rat[l] \in Physical(k)
      BY <3>2, <3>3
    <3> QED BY <3>4 DEF k
  <2>2. f.top \in 0 .. StackSize - 1
    BY <1>1, RegisterAssumption
  <2>3. DOMAIN f.rat = Logical /\ DOMAIN f.busy = Kinds /\ DOMAIN f.pending = Kinds
        /\ DOMAIN f.free = Kinds
    BY <1>1
  <2>4. \A k \in Kinds : f.pending[k] \in [Physical(k) -> BOOLEAN]
    BY <1>1
  <2> QED BY <1>1, <1>2, <2>1, <2>2, <2>3, <2>4 DEF FileTypes
<1>4. EntryTypes(us, {}, place)
  BY FS_EmptySet DEF EntryTypes
<1>5. Counts(f, us, {}, {})
  <2>1. \A k \in Kinds : \A r \in Physical(k) :
            Remembered(us, {}, k, r) = {} /\ Cardinality(Mapped(f.rat, k, r)) \in Nat
    BY MappedFinite DEF Remembered
  <2>2. \A k \in Kinds : \A r \in Physical(k) :
            f.busy[k][r] = Cardinality(Mapped(f.rat, k, r))
                                + Cardinality(Remembered(us, {}, k, r))
    <3> SUFFICES ASSUME NEW k \in Kinds, NEW r \in Physical(k)
                 PROVE  f.busy[k][r] = Cardinality(Mapped(f.rat, k, r))
                                        + Cardinality(Remembered(us, {}, k, r))
      OBVIOUS
    <3> DEFINE a == Cardinality(Mapped(f.rat, k, r))
    <3>1. f.busy[k][r] = a /\ a \in Nat
      BY <1>2, <2>1
    <3>2. Cardinality(Remembered(us, {}, k, r)) = 0
      BY <2>1, FS_EmptySet
    <3> HIDE DEF a
    <3>3. f.busy[k][r] = a + 0
      BY <3>1
    <3> QED BY <3>2, <3>3 DEF a
  <2> QED BY <1>2, <2>2 DEF Counts
<1>6. Chain(f, us, {}, place) /\ Owned(us, {})
  BY DEF Chain, Owned
<1>7. PendingSound(f, us, {})
  BY <1>1 DEF PendingSound
<1> QED BY <1>3, <1>4, <1>5, <1>6, <1>7 DEF Books, f

LEMMA InitRegisters == Init => RegisterInv
<1> SUFFICES ASSUME Init PROVE RegisterInv
  OBVIOUS
<1>1. /\ uops = [x \in UopIds |-> NoUop] /\ fetchq = <<>> /\ uopq = <<>> /\ rob = <<>>
      /\ storeq = <<>> /\ iq = {} /\ loadq = {} /\ memory = {} /\ events = {}
      /\ rf = InitialFile
  BY DEF Init
<1>2. Range(rob) = {} /\ Range(uopq) = {} /\ Range(fetchq) = {} /\ Waiting = {}
  <2>1. Range(<<>>) = {}
    BY DEF Range
  <2> QED BY <1>1, <2>1 DEF Waiting
<1>3. RenamedOf(rob, uops) = {}
  BY <1>2 DEF RenamedOf
<1>4. InstInv /\ StageInv /\ InRob /\ PendingComplete(rf, uops, rob)
  BY <1>1, <1>2, <1>3 DEF InstInv, StageInv, InRob, PendingComplete
<1>5. Books(rf, uops, RenamedOf(rob, uops), PlaceIn(rob), {})
  BY <1>1, <1>3, InitialBooks
<1>6. Turns(rob, uops, rf.top)
  <2> DEFINE t == [i \in 0 .. 0 |-> rf.top]
  <2>1. rf.top \in 0 .. StackSize - 1
    BY <1>5 DEF Books, FileTypes
  <2>2. Len(rob) = 0
    BY <1>1
  <2>3. t \in [0 .. Len(rob) -> 0 .. StackSize - 1] /\ t[Len(rob)] = rf.top
    BY <2>1, <2>2
  <2>4. TurnsBy(rob, uops, t)
    BY <2>2, <2>3 DEF TurnsBy
  <2> QED BY <2>3, <2>4 DEF Turns
<1> QED BY <1>4, <1>5, <1>6 DEF RegisterInv, Exact
-----------------------------------------------------------------------------
(***************************************************************************)
(* The invariant, and what it says of the registers.                       *)
(***************************************************************************)
LEMMA RegisterStep == ThreadInv /\ RegisterInv /\ [Next]_vars => RegisterInv'
<1> SUFFICES ASSUME ThreadInv, RegisterInv, [Next]_vars PROVE RegisterInv'
  OBVIOUS
<1>1. CASE SignalledSchedule
  BY <1>1, ScheduleRegisters DEF SignalledSchedule
<1>2. CASE ExpiredSchedule
  BY <1>2, ScheduleRegisters DEF ExpiredSchedule
<1>3. CASE FetchRight
  BY <1>3, FetchRightRegisters
<1>4. CASE FetchWrong
  BY <1>4, FetchWrongRegisters
<1>5. CASE Decode
  BY <1>5, DecodeInv, DecodeRegisters
<1>6. CASE Dispatch
  BY <1>6, DispatchRegisters
<1>7. CASE IssueStore
  BY <1>7, IssueStoreRegisters
<1>8. CASE CommitRecover
  BY <1>8, CommitRecoverRegisters
<1>9. CASE Commit
  BY <1>9, CommitRegisters
<1>10. ASSUME NEW x \in UopIds,
              IssueLoad(x) \/ IssueInstruction(x) \/ MemoryAccessEnd(x) \/ Writeback(x)
       PROVE  RegisterInv'
  BY <1>10, IssueRegisters, WritebackAllRegisters
<1>11. CASE UNCHANGED vars
  <2>1. UNCHANGED <<cf, rf, rob, uops, uopq, fetchq, iq, loadq, storeq, memory, events>>
    BY <1>11 DEF vars
  <2>2. Waiting' = Waiting
    BY <2>1 DEF Waiting
  <2>3. iq' \cap events' = {}
    BY <2>1 DEF RegisterInv, StageInv
  <2> QED BY <2>1, <2>2, <2>3, QuietRegisters
<1> QED BY <1>1, <1>2, <1>3, <1>4, <1>5, <1>6, <1>7, <1>8, <1>9, <1>10, <1>11
        DEF Next, Stages

LEMMA RegisterInvariance == Spec => [](ThreadInv /\ RegisterInv)
<1>1. Init => ThreadInv /\ RegisterInv
  BY InitInv, InitRegisters
<1>2. ThreadInv /\ RegisterInv /\ [Next]_vars => (ThreadInv /\ RegisterInv)'
  BY StepInv, RegisterStep
<1> QED BY <1>1, <1>2, PTL DEF Spec

\* The books say what the properties do.
LEMMA RenamedIs ==
    /\ Renamed = RenamedOf(rob, uops)
    /\ \A o : KindOf(o) = KindIn(uops, o)
  BY DEF Renamed, RenamedOf, KindOf, KindIn, Dst

LEMMA CountsAre ==
    ASSUME Counts(rf, uops, Renamed, {}) PROVE CountsExact
<1> SUFFICES ASSUME NEW k \in Kinds
             PROVE  /\ \A r \in Physical(k) :
                        rf.busy[k][r] =
                            Cardinality({l \in Logical : Kind(l) = k /\ rf.rat[l] = r})
                            + Cardinality({o \in Renamed : KindOf(o) = k
                                                           /\ uops[o[1]].old[o[2]] = r})
                    /\ Range(rf.free[k]) = {r \in Physical(k) : rf.busy[k][r] = 0}
                    /\ IsInjective(rf.free[k])
  BY DEF CountsExact
<1>1. /\ \A r \in Physical(k) :
            rf.busy[k][r] = Cardinality(Mapped(rf.rat, k, r))
                                + Cardinality(Remembered(uops, Renamed, k, r))
      /\ Range(rf.free[k]) = {r \in Physical(k) : rf.busy[k][r] = 0 /\ <<k, r>> \notin {}}
      /\ IsInjective(rf.free[k])
  BY DEF Counts
<1>2. \A r : /\ Mapped(rf.rat, k, r) = {l \in Logical : Kind(l) = k /\ rf.rat[l] = r}
             /\ Remembered(uops, Renamed, k, r)
                    = {o \in Renamed : KindOf(o) = k /\ uops[o[1]].old[o[2]] = r}
  BY RenamedIs DEF Mapped, Remembered, Old
<1>3. Range(rf.free[k]) = {r \in Physical(k) : rf.busy[k][r] = 0}
  BY <1>1
<1> QED BY <1>1, <1>2, <1>3

LEMMA PendingIs ==
    ASSUME Books(rf, uops, Renamed, PlaceIn(rob), {}), PendingComplete(rf, uops, rob)
    PROVE  PendingExact
<1> SUFFICES ASSUME NEW k \in Kinds, NEW r \in Physical(k)
             PROVE  rf.pending[k][r] <=>
                        \E o \in Renamed : /\ KindOf(o) = k
                                           /\ uops[o[1]].out[o[2]] = r
                                           /\ ~ uops[o[1]].completed
  BY DEF PendingExact
<1>1. rf.pending[k][r] =>
        \E o \in Renamed : KindIn(uops, o) = k /\ New(uops, o) = r /\ ~ IsDone(uops, o)
  BY DEF Books, PendingSound
<1>2. \A o \in Renamed : ~ IsDone(uops, o) => rf.pending[KindIn(uops, o)][New(uops, o)]
  BY RenamedIs DEF PendingComplete
<1> QED BY <1>1, <1>2, RenamedIs DEF New, IsDone

\* The order of two outputs is that of the books.
LEMMA OlderIs ==
    ASSUME rob \in Seq(UopIds), IsInjective(rob), NEW o \in Renamed, NEW q \in Renamed
    PROVE  Older(o, q) <=> Earlier(PlaceIn(rob), o, q)
<1> DEFINE place == PlaceIn(rob)
<1>1. o[1] \in Range(rob) /\ q[1] \in Range(rob)
  BY RenamedIs, EntryIn
<1>2. /\ place[o[1]] = CHOOSE i \in DOMAIN rob : rob[i] = o[1]
      /\ place[q[1]] = CHOOSE i \in DOMAIN rob : rob[i] = q[1]
  BY <1>1 DEF PlaceIn
<1>3. place[o[1]] = place[q[1]] <=> o[1] = q[1]
  <2>1. rob[place[o[1]]] = o[1] /\ rob[place[q[1]]] = q[1]
    BY <1>1, PlaceIs
  <2> QED BY <2>1
<1>4. Older(o, q) <=> place[o[1]] < place[q[1]] \/ (o[1] = q[1] /\ o[2] < q[2])
  BY <1>2 DEF Older
<1> QED BY <1>3, <1>4 DEF Earlier

Younger(o) ==
    {q \in Renamed : uops[q[1]].dst[q[2]] = uops[o[1]].dst[o[2]] /\ Older(o, q)}
NextWriter(o) == CHOOSE q \in Younger(o) : \A z \in Younger(o) \ {q} : Older(q, z)

LEMMA MappingsAre ==
    ASSUME rob \in Seq(UopIds), IsInjective(rob), Books(rf, uops, Renamed, PlaceIn(rob), {})
    PROVE  MappingsChained
<1> DEFINE place == PlaceIn(rob)
<1>1. EntryTypes(uops, Renamed, place) /\ Chain(rf, uops, Renamed, place)
  BY DEF Books
<1>2. \A o, q \in Renamed : Older(o, q) <=> Earlier(place, o, q)
  BY OlderIs
<1> HIDE DEF place
<1> SUFFICES ASSUME NEW o \in Renamed
             PROVE  uops[o[1]].out[o[2]] =
                        IF Younger(o) = {} THEN rf.rat[uops[o[1]].dst[o[2]]]
                        ELSE uops[NextWriter(o)[1]].old[NextWriter(o)[2]]
  BY Zenon DEF MappingsChained, Younger, NextWriter
<1> DEFINE younger == Younger(o)
           next == NextWriter(o)
<1>3. \A q : q \in younger <=> q \in Renamed /\ Dst(uops, q) = Dst(uops, o) /\ Earlier(place, o, q)
  BY <1>2 DEF Dst, Younger
<1>4. CASE younger = {}
  <2>1. IsLast(uops, Renamed, place, o)
    BY <1>3, <1>4 DEF IsLast
  <2>2. rf.rat[Dst(uops, o)] = New(uops, o)
    BY <1>1, <2>1 DEF Chain
  <2>3. uops[o[1]].out[o[2]] = rf.rat[uops[o[1]].dst[o[2]]]
    BY <2>2 DEF Dst, New
  <2> QED BY <1>4, <2>3
<1>5. CASE younger # {}
  <2>1. ~ IsLast(uops, Renamed, place, o)
    BY <1>3, <1>5 DEF IsLast
  <2>2. PICK f \in Renamed :
            /\ Follows(uops, Renamed, place, o, f)
            /\ \A z \in Renamed : Dst(uops, z) = Dst(uops, o) /\ Earlier(place, o, z) /\ z # f
                                    => Earlier(place, f, z)
    BY <1>1, <2>1, NextExists
  <2>3. f \in younger
    BY <1>3, <2>2 DEF Follows
  <2>4. \A z \in younger \ {f} : Older(f, z)
    BY <1>2, <1>3, <2>2
  <2> HIDE DEF younger
  <2>5. next \in younger /\ \A z \in younger \ {next} : Older(next, z)
    BY <2>3, <2>4, Zenon DEF NextWriter, younger
  <2> HIDE DEF next
  <2>6. next = f
    <3> SUFFICES ASSUME next # f PROVE FALSE
      OBVIOUS
    <3>1. next \in Renamed /\ Older(f, next) /\ Older(next, f)
      BY <1>3, <2>3, <2>4, <2>5
    <3>2. Earlier(place, f, next) /\ Earlier(place, next, f)
      BY <1>2, <3>1
    <3>3. /\ place[f[1]] \in Nat /\ place[next[1]] \in Nat /\ f[2] \in Nat /\ next[2] \in Nat
      BY <1>1, <3>1 DEF EntryTypes
    <3> QED BY <3>2, <3>3, EarlierOrder
  <2>7. New(uops, o) = Old(uops, f)
    BY <1>1, <2>2 DEF Chain
  <2>8. uops[o[1]].out[o[2]] = uops[next[1]].old[next[2]]
    BY <2>6, <2>7 DEF New, Old
  <2> QED BY <1>5, <2>8 DEF younger, next
<1> QED BY <1>4, <1>5

\* Renaming, squashing, writing back and committing uops in any order keep the books of
\* the register file: every physical register has the references that are held to it, a
\* logical register is mapped to what its youngest writer has been given, and, unless a
\* load of a wrong path may return late, a register is pending exactly while the uop that
\* writes it has not completed.
THEOREM RegistersHold == Spec => []RegistersExact
<1>1. ThreadInv /\ RegisterInv => RegistersExact
  <2> SUFFICES ASSUME ThreadInv, RegisterInv PROVE RegistersExact
    OBVIOUS
  <2>1. rob \in Seq(UopIds) /\ IsInjective(rob)
    BY QueuesAre
  <2>2. /\ Books(rf, uops, Renamed, PlaceIn(rob), {})
        /\ LateLoads \/ PendingComplete(rf, uops, rob)
    BY RenamedIs DEF RegisterInv, Exact
  <2>3. CountsExact
    BY <2>2, CountsAre DEF Books
  <2>4. MappingsChained
    BY <2>1, <2>2, MappingsAre
  <2>5. LateLoads \/ PendingExact
    BY <2>2, PendingIs
  <2> QED BY <2>3, <2>4, <2>5 DEF RegistersExact
<1> QED BY <1>1, RegisterInvariance, PTL
-----------------------------------------------------------------------------
(***************************************************************************)
(* Panics.  InsertInLoadStoreQueue does not know prefetches, so nothing of *)
(* the sort can be claimed of programs that have one.                      *)
(***************************************************************************)
NoPrefetch(mop) == \A i \in DOMAIN mop : mop[i].op # "prefetch"
NoPrefetches ==
    \A c \in Configs :
        /\ \A i \in DOMAIN c.programs :
                \A j \in DOMAIN c.programs[i] : NoPrefetch(c.programs[i][j])
        /\ \A mop \in c.wrong : NoPrefetch(mop)

PrefetchInv ==
    /\ \A x \in UopIds : uops[x] # NoUop => uops[x].inst.op # "prefetch"
    /\ "invalid_opcode" \notin failed

\* Uops us carry the instructions that the existing ones do.
Carries(us) == \A x \in UopIds : us[x] # NoUop => uops[x] # NoUop /\ us[x].inst = uops[x].inst

LEMMA CarryStep ==
    ASSUME PrefetchInv, "invalid_opcode" \notin failed', NEW us, Carries(us),
           uops' = us \/ uops' = Kept(us)
    PROVE  PrefetchInv'
<1>1. ASSUME NEW x \in UopIds, uops'[x] # NoUop
      PROVE  uops'[x] = us[x]
  BY <1>1 DEF Kept
<1> QED BY <1>1 DEF PrefetchInv, Carries

LEMMA PrefetchStep ==
    ASSUME NoPrefetches, ThreadInv, PrefetchInv, [Next]_vars PROVE PrefetchInv'
<1>1. /\ DOMAIN uops = UopIds /\ \A x \in UopIds : uops[x] = NoUop \/ IsUop(uops[x])
      /\ cf \in Configs
  BY DEF ThreadInv, ThreadTypes
<1>2. Carries(uops)
  BY DEF Carries
<1>3. ASSUME UNCHANGED <<uops, failed>>
      PROVE  PrefetchInv'
  BY <1>3 DEF PrefetchInv
<1>4. ASSUME NEW mop \in Macros, NoPrefetch(mop), NEW sp, NEW pos, Fetched(mop, sp, pos),
             failed' = failed
      PROVE  PrefetchInv'
  <2>1. ASSUME NEW x \in UopIds, uops'[x] # NoUop
        PROVE  uops'[x].inst.op # "prefetch"
    <3>1. uops'[x] = uops[x] \/ \E i \in DOMAIN mop : uops'[x].inst = mop[i]
      BY <1>4, FetchedInst
    <3> QED BY <1>4, <2>1, <3>1 DEF PrefetchInv, NoPrefetch
  <2> QED BY <1>4, <2>1 DEF PrefetchInv
<1>5. ASSUME NEW file, NEW us, NEW es, Carries(us), Recover(file, us, es)
      PROVE  PrefetchInv'
  <2>1. uops' = Kept(us) /\ "invalid_opcode" \notin failed'
    BY <1>5 DEF Recover, PrefetchInv
  <2> QED BY <1>5, <2>1, CarryStep
<1>6. CASE SignalledSchedule
  <2>1. uops' = uops /\ "invalid_opcode" \notin failed'
    BY <1>6 DEF SignalledSchedule, Schedule, PrefetchInv
  <2> QED BY <1>2, <2>1, CarryStep
<1>7. CASE ExpiredSchedule
  <2>1. uops' = uops /\ "invalid_opcode" \notin failed'
    BY <1>7 DEF ExpiredSchedule, Schedule, PrefetchInv
  <2> QED BY <1>2, <2>1, CarryStep
<1>8. CASE FetchRight
  <2> DEFINE p == cf.programs[context]
             j == pc[context] + 1
             mop == p[j]
  <2>1. Fetched(mop, FALSE, j) /\ failed' = failed /\ context # None /\ Running(context)
    BY <1>8 DEF FetchRight, canFetch
  <2>2. mop \in Macros /\ context \in DOMAIN cf.programs /\ j \in DOMAIN p
    <3>1. /\ context \in Contexts /\ Len(p) \in Nat /\ j \in 1 .. Len(p) /\ mop \in Macros
      BY <2>1, NextInstruction
    <3>2. p \in Seq(Macros)
      BY <1>1, <3>1, ConfigAssumption DEF Contexts
    <3> QED BY <3>1, <3>2 DEF Contexts
  <2>3. NoPrefetch(mop)
    BY <1>1, <2>2 DEF NoPrefetches
  <2> HIDE DEF mop, j
  <2> QED BY <1>4, <2>1, <2>2, <2>3
<1>9. CASE FetchWrong
  <2>1. PICK mop \in cf.wrong : Fetched(mop, TRUE, 0)
    BY <1>9 DEF FetchWrong
  <2>2. mop \in Macros /\ NoPrefetch(mop)
    BY <1>1, ConfigAssumption DEF NoPrefetches
  <2>3. failed' = failed
    BY <1>9 DEF FetchWrong
  <2> QED BY <1>4, <2>1, <2>2, <2>3
<1>10. CASE Decode
  <2>1. uops' = uops /\ "invalid_opcode" \notin failed'
    BY <1>10 DEF Decode, PrefetchInv
  <2> QED BY <1>2, <2>1, CarryStep
<1>11. CASE Dispatch
  <2> DEFINE x == Head(uopq)
             u == uops[x]
             R == Rename(rf, u.inst)
             v == [u EXCEPT !.in = R.in, !.out = R.out, !.old = R.old, !.dst = R.dst]
  <2> HIDE DEF R
  <2>1. /\ uopq # <<>> /\ uops' = [uops EXCEPT ![x] = v]
        /\ failed' = IF u.inst.op = "prefetch" THEN failed \cup {"invalid_opcode"} ELSE failed
    BY <1>11 DEF Dispatch, canDispatch, R
  <2>2. x \in UopIds /\ u # NoUop
    BY <2>1, QueuesAre, TailRange
  <2>3. DOMAIN u = Fields
    BY <1>1, <2>2 DEF IsUop
  <2> HIDE DEF x
  <2>4. v.inst = u.inst
    <3> HIDE DEF u
    <3> QED BY <2>3 DEF Fields
  <2> HIDE DEF v
  <2>5. Carries(uops')
    <3>1. uops'[x] = v /\ \A y \in UopIds \ {x} : uops'[y] = uops[y]
      BY <1>1, <2>1, <2>2
    <3> QED BY <2>2, <2>4, <3>1 DEF Carries
  <2>6. "invalid_opcode" \notin failed'
    BY <2>1, <2>2 DEF PrefetchInv
  <2> QED BY <2>5, <2>6, CarryStep
<1>12. CASE IssueStore
  BY <1>3, <1>12 DEF IssueStore
<1>13. CASE CommitRecover
  BY <1>2, <1>5, <1>13 DEF CommitRecover
<1>14. CASE Commit
  <2>1. uops' = Kept(uops) /\ "invalid_opcode" \notin failed'
    BY <1>14 DEF Commit, PrefetchInv
  <2> QED BY <1>2, <2>1, CarryStep
<1>15. ASSUME NEW x \in UopIds, IssueLoad(x) \/ IssueInstruction(x) \/ MemoryAccessEnd(x)
       PROVE  PrefetchInv'
  BY <1>3, <1>15 DEF IssueLoad, IssueInstruction, MemoryAccessEnd
<1>16. ASSUME NEW x \in UopIds, Writeback(x)
       PROVE  PrefetchInv'
  <2> DEFINE us == [uops EXCEPT ![x].completed = TRUE]
  <2>1. x \in events
    BY <1>16 DEF Writeback, canWrite
  <2>2. Completed(us, x)
    BY <2>1, CompletedIs
  <2>3. uops[x] # NoUop
    BY <2>1, QueuesAre DEF Waiting
  <2>4. \/ Recover(WriteUop(rf, uops[x]), us, events \ {x})
        \/ uops' = Kept(us) /\ failed' = failed
    BY <1>16 DEF Writeback
  <2> HIDE DEF us
  <2>5. Carries(us)
    BY <2>2, <2>3 DEF Completed, Carries
  <2>6. CASE uops' = Kept(us) /\ failed' = failed
    BY <2>5, <2>6, CarryStep DEF PrefetchInv
  <2> QED BY <1>5, <2>4, <2>5, <2>6
<1>17. CASE UNCHANGED vars
  BY <1>3, <1>17 DEF vars
<1> QED BY <1>6, <1>7, <1>8, <1>9, <1>10, <1>11, <1>12, <1>13, <1>14, <1>15, <1>16, <1>17
        DEF Next, Stages

\* Programs without prefetches never panic: no stage meets what it does not expect, no
\* null context is used, and no assertion of the register file fails, whichever uops are
\* squashed, written back late or committed.
THEOREM NeverPanics ==
    ASSUME NoPrefetches
    PROVE  Spec => []NoPanic
<1>1. Init => PrefetchInv
  BY DEF Init, PrefetchInv
<1>2. ThreadInv /\ PrefetchInv /\ [Next]_vars => PrefetchInv'
  BY PrefetchStep
<1>3. ThreadInv /\ RegisterInv /\ PrefetchInv => NoPanic
  BY DEF ThreadInv, StagesAgree, RegisterInv, Exact, Books, FileTypes, PrefetchInv, NoPanic
<1> QED BY <1>1, <1>2, <1>3, RegisterInvariance, PTL DEF Spec
=============================================================================
