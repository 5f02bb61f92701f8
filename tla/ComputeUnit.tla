---------------------------- MODULE ComputeUnit ----------------------------
(***************************************************************************)
(* A Southern Islands compute unit with speculative pre-execution: the     *)
(* front end (ComputeUnit::Fetch and Issue, with the fetch, speculation    *)
(* and pre-execution buffers) of one wavefront pool, the five execution    *)
(* units as far as their order of completion, the memory counters, the     *)
(* barrier, and the end of a work group (ScalarUnit::Complete).            *)
(*                                                                         *)
(* A wavefront is emulated when it is fetched, so the emulator runs ahead  *)
(* of the timing model.  When an s_waitcnt is issued, the wavefront enters *)
(* pre-execution mode: the uops in its fetch buffer go to the              *)
(* pre-execution buffer, and the compiler's hints choose, one at a time,   *)
(* the later instructions that may go ahead (speculation buffer).  When    *)
(* the memory counters are zero, the wavefront returns to normal mode and  *)
(* takes back what it had put aside.                                       *)
(*                                                                         *)
(* The kernel is straight-line code: the program counter is the index of   *)
(* an instruction, and a branch is not taken.  A uop is named by its       *)
(* wavefront and its program counter.  Which wavefronts a cycle serves is  *)
(* left open: Fetch and Issue visit any wavefront in any order, and a      *)
(* visit may find the units busy or a register reserved.                   *)
(***************************************************************************)
EXTENDS Integers, Sequences, FiniteSets, Functions

CONSTANTS
    Wavefronts,         \* the wavefronts of a work group, in one wavefront pool
    Program,            \* the kernel: a sequence of kinds of instructions
    HintFile,           \* option --si-hint is given
    Hints,              \* the hint file: [pc -> [mode, offset1, offset2]]
    NumSlots            \* FetchBuffer::num_slots_per_entry

Last == Len(Program)
PCs == 1 .. Last
Units == {"branch", "scalar", "simd", "vector_memory", "lds"}
Kinds == {"branch", "salu", "wait", "barrier", "end", "smrd", "valu", "vmem", "lds"}

(***************************************************************************)
(* The kernel ends with its only s_endpgm.  The hint file is made by the   *)
(* compiler: a hint leads from an instruction to one in the kernel, before *)
(* the last one.                                                           *)
(***************************************************************************)
ASSUME KernelAssumption ==
    /\ Program \in Seq(Kinds) /\ Last \in Nat \ {0}
    /\ \A p \in PCs : Program[p] = "end" <=> p = Last

ASSUME HintAssumption ==
    /\ HintFile \in BOOLEAN
    /\ \A p \in DOMAIN Hints :
         /\ HintFile
         /\ p \in PCs /\ Hints[p].mode \in {0, 1}
         /\ Hints[p].offset1 \in Int /\ p + Hints[p].offset1 < Last
         /\ Hints[p].offset2 \in Int /\ p + Hints[p].offset2 < Last

ASSUME SizeAssumption ==
    /\ IsFiniteSet(Wavefronts) /\ Wavefronts # {}
    /\ NumSlots \in Nat \ {0}

\* The unit whose isValidUop accepts an instruction.
UnitOf(kind) ==
    CASE kind = "branch" -> "branch"
      [] kind = "valu" -> "simd"
      [] kind = "vmem" -> "vector_memory"
      [] kind = "lds" -> "lds"
      [] OTHER -> "scalar"

\* Instructions that are counted in lgkm_cnt from their issue to their completion.
IsMemory(kind) == kind \in {"smrd", "vmem", "lds"}

\* Timing::IsHintFileEmpty: it is the name of the file that is tested.
HasHints == HintFile

VARIABLES
    pc,             \* [w]: program counter of the emulator
    fetchBuf,       \* [w]: entry of the fetch buffer, a sequence of uops
    specBuf,        \* [w]: entry of the speculation fetch buffer
    preBuf,         \* [w]: entry of the pre-execution buffer
    mode,           \* [w]: execution_mode, 0 normal and 1 pre-execution
    memWait,        \* [w]: mem_wait
    lgkm,           \* [w]: lgkm_cnt, outstanding memory accesses
    atBarrier,      \* [w]: wait_for_barrier
    preFetchPc,     \* [w]: pre_fetch_pc
    ended,          \* [w]: wavefront_finished, the last uop has completed
    units,          \* [u]: uops in the execution unit, oldest first
    inflight,       \* inflight_instructions of the work group
    mapped,         \* the work group is mapped to the compute unit
    hinted,         \* history, [w]: uops that went through the speculation buffer
    completed       \* history, [w]: uops that have completed

front == <<pc, fetchBuf, specBuf, preBuf, preFetchPc, hinted>>
flags == <<mode, memWait, atBarrier>>
group == <<ended, mapped>>
vars == <<front, flags, group, lgkm, units, inflight, completed>>

\* Wavefront::getFinished: the emulator has executed s_endpgm.
Finished(w) == pc[w] > Last

-----------------------------------------------------------------------------
(***************************************************************************)
(* ComputeUnit::Fetch, for the entry of one wavefront.                     *)
(***************************************************************************)
Speculating(w) == HasHints /\ mode[w] = 1

\* The entry is visited: its buffer has a free slot and the wavefront goes on.
CanFetch(w) ==
    /\ mapped
    /\ Len(IF Speculating(w) THEN specBuf[w] ELSE fetchBuf[w]) # NumSlots
    /\ ~ Finished(w)

\* A plausible slip: the emulator is not asked whether it has finished.
FetchPastEnd(w) ==
    /\ mapped
    /\ Len(fetchBuf[w]) # NumSlots
    /\ fetchBuf' = [fetchBuf EXCEPT ![w] = Append(@, pc[w])]
    /\ pc' = [pc EXCEPT ![w] = @ + 1]
    /\ inflight' = inflight + 1
    /\ UNCHANGED <<specBuf, preBuf, preFetchPc, hinted, flags, group, lgkm,
                   units, completed>>

\* A plausible slip: the buffers of the speculation are not looked at.
FetchNewAlways(w) ==
    /\ CanFetch(w)
    /\ ~ Speculating(w)
    /\ fetchBuf' = [fetchBuf EXCEPT ![w] = Append(@, pc[w])]
    /\ pc' = [pc EXCEPT ![w] = @ + 1]
    /\ inflight' = inflight + 1
    /\ UNCHANGED <<specBuf, preBuf, preFetchPc, hinted, flags, group, lgkm,
                   units, completed>>

\* Normal mode, nothing put aside: the next instruction is emulated.
FetchNew(w) ==
    /\ CanFetch(w)
    /\ ~ Speculating(w)
    /\ HasHints => preBuf[w] = <<>> /\ specBuf[w] = <<>>
    /\ fetchBuf' = [fetchBuf EXCEPT ![w] = Append(@, pc[w])]
    /\ pc' = [pc EXCEPT ![w] = @ + 1]
    /\ preFetchPc' = IF HasHints /\ Program[pc[w]] = "wait"
                     THEN [preFetchPc EXCEPT ![w] = pc[w]] ELSE preFetchPc
    /\ inflight' = inflight + 1
    /\ UNCHANGED <<specBuf, preBuf, hinted, flags, group, lgkm, units, completed>>

\* Position of the oldest uop of the speculation buffer.
Oldest(q) == CHOOSE i \in DOMAIN q : \A j \in DOMAIN q : q[i] <= q[j]

\* A plausible slip: the uop is handed over and stays where it was.
RemoveNothing(q, i) == q

RemoveAt(q, i) == SubSeq(q, 1, i - 1) \o SubSeq(q, i + 1, Len(q))

\* Normal mode: the first pre-executed uop is older than the speculated ones.
FetchPreExecuted(w) ==
    /\ CanFetch(w)
    /\ HasHints /\ ~ Speculating(w)
    /\ preBuf[w] # <<>>
    /\ specBuf[w] # <<>> => Head(preBuf[w]) < specBuf[w][Oldest(specBuf[w])]
    /\ fetchBuf' = [fetchBuf EXCEPT ![w] = Append(@, Head(preBuf[w]))]
    /\ preBuf' = [preBuf EXCEPT ![w] = Tail(@)]
    /\ inflight' = inflight + 1
    /\ UNCHANGED <<pc, specBuf, preFetchPc, hinted, flags, group, lgkm, units,
                   completed>>

\* A plausible slip: the uop is counted in flight a second time.
FetchSpeculatedTwice(w) ==
    /\ CanFetch(w)
    /\ HasHints /\ ~ Speculating(w)
    /\ specBuf[w] # <<>>
    /\ LET i == Oldest(specBuf[w])
       IN  /\ preBuf[w] # <<>> => Head(preBuf[w]) >= specBuf[w][i]
           /\ fetchBuf' = [fetchBuf EXCEPT ![w] = Append(@, specBuf[w][i])]
           /\ specBuf' = [specBuf EXCEPT ![w] = RemoveAt(@, i)]
    /\ inflight' = inflight + 1
    /\ UNCHANGED <<pc, preBuf, preFetchPc, hinted, flags, group, lgkm, units,
                   completed>>

\* Normal mode: a speculated uop that was not issued is the oldest one.  It is
\* counted in flight already.
FetchSpeculated(w) ==
    /\ CanFetch(w)
    /\ HasHints /\ ~ Speculating(w)
    /\ specBuf[w] # <<>>
    /\ LET i == Oldest(specBuf[w])
       IN  /\ preBuf[w] # <<>> => Head(preBuf[w]) >= specBuf[w][i]
           /\ fetchBuf' = [fetchBuf EXCEPT ![w] = Append(@, specBuf[w][i])]
           /\ specBuf' = [specBuf EXCEPT ![w] = RemoveAt(@, i)]
    /\ UNCHANGED <<pc, preBuf, preFetchPc, hinted, flags, group, lgkm, units,
                   inflight, completed>>

\* The instruction that the hint of pre_fetch_pc leads to; 0 without a hint.
HintTarget(w) ==
    LET p == preFetchPc[w]
    IN  IF p \notin DOMAIN Hints THEN 0
        ELSE p + IF Hints[p].mode = 0 \/ pc[w] = p + 1
                 THEN Hints[p].offset1 ELSE Hints[p].offset2

\* The uops of the fetch buffer are put aside, behind those that are already.
PutAside(w) == preBuf[w] \o fetchBuf[w]

\* Pre-execution mode: the target is emulated, with all instructions before it.
FetchHintAhead(w) ==
    /\ CanFetch(w)
    /\ Speculating(w)
    /\ HintTarget(w) >= pc[w]
    /\ LET target == HintTarget(w)
           skipped == [i \in 1 .. (target - pc[w]) |-> pc[w] + i - 1]
       IN  /\ preBuf' = [preBuf EXCEPT ![w] = PutAside(w) \o skipped]
           /\ specBuf' = [specBuf EXCEPT ![w] = Append(@, target)]
           /\ hinted' = [hinted EXCEPT ![w] = @ \cup {target}]
           /\ pc' = [pc EXCEPT ![w] = target + 1]
           /\ preFetchPc' = [preFetchPc EXCEPT ![w] = target]
    /\ fetchBuf' = [fetchBuf EXCEPT ![w] = <<>>]
    /\ inflight' = inflight - Len(fetchBuf[w]) + 1
    /\ UNCHANGED <<flags, group, lgkm, units, completed>>

\* Pre-execution mode: the target is one of the uops put aside.
FetchHintBehind(w) ==
    /\ CanFetch(w)
    /\ Speculating(w)
    /\ HintTarget(w) < pc[w] /\ HintTarget(w) # 0
    /\ LET target == HintTarget(w)
       IN  \E i \in DOMAIN PutAside(w) :
             /\ PutAside(w)[i] = target
             /\ preBuf' = [preBuf EXCEPT ![w] = RemoveAt(PutAside(w), i)]
             /\ specBuf' = [specBuf EXCEPT ![w] = Append(@, target)]
             /\ hinted' = [hinted EXCEPT ![w] = @ \cup {target}]
             /\ preFetchPc' = [preFetchPc EXCEPT ![w] = target]
    /\ fetchBuf' = [fetchBuf EXCEPT ![w] = <<>>]
    /\ inflight' = inflight - Len(fetchBuf[w]) + 1
    /\ UNCHANGED <<pc, flags, group, lgkm, units, completed>>

\* Pre-execution mode without a hint, or with one for a uop that is no longer
\* put aside.
FetchHintIdle(w) ==
    /\ CanFetch(w)
    /\ Speculating(w)
    /\ HintTarget(w) < pc[w]
    /\ \A i \in DOMAIN PutAside(w) : PutAside(w)[i] # HintTarget(w)
    /\ preBuf' = [preBuf EXCEPT ![w] = PutAside(w)]
    /\ fetchBuf' = [fetchBuf EXCEPT ![w] = <<>>]
    /\ preFetchPc' = IF HintTarget(w) = 0 THEN preFetchPc
                     ELSE [preFetchPc EXCEPT ![w] = HintTarget(w)]
    /\ inflight' = inflight - Len(fetchBuf[w])
    /\ UNCHANGED <<pc, specBuf, hinted, flags, group, lgkm, units, completed>>

-----------------------------------------------------------------------------
(***************************************************************************)
(* ComputeUnit::Issue, for the entry of one wavefront.                     *)
(***************************************************************************)
\* All memory accesses of the wavefront have completed.
WaitIsOver(w) == memWait[w] /\ lgkm[w] = 0

\* The execution mode once the entry's wait was checked.
ModeNow(w) == IF WaitIsOver(w) THEN 0 ELSE mode[w]

\* The wait ends, and nothing is issued: no uop, no unit or no register is free.
EndWait(w) ==
    /\ mapped
    /\ WaitIsOver(w)
    /\ memWait' = [memWait EXCEPT ![w] = FALSE]
    /\ mode' = [mode EXCEPT ![w] = 0]
    /\ UNCHANGED <<front, group, atBarrier, lgkm, units, inflight, completed>>

\* A wavefront that waits in normal mode, or at a barrier, issues nothing.
CanIssue(w) ==
    /\ mapped
    /\ memWait[w] => WaitIsOver(w) \/ mode[w] = 1
    /\ ~ atBarrier[w]

\* The first uop of buffer b goes to its execution unit.
IssueFrom(b, w) ==
    LET uop == Head(b[w])
        kind == Program[uop]
    IN  /\ b[w] # <<>>
        /\ units' = [units EXCEPT ![UnitOf(kind)] = Append(@, <<w, uop>>)]
        /\ lgkm' = [lgkm EXCEPT ![w] = IF IsMemory(kind) THEN @ + 1 ELSE @]
        /\ memWait' = [memWait EXCEPT ![w] =
                         kind = "wait" \/ (@ /\ ~ WaitIsOver(w))]
        /\ mode' = [mode EXCEPT ![w] =
                      IF kind = "wait" /\ HasHints THEN 1 ELSE ModeNow(w)]
        /\ atBarrier' = [atBarrier EXCEPT ![w] = kind = "barrier"]

Issue(w) ==
    /\ CanIssue(w)
    /\ ~ (HasHints /\ ModeNow(w) = 1)
    /\ IssueFrom(fetchBuf, w)
    /\ fetchBuf' = [fetchBuf EXCEPT ![w] = Tail(@)]
    /\ UNCHANGED <<pc, specBuf, preBuf, preFetchPc, hinted, group, inflight,
                   completed>>

IssueSpeculated(w) ==
    /\ CanIssue(w)
    /\ HasHints /\ ModeNow(w) = 1
    /\ IssueFrom(specBuf, w)
    /\ specBuf' = [specBuf EXCEPT ![w] = Tail(@)]
    /\ UNCHANGED <<pc, fetchBuf, preBuf, preFetchPc, hinted, group, inflight,
                   completed>>

-----------------------------------------------------------------------------
(***************************************************************************)
(* The Complete stages.  A unit completes its uops in the order of issue.  *)
(***************************************************************************)
\* The uop leaves its unit.
Retire(u) ==
    LET w == Head(units[u])[1]
        p == Head(units[u])[2]
    IN  /\ units' = [units EXCEPT ![u] = Tail(@)]
        /\ lgkm' = [lgkm EXCEPT ![w] = IF IsMemory(Program[p]) THEN @ - 1 ELSE @]
        /\ inflight' = inflight - 1
        /\ completed' = [completed EXCEPT ![w] = @ \cup {p}]

\* A uop other than a barrier and an s_endpgm.
Complete(u) ==
    /\ units[u] # <<>>
    /\ Program[Head(units[u])[2]] \notin {"barrier", "end"}
    /\ Retire(u)
    /\ UNCHANGED <<front, flags, group>>

\* A plausible slip: the barrier opens for the wavefront that completes it.
CompleteBarrierAlone ==
    /\ units["scalar"] # <<>>
    /\ Program[Head(units["scalar"])[2]] = "barrier"
    /\ Retire("scalar")
    /\ atBarrier' = [atBarrier EXCEPT ![Head(units["scalar"])[1]] = FALSE]
    /\ UNCHANGED <<front, group, mode, memWait>>

\* A plausible slip: the barrier opens for the wavefront that completes it last.
CompleteBarrierOne ==
    /\ units["scalar"] # <<>>
    /\ Program[Head(units["scalar"])[2]] = "barrier"
    /\ Retire("scalar")
    /\ atBarrier' = IF \A w \in Wavefronts : atBarrier[w]
                    THEN [atBarrier EXCEPT ![Head(units["scalar"])[1]] = FALSE]
                    ELSE atBarrier
    /\ UNCHANGED <<front, group, mode, memWait>>

\* A barrier opens when all wavefronts of the work group have reached it.
CompleteBarrier ==
    /\ units["scalar"] # <<>>
    /\ Program[Head(units["scalar"])[2]] = "barrier"
    /\ Retire("scalar")
    /\ atBarrier' = IF \A w \in Wavefronts : atBarrier[w]
                    THEN [w \in Wavefronts |-> FALSE] ELSE atBarrier
    /\ UNCHANGED <<front, group, mode, memWait>>

\* A plausible slip: the wavefront ends although it has accesses in flight.
CompleteEndEarly ==
    /\ units["scalar"] # <<>>
    /\ Program[Head(units["scalar"])[2]] = "end"
    /\ Retire("scalar")
    /\ ended' = [ended EXCEPT ![Head(units["scalar"])[1]] = TRUE]
    /\ mapped' = ~ (\A w \in Wavefronts : ended'[w])
    /\ UNCHANGED <<front, flags>>

\* s_endpgm waits for the memory accesses of its wavefront.  The last one of
\* the work group unmaps it, if no other uop is in flight.
CompleteEnd ==
    /\ units["scalar"] # <<>>
    /\ Program[Head(units["scalar"])[2]] = "end"
    /\ lgkm[Head(units["scalar"])[1]] = 0
    /\ Retire("scalar")
    /\ ended' = [ended EXCEPT ![Head(units["scalar"])[1]] = TRUE]
    /\ mapped' = ~ ((\A w \in Wavefronts : ended'[w]) /\ inflight = 1)
    /\ UNCHANGED <<front, flags>>

\* The next work group of the ND-range takes the entries (MapWavefronts after
\* Clear): an entry keeps its execution_mode and pre_fetch_pc, and the buffers
\* their uops.  Clear resets wavefront_finished; nothing reads it in between.
MapWorkGroup ==
    /\ ~ mapped
    /\ mapped' = TRUE
    /\ pc' = [w \in Wavefronts |-> 1]
    /\ ended' = [w \in Wavefronts |-> FALSE]
    /\ inflight' = 0
    /\ hinted' = [w \in Wavefronts |-> {}]
    /\ completed' = [w \in Wavefronts |-> {}]
    /\ UNCHANGED <<fetchBuf, specBuf, preBuf, preFetchPc, flags, lgkm, units>>

-----------------------------------------------------------------------------
Init ==
    /\ pc = [w \in Wavefronts |-> 1]
    /\ fetchBuf = [w \in Wavefronts |-> <<>>]
    /\ specBuf = [w \in Wavefronts |-> <<>>]
    /\ preBuf = [w \in Wavefronts |-> <<>>]
    /\ mode = [w \in Wavefronts |-> 0]
    /\ memWait = [w \in Wavefronts |-> FALSE]
    /\ lgkm = [w \in Wavefronts |-> 0]
    /\ atBarrier = [w \in Wavefronts |-> FALSE]
    /\ preFetchPc = [w \in Wavefronts |-> 0]
    /\ ended = [w \in Wavefronts |-> FALSE]
    /\ units = [u \in Units |-> <<>>]
    /\ inflight = 0 /\ mapped = TRUE
    /\ hinted = [w \in Wavefronts |-> {}]
    /\ completed = [w \in Wavefronts |-> {}]

Fetch(w) ==
    \/ FetchNew(w) \/ FetchPreExecuted(w) \/ FetchSpeculated(w)
    \/ FetchHintAhead(w) \/ FetchHintBehind(w) \/ FetchHintIdle(w)

IssueStep(w) == EndWait(w) \/ Issue(w) \/ IssueSpeculated(w)

CompleteStep(u) ==
    Complete(u) \/ (u = "scalar" /\ (CompleteBarrier \/ CompleteEnd))

Next ==
    \/ \E w \in Wavefronts : Fetch(w) \/ IssueStep(w)
    \/ \E u \in Units : CompleteStep(u)
    \/ MapWorkGroup

Spec == Init /\ [][Next]_vars

(***************************************************************************)
(* Fetch and Issue visit the entries of a pool round-robin, a register is  *)
(* reserved only while a uop is in a unit, and a unit advances every cycle *)
(* (its memory accesses complete).                                         *)
(***************************************************************************)
FairSpec ==
    /\ Spec
    /\ \A w \in Wavefronts : WF_vars(Fetch(w)) /\ WF_vars(IssueStep(w))
    /\ \A u \in Units : WF_vars(CompleteStep(u))
    /\ WF_vars(MapWorkGroup)

-----------------------------------------------------------------------------
(***************************************************************************)
(* Properties                                                              *)
(***************************************************************************)
\* The uops of w in the execution units.
InUnits(w) == {p \in PCs : \E u \in Units : <<w, p>> \in Range(units[u])}

\* The uops of w that have been issued.
Issued(w) == InUnits(w) \cup completed[w]

TypeOK ==
    /\ pc \in [Wavefronts -> 1 .. Last + 1]
    /\ fetchBuf \in [Wavefronts -> Seq(PCs)]
    /\ specBuf \in [Wavefronts -> Seq(PCs)]
    /\ preBuf \in [Wavefronts -> Seq(PCs)]
    /\ mode \in [Wavefronts -> {0, 1}]
    /\ memWait \in [Wavefronts -> BOOLEAN]
    /\ lgkm \in [Wavefronts -> Int]
    /\ atBarrier \in [Wavefronts -> BOOLEAN]
    /\ preFetchPc \in [Wavefronts -> Int]
    /\ ended \in [Wavefronts -> BOOLEAN]
    /\ units \in [Units -> Seq(Wavefronts \X PCs)]
    /\ inflight \in Int /\ mapped \in BOOLEAN
    /\ hinted \in [Wavefronts -> SUBSET PCs]
    /\ completed \in [Wavefronts -> SUBSET PCs]

\* Once the emulator of a wavefront has finished, Fetch does not visit its
\* entry again: no uop may be left in the buffers that only Fetch empties.
NothingStranded ==
    \A w \in Wavefronts : Finished(w) => preBuf[w] = <<>> /\ specBuf[w] = <<>>

\* The three buffers of a wavefront, the units and the completed uops hold
\* every emulated instruction exactly once, however the modes alternate.
UopsConserved ==
    \A w \in Wavefronts :
        /\ IsInjective(fetchBuf[w] \o specBuf[w] \o preBuf[w])
        /\ Range(fetchBuf[w] \o specBuf[w] \o preBuf[w])
             = (1 .. pc[w] - 1) \ Issued(w)
        /\ Issued(w) \subseteq 1 .. pc[w] - 1
        /\ InUnits(w) \cap completed[w] = {}

\* The uops in the fetch and speculation buffers and in the units.
InFlightUops == {x \in Wavefronts \X PCs :
                   \/ x[2] \in Range(fetchBuf[x[1]])
                   \/ x[2] \in Range(specBuf[x[1]])
                   \/ x[2] \in InUnits(x[1])}

\* inflight_instructions is the number of uops in the fetch and speculation
\* buffers and in the units: the end of a work group is decided with it.
InflightExact == inflight = Cardinality(InFlightUops)

\* WavefrontPoolEntry::Clear asserts that an entry that is given up has no
\* outstanding accesses and waits for nothing; its buffers are empty too, and
\* it is in normal mode, since the next wavefront inherits them.
CleanUnmap ==
    ~ mapped => \A w \in Wavefronts :
        /\ lgkm[w] = 0 /\ ~ memWait[w] /\ ~ atBarrier[w] /\ mode[w] = 0
        /\ fetchBuf[w] = <<>> /\ specBuf[w] = <<>> /\ preBuf[w] = <<>>

BarriersIssued(w) == Cardinality({p \in Issued(w) : Program[p] = "barrier"})

\* No wavefront issues a barrier before all wavefronts of the work group have
\* issued the previous one.
BarrierLockstep ==
    \A v, w \in Wavefronts : BarriersIssued(v) <= BarriersIssued(w) + 1

\* "We need to wait waitcnt finish to issue the instructions after it": a uop
\* that no hint has sent ahead is issued after every s_waitcnt before it.
WaitsBefore ==
    \A w \in Wavefronts : \A p \in Issued(w) \ hinted[w] : \A q \in 1 .. p - 1 :
        Program[q] = "wait" => q \in Issued(w)

\* "Check if the work group is finished.  If so, unmap the work group": when
\* all its wavefronts have ended and all uops completed, it is unmapped.
FinishedIsUnmapped ==
    ~ (mapped /\ inflight = 0 /\ \A w \in Wavefronts : ended[w])

\* Every wavefront of every work group runs to its end: no uop is left behind
\* in a buffer, at a barrier or behind an s_waitcnt.
WavefrontsEnd == \A w \in Wavefronts : []<>ended[w]
=============================================================================
