---------------------------- MODULE RegisterFile ----------------------------
(***************************************************************************)
(* Register renaming of an x86 thread (x86/timing/RegisterFile.cc and      *)
(* Uop::CountDependencies), as operators on the state rf of one register   *)
(* file, a record:                                                         *)
(*   rat      the physical register that each logical one is mapped to     *)
(*   busy     for each kind and physical register, its number of mappings  *)
(*   pending  whether its value is still being computed                    *)
(*   free     for each kind, the list of free registers, used as a stack   *)
(*   top      floating_point_top                                           *)
(*   ok       whether every assertion has held so far                      *)
(* A micro-instruction is [op, in, out], where in and out are sequences of *)
(* logical registers.  Flags are integer registers, but all of the flags   *)
(* that an instruction writes share one physical register.  The counters   *)
(* of occupied registers always equal the size minus the free ones, and    *)
(* are left out: with one thread per core, private and shared register     *)
(* files are the same.  Logical registers are numbers; those of the        *)
(* floating-point unit are 0, 1, ..., relative to DepFpFirst.              *)
(***************************************************************************)
EXTENDS Integers, Sequences, FiniteSets, SequencesExt

CONSTANTS IntRegs,     \* the logical integer registers that are not flags
          FlagRegs,    \* the flags
          XmmRegs,     \* the logical XMM registers
          FpRegs,      \* the floating-point registers 0, 1, ..., first the stack
          StackSize,   \* the size of the stack
          RegSize      \* for each kind, the number of physical registers

Logical == IntRegs \cup FlagRegs \cup XmmRegs \cup FpRegs
Kinds == {"int", "fp", "xmm"}
Physical(k) == 0 .. RegSize[k] - 1

\* isFlagDependency, isIntegerDependency, isFloatingPointDependency, isXmmDependency.
IsFlag(l) == l \in FlagRegs
Kind(l) == IF l \in FpRegs THEN "fp" ELSE IF l \in XmmRegs THEN "xmm" ELSE "int"

\* A floating-point register is taken relative to the top of the stack.  So are
\* those that are not on the stack: they share the entries of stack registers.
Relative(rf, l) == IF l \in FpRegs THEN (l + rf.top) % StackSize ELSE l

(***************************************************************************)
(* The constructor.  It goes through the logical registers of a kind in    *)
(* the order of their numbers.  Each one takes the last free physical      *)
(* register, except for a flag, which shares the one taken last.           *)
(***************************************************************************)
Owners(k) == {l \in Logical : Kind(l) = k /\ ~ IsFlag(l)}

\* There is a physical register for every logical one (RegisterFile.cc:230), the integer
\* registers are numbered before the flags, and the stack registers from 0.
ASSUME RegisterAssumption ==
    /\ Logical \in SUBSET Nat /\ IsFiniteSet(Logical)
    /\ IntRegs \cap FlagRegs = {} /\ XmmRegs \cap (IntRegs \cup FlagRegs) = {}
    /\ FpRegs \cap (IntRegs \cup FlagRegs \cup XmmRegs) = {}
    /\ StackSize \in Nat \ {0} /\ 0 .. StackSize - 1 \subseteq FpRegs
    /\ \A f \in FlagRegs : \E l \in IntRegs : l < f
    /\ \A k \in Kinds : RegSize[k] \in Nat /\ Cardinality(Owners(k)) <= RegSize[k]

InitialRegister(l) == RegSize[Kind(l)] - Cardinality({o \in Owners(Kind(l)) : o <= l})

InitialFile ==
    [rat |-> [l \in Logical |-> InitialRegister(l)],
     busy |-> [k \in Kinds |-> [r \in Physical(k) |->
                    Cardinality({l \in Logical : Kind(l) = k /\ InitialRegister(l) = r})]],
     pending |-> [k \in Kinds |-> [r \in Physical(k) |-> FALSE]],
     free |-> [k \in Kinds |-> [i \in 1 .. RegSize[k] - Cardinality(Owners(k)) |-> i - 1]],
     top |-> 0,
     ok |-> TRUE]

\* Uop::CountDependencies: the physical registers that u needs.
NumOutputs(u, k) ==
    LET outs == {i \in DOMAIN u.out : Kind(u.out[i]) = k}
        plain == {i \in outs : ~ IsFlag(u.out[i])}
    IN  IF outs # {} /\ plain = {} THEN 1 ELSE Cardinality(plain)

canRename(rf, u) == \A k \in Kinds : NumOutputs(u, k) <= Len(rf.free[k])

\* RequestIntegerRegister, RequestFloatingPointRegister, RequestXmmRegister.
Requested(rf, k) == Last(rf.free[k])
Request(rf, k) ==
    [rf EXCEPT !.ok = @ /\ rf.free[k] # <<>>
                        /\ rf.busy[k][Requested(rf, k)] = 0
                        /\ ~ rf.pending[k][Requested(rf, k)],
               !.free[k] = Front(@)]

\* Logical register l, already relative to the stack, is mapped to r.
MapTo(rf, l, r) ==
    [rf EXCEPT !.busy[Kind(l)][r] = @ + 1,
               !.pending[Kind(l)][r] = TRUE,
               !.rat[l] = r]

\* A reference is dropped; without any, the register is free.
Release(rf, k, r) ==
    [rf EXCEPT !.ok = @ /\ rf.busy[k][r] > 0,
               !.busy[k][r] = @ - 1,
               !.free[k] = IF rf.busy[k][r] = 1 THEN Append(@, r) ELSE @]

Turned(rf, op) ==
    [rf EXCEPT !.top = CASE op = "fp_pop" -> (@ + 1) % StackSize
                         [] op = "fp_push" -> (@ + StackSize - 1) % StackSize
                         [] OTHER -> @]

(***************************************************************************)
(* Rename.  The inputs are read before the outputs are mapped, and the     *)
(* flags after the other outputs: they go with the first integer output,   *)
(* or get a register when there is none.  The state s of the loops is the  *)
(* register file, the physical outputs so far (out) and those that they    *)
(* replace (old); the sequences of states are PlainRenamed and Flags-      *)
(* Renamed.  The result is the last one with the physical inputs and the   *)
(* logical register of every output (dst).                                 *)
(***************************************************************************)
Assign(s, i, l, r) ==
    [rf |-> MapTo(s.rf, l, r),
     out |-> [s.out EXCEPT ![i] = r],
     old |-> [s.old EXCEPT ![i] = s.rf.rat[l]]]

PlainStep(s, i, l) ==
    IF IsFlag(l) THEN s
    ELSE Assign([s EXCEPT !.rf = Request(@, Kind(l))], i, l, Requested(s.rf, Kind(l)))
PlainRenamed(rf, dst) ==
    LET none == [i \in DOMAIN dst |-> -1]
        s[i \in 0 .. Len(dst)] ==
            IF i = 0 THEN [rf |-> rf, out |-> none, old |-> none]
            ELSE PlainStep(s[i - 1], i, dst[i])
    IN  s

FlagsStep(s, i, l, r) == IF IsFlag(l) THEN Assign(s, i, l, r) ELSE s
FlagsRenamed(first, dst, r) ==
    LET s[i \in 0 .. Len(dst)] ==
            IF i = 0 THEN first ELSE FlagsStep(s[i - 1], i, dst[i], r)
    IN  s

Rename(rf, u) ==
    LET start == Turned(rf, u.op)
        dst == [i \in DOMAIN u.out |-> Relative(start, u.out[i])]
        p == PlainRenamed(start, dst)[Len(dst)]
        ints == {i \in DOMAIN dst : Kind(dst[i]) = "int" /\ ~ IsFlag(dst[i])}
        own == ints = {} /\ \E i \in DOMAIN dst : IsFlag(dst[i])
        r == IF own THEN Requested(p.rf, "int")
             ELSE p.out[CHOOSE i \in ints : \A j \in ints : i <= j]
        done == FlagsRenamed(IF own THEN [p EXCEPT !.rf = Request(@, "int")] ELSE p,
                             dst, r)[Len(dst)]
    IN  [rf |-> done.rf, out |-> done.out, old |-> done.old, dst |-> dst,
         in |-> [i \in DOMAIN u.in |-> start.rat[Relative(start, u.in[i])]]]

\* isUopReady: u is a renamed uop, with its instruction and physical inputs.  The
\* flag that caches a positive answer is left out: an input keeps its register
\* until the uop is gone, so the answer does not change back.
isUopReady(rf, u) ==
    \A i \in DOMAIN u.in : ~ rf.pending[Kind(u.inst.in[i])][u.in[i]]

\* WriteUop.
WriteUop(rf, u) ==
    [rf EXCEPT !.pending = [k \in Kinds |-> [r \in Physical(k) |->
        rf.pending[k][r] /\ ~ \E i \in DOMAIN u.out :
                                Kind(u.inst.out[i]) = k /\ u.out[i] = r]]]

\* The turn of the stack that undoes the one of op.
InverseTurn(op) ==
    CASE op = "fp_pop" -> "fp_push" [] op = "fp_push" -> "fp_pop" [] OTHER -> op

\* Output j goes back to its previous mapping.
UndoOutput(rf, u, j) ==
    LET k == Kind(u.inst.out[j])
        s == Release(rf, k, u.out[j])
    IN  [s EXCEPT !.ok = @ /\ ~ s.pending[k][u.out[j]] /\ s.busy[k][u.old[j]] > 0,
                  !.rat[Relative(rf, u.inst.out[j])] = u.old[j]]

\* UndoUop, from the last output to the first, and then the top of the stack.
UndoForward(rf, u) ==
    LET step[i \in 0 .. Len(u.out)] ==
            IF i = 0 THEN rf ELSE UndoOutput(step[i - 1], u, i)
    IN  Turned(step[Len(u.out)], InverseTurn(u.inst.op))
Undone(rf, u) ==
    LET step[i \in 0 .. Len(u.out)] ==
            IF i = 0 THEN rf ELSE UndoOutput(step[i - 1], u, Len(u.out) + 1 - i)
    IN  step
UndoUop(rf, u) == Turned(Undone(rf, u)[Len(u.out)], InverseTurn(u.inst.op))

\* CommitUop: the previous mappings are given up.
CommitOutput(rf, u, i) ==
    LET k == Kind(u.inst.out[i])
        s == Release(rf, k, u.old[i])
    IN  [s EXCEPT !.ok = @ /\ (s.busy[k][u.old[i]] = 0 => ~ s.pending[k][u.old[i]])]
Committed(rf, u) ==
    LET step[i \in 0 .. Len(u.old)] ==
            IF i = 0 THEN rf ELSE CommitOutput(step[i - 1], u, i)
    IN  step
CommitUop(rf, u) == Committed(rf, u)[Len(u.old)]
=============================================================================
