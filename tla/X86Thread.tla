------------------------------ MODULE X86Thread ------------------------------
(***************************************************************************)
(* A hardware thread of an x86 core (x86/timing/Thread*.cc, Core.cc,       *)
(* Cpu.cc): it fetches ahead of its branches, renames, issues out of       *)
(* order, recovers from wrong predictions, commits in order, and is shared *)
(* by several contexts.                                                    *)
(*                                                                         *)
(* A configuration cf is a record: programs (for each context its macro-   *)
(* instructions, each a sequence of micro-instructions; the last one ends  *)
(* the context), wrong (the macro-instructions that may be fetched on a    *)
(* wrong path), atWriteback (RecoverKind), preempt (whether the quantum of *)
(* a context may expire) and the sizes of the queues.                      *)
(*                                                                         *)
(* Each stage handles one uop (Fetch and Decode one macro-instruction) per *)
(* action.  Latencies, functional units, ports and the widths of stages    *)
(* only delay a uop and are left open, as is what a predictor predicts.    *)
(***************************************************************************)
EXTENDS RegisterFile

CONSTANTS Configs,      \* the configurations
          ContextIds,   \* a superset of their contexts
          MaxLength,    \* bound on the length of their programs
          MaxUops       \* bound on the uops that exist at a time

\* A macro-instruction has at least one micro-instruction.  Stores have no outputs; the
\* one of CMPXCHG8B, whose output is only read by the store after it, is left out.
Micros == {u \in [op : STRING, in : Seq(Logical), out : Seq(Logical)] :
                u.op = "store" => u.out = <<>>}
Macros == Seq(Micros) \ {<<>>}

ASSUME ConfigAssumption ==
    /\ MaxUops \in Nat /\ MaxLength \in Nat
    /\ \A c \in Configs :
        /\ c.programs \in Seq(Seq(Macros))
        /\ DOMAIN c.programs \subseteq ContextIds
        /\ \A i \in DOMAIN c.programs : Len(c.programs[i]) <= MaxLength
        /\ c.wrong \subseteq Macros
        /\ c.atWriteback \in BOOLEAN /\ c.preempt \in BOOLEAN

VARIABLES
    cf,          \* the configuration
    context,     \* Thread::context
    evict,       \* its evict_signal
    mapped,      \* the mapped contexts, the least recently evicted first
    signal,      \* Emulator::schedule_signal
    pc,          \* for each context, how many instructions have been emulated
    spec,        \* whether the context is in speculative mode
    astray,      \* whether fetch_neip is not the emulator's next instruction
    uops,        \* the uops that exist
    fetchq, uopq, rob, storeq,    \* the queues, in program order
    iq, loadq,   \* the instruction queue and the load queue, without an order
    memory,      \* the uops whose memory access is in flight
    events,      \* Core::event_queue
    rf,          \* the register file
    failed       \* the panics

vars == <<cf, context, evict, mapped, signal, pc, spec, astray, uops, fetchq, uopq,
          rob, iq, loadq, storeq, memory, events, rf, failed>>

None == 0
NoUop == [op |-> "none"]
UopIds == 1 .. MaxUops
Contexts == DOMAIN cf.programs

Running(c) == pc[c] < Len(cf.programs[c])
isPipelineEmpty == fetchq = <<>> /\ uopq = <<>> /\ rob = <<>>

IsMem(u) == u.inst.op \in {"load", "store", "prefetch"}

\* The k-th member of a set of numbers, and queue q without what is not in T.
Nth(S, k) == CHOOSE x \in S : Cardinality({y \in S : y < x}) = k - 1
Only(q, T) ==
    LET places == {i \in DOMAIN q : q[i] \in T}
    IN  [k \in 1 .. Cardinality(places) |-> q[Nth(places, k)]]

Init ==
    /\ cf \in Configs
    /\ context = None
    /\ evict = FALSE
    /\ mapped = [c \in Contexts |-> c]
    /\ signal = TRUE
    /\ pc = [c \in Contexts |-> 0]
    /\ spec = FALSE
    /\ astray = FALSE
    /\ uops = [x \in UopIds |-> NoUop]
    /\ fetchq = <<>> /\ uopq = <<>> /\ rob = <<>> /\ storeq = <<>>
    /\ iq = {} /\ loadq = {}
    /\ memory = {}
    /\ events = {}
    /\ rf = InitialFile
    /\ failed = {}

\* Uops are freed when no queue and no memory access holds them any more.
Kept(us) ==
    [x \in UopIds |->
        IF \/ x \in Range(fetchq') \cup Range(uopq') \cup Range(rob')
           \/ x \in iq' \cup loadq' \cup Range(storeq') \cup memory' \cup events'
        THEN us[x] ELSE NoUop]
-----------------------------------------------------------------------------
(***************************************************************************)
(* Cpu::Schedule and Thread::Schedule run at the start of a cycle, before  *)
(* the stages, when a context has changed its state or the quantum of the  *)
(* allocated one may have expired.  Contexts have the same priority and    *)
(* affinity with the thread.                                               *)
(***************************************************************************)
Others == {c \in Range(mapped) : c # context /\ Running(c)}

\* EvictContextSignal is called.
Signalled(expired) ==
    /\ context # None
    /\ ~ evict
    /\ ~ Running(context) \/ (expired /\ Others # {})

\* EvictContext: the evicted context goes to the end of the list.
AfterEviction == Append(Only(mapped, Contexts \ {context}), context)

\* The context that is allocated when list is mapped.
Allocated(list) ==
    LET candidates == {i \in DOMAIN list : Running(list[i])}
    IN  IF candidates = {} THEN None
        ELSE list[CHOOSE i \in candidates : \A j \in candidates : i <= j]

Schedule(expired) ==
    LET now == Signalled(expired) /\ isPipelineEmpty
        list == Only(IF now THEN AfterEviction ELSE mapped,
                     {c \in Contexts : Running(c) \/ (c = context /\ ~ now)})
        free == context = None \/ now
        next == Allocated(list)
    IN  /\ signal \/ expired
        /\ mapped' = list
        /\ context' = IF free THEN next ELSE context
        /\ evict' = (~ free /\ (evict \/ Signalled(expired)))
        /\ signal' = (now \/ (free /\ next # None) \/ Len(list) < Len(mapped))
        /\ astray' = IF free THEN FALSE ELSE astray
        \* Thread::Schedule goes on to look at the context that it has evicted.
        /\ failed' = failed \cup (IF now /\ ~ Running(context) THEN {"null_context"} ELSE {})
                            \cup (IF now /\ spec THEN {"speculative_eviction"} ELSE {})
        /\ UNCHANGED <<cf, pc, spec, uops, fetchq, uopq, rob, iq, loadq, storeq,
                       memory, events, rf>>

\* The scheduler is invoked by its signal, or because a quantum has expired.
SignalledSchedule == signal /\ \E expired \in {FALSE, cf.preempt} : Schedule(expired)
ExpiredSchedule == cf.preempt /\ ~ signal /\ Signalled(TRUE) /\ Schedule(TRUE)
-----------------------------------------------------------------------------
(***************************************************************************)
(* Thread::canFetch, Fetch and FetchInstruction for one macro-instruction. *)
(***************************************************************************)
canFetch ==
    /\ ~ signal
    /\ context # None
    /\ Running(context)
    /\ ~ evict
    /\ Cardinality({x \in Range(fetchq) : uops[x].index = 0}) < cf.fetchSize

Fresh == {x \in UopIds : uops[x] = NoUop}

\* The uops of instruction mop are put into the fetch queue.
Fetched(mop, speculative, position) ==
    LET new == [i \in DOMAIN mop |-> Nth(Fresh, i)]
        index(x) == CHOOSE i \in DOMAIN mop : new[i] = x
    IN  /\ Len(mop) <= Cardinality(Fresh)
        /\ uops' = [x \in UopIds |->
                IF x \notin Range(new) THEN uops[x]
                ELSE [op |-> "uop", inst |-> mop[index(x)], index |-> index(x) - 1,
                      position |-> position, spec |-> speculative,
                      first |-> speculative /\ ~ spec /\ index(x) = 1,
                      completed |-> FALSE, in |-> <<>>, out |-> <<>>, old |-> <<>>,
                      dst |-> <<>>]]
        /\ fetchq' = fetchq \o new

Branches(mop) == \E i \in DOMAIN mop : mop[i].op = "branch"

\* The emulator executes the instruction that the program comes to next.
FetchRight ==
    LET mop == cf.programs[context][pc[context] + 1]
    IN  /\ canFetch
        /\ ~ spec /\ ~ astray
        /\ Fetched(mop, FALSE, pc[context] + 1)
        /\ pc' = [pc EXCEPT ![context] = @ + 1]
        /\ \E wrong \in BOOLEAN : (wrong => Branches(mop)) /\ astray' = wrong
        /\ signal' = (pc[context] + 1 = Len(cf.programs[context]))
        /\ UNCHANGED <<cf, context, evict, mapped, spec, uopq, rob, iq, loadq, storeq,
                       memory, events, rf, failed>>

\* Context::setEip enters speculative mode at the first wrong address.
FetchWrong ==
    /\ canFetch
    /\ spec \/ astray
    /\ \E mop \in cf.wrong : Fetched(mop, TRUE, 0)
    /\ spec' = TRUE
    /\ UNCHANGED <<cf, context, evict, mapped, signal, pc, astray, uopq, rob, iq, loadq,
                   storeq, memory, events, rf, failed>>

\* Thread::Decode for one macro-instruction.
Decode ==
    LET later == {i \in 2 .. Len(fetchq) : uops[fetchq[i]].index = 0}
        n == IF later = {} THEN Len(fetchq)
             ELSE (CHOOSE i \in later : \A j \in later : i <= j) - 1
    IN  /\ ~ signal
        /\ fetchq # <<>>
        /\ Len(uopq) < cf.uopqSize
        /\ uopq' = uopq \o SubSeq(fetchq, 1, n)
        /\ fetchq' = SubSeq(fetchq, n + 1, Len(fetchq))
        /\ failed' = IF uops[Head(fetchq)].index # 0
                     THEN failed \cup {"decode_inside_instruction"} ELSE failed
        /\ UNCHANGED <<cf, context, evict, mapped, signal, pc, spec, astray, uops, rob,
                       iq, loadq, storeq, memory, events, rf>>

\* Thread::canDispatch and Dispatch.
canDispatch ==
    /\ ~ signal
    /\ uopq # <<>>
    /\ Len(rob) < cf.robSize
    /\ LET u == uops[Head(uopq)]
       IN  /\ IF IsMem(u) THEN Cardinality(loadq) + Len(storeq) < cf.lsqSize
                           ELSE Cardinality(iq) < cf.iqSize
           /\ canRename(rf, u.inst)

Dispatch ==
    LET x == Head(uopq)
        u == uops[x]
        renamed == Rename(rf, u.inst)
    IN  /\ canDispatch
        /\ uopq' = Tail(uopq)
        /\ rf' = renamed.rf
        /\ uops' = [uops EXCEPT ![x] = [u EXCEPT !.in = renamed.in, !.out = renamed.out,
                                                 !.old = renamed.old, !.dst = renamed.dst]]
        /\ rob' = Append(rob, x)
        /\ iq' = IF IsMem(u) THEN iq ELSE iq \cup {x}
        /\ loadq' = IF u.inst.op = "load" THEN loadq \cup {x} ELSE loadq
        /\ storeq' = IF u.inst.op = "store" THEN Append(storeq, x) ELSE storeq
        /\ failed' = IF u.inst.op = "prefetch" THEN failed \cup {"invalid_opcode"}
                                               ELSE failed
        /\ UNCHANGED <<cf, context, evict, mapped, signal, pc, spec, astray, fetchq,
                       memory, events>>
-----------------------------------------------------------------------------
\* Thread::IssueLoadQueue and IssueStoreQueue, each for one uop.
IssueLoad(x) ==
    /\ ~ signal
    /\ x \in loadq
    /\ isUopReady(rf, uops[x])
    /\ loadq' = loadq \ {x}
    /\ memory' = memory \cup {x}
    /\ UNCHANGED <<cf, context, evict, mapped, signal, pc, spec, astray, uops, fetchq,
                   uopq, rob, iq, storeq, events, rf, failed>>

IssueStore ==
    /\ ~ signal
    /\ storeq # <<>>
    /\ Head(storeq) \notin Range(rob)
    /\ storeq' = Tail(storeq)
    /\ memory' = memory \cup {Head(storeq)}
    /\ UNCHANGED <<cf, context, evict, mapped, signal, pc, spec, astray, uops, fetchq,
                   uopq, rob, iq, loadq, events, rf, failed>>

\* Thread::IssueInstructionQueue for one uop.
IssueInstruction(x) ==
    /\ ~ signal
    /\ x \in iq
    /\ isUopReady(rf, uops[x])
    /\ iq' = iq \ {x}
    /\ events' = events \cup {x}
    /\ UNCHANGED <<cf, context, evict, mapped, signal, pc, spec, astray, uops, fetchq,
                   uopq, rob, loadq, storeq, memory, rf, failed>>

\* Cpu::MemoryAccessHandler, event memory_access_end.
MemoryAccessEnd(x) ==
    /\ x \in memory
    /\ memory' = memory \ {x}
    /\ events' = events \cup {x}
    /\ UNCHANGED <<cf, context, evict, mapped, signal, pc, spec, astray, uops, fetchq,
                   uopq, rob, iq, loadq, storeq, rf, failed>>

(***************************************************************************)
(* Thread::Recover, with the register file and the uops at that time, and  *)
(* the event queue.  Memory accesses are not called back.                  *)
(***************************************************************************)
SquashedAll(us) == {x \in UopIds : us[x] # NoUop}
Squashed(us) == {x \in UopIds : us[x] # NoUop /\ us[x].spec}

\* The reorder buffer is emptied from the tail; its wrong path is at the end.
UndoneUnwritten(file, us) ==
    LET undone[i \in 0 .. Len(rob)] ==
            IF i = 0 THEN file
            ELSE LET u == us[rob[Len(rob) + 1 - i]]
                 IN  IF ~ u.spec THEN undone[i - 1] ELSE UndoUop(undone[i - 1], u)
    IN  undone[Len(rob)]
UndoneFile(file, us) ==
    LET undone[i \in 0 .. Len(rob)] ==
            IF i = 0 THEN file
            ELSE LET u == us[rob[Len(rob) + 1 - i]]
                     r == undone[i - 1]
                 IN  IF ~ u.spec THEN r
                     ELSE UndoUop(IF u.completed THEN r ELSE WriteUop(r, u), u)
    IN  undone[Len(rob)]

\* Queue q when the uops gone are taken from its tail, up to the first other one.
Trimmed(q, gone) ==
    LET rest == {i \in DOMAIN q : q[i] \notin gone}
    IN  SubSeq(q, 1, IF rest = {} THEN 0 ELSE CHOOSE i \in rest : \A j \in rest : j <= i)

Recover(file, us, es) ==
    LET gone == Squashed(us)
    IN  /\ fetchq' = Trimmed(fetchq, gone)
        /\ uopq' = Trimmed(uopq, gone)
        /\ iq' = iq \ gone
        /\ loadq' = loadq \ gone
        /\ storeq' = Only(storeq, UopIds \ gone)
        /\ events' = es \ gone
        /\ rob' = Trimmed(rob, gone)
        /\ rf' = UndoneFile(file, us)
        /\ spec' = FALSE
        /\ astray' = FALSE
        /\ failed' = IF fetchq' # <<>> THEN failed \cup {"fetch_queue_occupied"}
                                       ELSE failed
        /\ UNCHANGED <<cf, context, evict, mapped, signal, pc, memory>>
        /\ uops' = Kept(us)

\* Core::Writeback for one uop.
canWrite(x) == ~ signal /\ x \in events
Writeback(x) ==
    LET u == uops[x]
        us == [uops EXCEPT ![x].completed = TRUE]
    IN  /\ canWrite(x)
        /\ IF cf.atWriteback /\ u.first
           THEN Recover(WriteUop(rf, u), us, events \ {x})
           ELSE /\ events' = events \ {x}
                /\ rf' = WriteUop(rf, u)
                /\ UNCHANGED <<cf, context, evict, mapped, signal, pc, spec, astray, fetchq,
                               uopq, rob, iq, loadq, storeq, memory, failed>>
                /\ uops' = Kept(us)
-----------------------------------------------------------------------------
\* Thread::canCommit.
canCommit ==
    /\ ~ signal
    /\ rob # <<>>
    /\ LET u == uops[Head(rob)]
       IN  IF u.inst.op = "store" THEN isUopReady(rf, u) ELSE u.completed

\* Thread::Commit for one uop: a uop that should not have been fetched starts the
\* recovery, any other one gives up its previous registers.
CommitRecover ==
    /\ canCommit
    /\ uops[Head(rob)].first
    /\ Recover(rf, uops, events)

\* The context is evicted once the pipeline is empty.
LeavesBefore(left) == evict /\ isPipelineEmpty
Leaves(left) == evict /\ fetchq = <<>> /\ uopq = <<>> /\ left = <<>>

Commit ==
    LET x == Head(rob)
        u == uops[x]
        leaves == Leaves(Tail(rob))
    IN  /\ canCommit
        /\ ~ u.first
        /\ rf' = CommitUop(rf, u)
        /\ rob' = Tail(rob)
        /\ context' = IF leaves THEN None ELSE context
        /\ evict' = (evict /\ ~ leaves)
        /\ mapped' = IF leaves THEN AfterEviction ELSE mapped
        /\ signal' = leaves
        /\ failed' = failed \cup (IF u.spec THEN {"speculative_commit"} ELSE {})
                            \cup (IF leaves /\ spec THEN {"speculative_eviction"} ELSE {})
        /\ UNCHANGED <<cf, pc, spec, astray, fetchq, uopq, iq, loadq, storeq, memory,
                       events>>
        /\ uops' = Kept(uops)

\* Every context has finished and nothing is in flight.
Done ==
    /\ \A c \in Contexts : ~ Running(c)
    /\ context = None
    /\ ~ signal
    /\ \A x \in UopIds : uops[x] = NoUop

Stages ==
    \/ FetchRight \/ FetchWrong \/ Decode \/ Dispatch \/ IssueStore
    \/ CommitRecover \/ Commit
    \/ \E x \in UopIds :
         IssueLoad(x) \/ IssueInstruction(x) \/ MemoryAccessEnd(x) \/ Writeback(x)

Next == SignalledSchedule \/ ExpiredSchedule \/ Stages \/ (Done /\ UNCHANGED vars)

Spec == Init /\ [][Next]_vars

(***************************************************************************)
(* Every stage runs in every cycle and goes through its queue from the     *)
(* oldest uop; functional units become free and memory accesses end.  The  *)
(* actions that change the register file have their conditions written     *)
(* out instead of being left to ENABLED.                                   *)
(***************************************************************************)
FairSpec ==
    /\ Spec
    /\ WF_vars(SignalledSchedule) /\ WF_vars(FetchRight) /\ WF_vars(FetchWrong)
    /\ WF_vars(Decode) /\ WF_vars(IssueStore)
    /\ ([]<>(~ canDispatch) \/ []<><<Dispatch>>_vars)
    /\ ([]<>(~ canCommit) \/ []<><<Commit \/ CommitRecover>>_vars)
    /\ \A x \in UopIds :
        /\ WF_vars(IssueLoad(x)) /\ WF_vars(IssueInstruction(x))
        /\ WF_vars(MemoryAccessEnd(x))
        /\ ([]<>(~ canWrite(x)) \/ []<><<Writeback(x)>>_vars)
-----------------------------------------------------------------------------
(***************************************************************************)
(* Properties.                                                             *)
(***************************************************************************)
\* No assertion of the code fails and no null context is used.
NoPanic == failed = {} /\ rf.ok

\* The outputs of the uops in the reorder buffer: <<uop, output>>.
Renamed == UNION {{<<x, i>> : i \in DOMAIN uops[x].out} : x \in Range(rob)}
KindOf(o) == Kind(uops[o[1]].dst[o[2]])

\* A physical register has as many references as logical registers are mapped to
\* it and uops of the reorder buffer remember it as what they have replaced.  The
\* free list holds the registers without any, each of them once.
CountsExact ==
    \A k \in Kinds :
        /\ \A r \in Physical(k) :
            rf.busy[k][r] =
                Cardinality({l \in Logical : Kind(l) = k /\ rf.rat[l] = r})
                + Cardinality({o \in Renamed : KindOf(o) = k /\ uops[o[1]].old[o[2]] = r})
        /\ Range(rf.free[k]) = {r \in Physical(k) : rf.busy[k][r] = 0}
        /\ IsInjective(rf.free[k])

\* "Flag indicating whether the result of this physical register is still being
\* computed" (RegisterFile.h:77): a register is pending exactly while the uop that
\* writes it has not completed.
PendingExact ==
    \A k \in Kinds : \A r \in Physical(k) :
        rf.pending[k][r] <=>
            \E o \in Renamed : /\ KindOf(o) = k
                               /\ uops[o[1]].out[o[2]] = r
                               /\ ~ uops[o[1]].completed

\* The position of an output in program order.
Older(o, q) ==
    LET place(x) == CHOOSE i \in DOMAIN rob : rob[i] = x
    IN  place(o[1]) < place(q[1]) \/ (o[1] = q[1] /\ o[2] < q[2])
\* A logical register is mapped to what its youngest writer has been given, and
\* every writer remembers what the writer before it has been given.
MappingsChained ==
    \A o \in Renamed :
        LET l == uops[o[1]].dst[o[2]]
            younger == {q \in Renamed : uops[q[1]].dst[q[2]] = l /\ Older(o, q)}
            next == CHOOSE q \in younger : \A z \in younger \ {q} : Older(q, z)
        IN  uops[o[1]].out[o[2]] =
                IF younger = {} THEN rf.rat[l] ELSE uops[next[1]].old[next[2]]

LateLoads == \E mop \in cf.wrong : \E i \in DOMAIN mop : mop[i].op = "load"

\* Renaming, recovery and commit in any order of events keep the books of the
\* register file.  Loads of a wrong path are exempt from PendingExact: they write
\* when they return, even if their register has a new owner by then.
RegistersExact == CountsExact /\ MappingsChained /\ (LateLoads \/ PendingExact)

\* The instructions of context c that are in the pipeline and not on a wrong path,
\* oldest first; an instruction counts until its last uop is committed.
InFlight(c) ==
    LET last(x) == /\ uops[x] # NoUop
                   /\ ~ uops[x].spec
                   /\ uops[x].index + 1 = Len(cf.programs[c][uops[x].position])
        order == Only(rob \o uopq \o fetchq, {x \in UopIds : last(x)})
    IN  IF c = context THEN [i \in DOMAIN order |-> <<c, uops[order[i]].position>>]
                       ELSE <<>>

\* Whatever is fetched, squashed or preempted, each context commits the
\* instructions of its program once and in the order of the program.
Ch == INSTANCE Channel WITH
        Lanes <- ContextIds, Messages <- ContextIds \X (1 .. MaxLength),
        flight <- [c \in ContextIds |-> InFlight(c)],
        used <- UNION {{<<c, i>> : i \in 1 .. pc[c]} : c \in Contexts}
CommitsInOrder == Ch!ChannelSpec

\* "If context eviction signal is activated and pipeline is empty, deallocate
\* context" (ThreadCommit.cc:182): a context that is told to leave does so.  The
\* code only looks after a commit, and a recovery may have emptied the pipeline.
SignalledLeaves == evict ~> ~ evict

\* Without preemption, every context runs to its end.
ContextsFinish == cf.preempt \/ <>Done
=============================================================================
