# TLA+ models of the gpu_speculation simulator

The repository is a fork of Multi2Sim 5, a timing simulator for heterogeneous
CPU-GPU systems. The fork adds speculative pre-execution to the Southern
Islands compute unit: while a wavefront waits for its memory accesses, hints
produced by a compiler choose later instructions that may go ahead. Simulated
hardware is concurrent, so the simulator's own correctness is that of a
concurrent system: coherence events of many accesses interleave in one event
heap, packets compete for buffers, DRAM commands for a data bus, and the stages
of a compute unit or of an x86 thread share buffers, registers and counters.

All paths below are relative to `src/multi2sim/src/`.

## Inventory

| Part | State | Operations | What is hard | What makes it correct |
|---|---|---|---|---|
| Event engine, `lib/esim` | heap of frames, suspension queues, call stack of event chains | Schedule, Next, Call, Return, Wait, Wakeup | a frame with two pending events; events of one cycle run first-in first-out, those of different cycles in any order of latencies | a frame is never scheduled twice; a waiting frame is woken up |
| Memory modules, `memory/Module`, `Cache`, `Directory` | blocks (tag, state, transient tag), directory entries (owner, sharers, lock), ports, access list | FindBlock, LockPort, UnlockPort, LockEntry, UnlockEntry, canCoalesce, Start/FinishAccess | locks and ports held over many cycles, handed over in queues | one way per block, released locks and ports, exact lists |
| Coherence protocol, `memory/SystemEvents.cc` | the frames of all event chains | 58 events in nine chains: load, store, nc_store, find_and_lock, evict, write_request, read_request, invalidate, message | messages in flight in both directions, backtracking and retry, evictions below blocks in use | single writer, inclusion, directory knows all copies, no panic, no deadlock, all accesses complete |
| Compute unit front end, `arch/southern-islands/timing` | fetch, speculation and pre-execution buffers, execution mode, counters and flags of each wavefront pool entry, uops in five units, in-flight counter | Fetch, Issue, Complete of each unit, MapWorkGroup, UnmapWorkGroup | uops move between three buffers while modes alternate; the emulator runs ahead of the timing; work group's end decided by a counter | every uop issued exactly once, exact counter, barriers, clean hand-over of entries, wavefronts end |
| Network, `network` | routing table; messages, packets, buffers and their queues of sleepers, busy times and decisions of links, lanes and switches | configuration (shortest paths, manual routes, cycle search), TrySend, Receive, the events of a packet | full buffers, wakeups, arbitration once per cycle, messages of several packets, routing cycles | shortest routes, cycles reported; nothing lost or duplicated, order kept per pair of nodes, everything arrives |
| DRAM, `dram` | request queues, command queues, planned rows, ages of commands, timers | Read, Write, request processor, scheduler, command return | timing rules between commands of different banks and ranks; two events that must not be scheduled twice nor forgotten | commands legal for the open row, timings kept, one transfer at a time, every request finishes in the order of its bank |
| MMU, guest memory, manager, `memory` | page tables, memory image, free list | translate, map, malloc, free | allocator boundaries | disjoint allocations |
| x86 pipeline, `arch/x86/timing` | rename tables and register counts; fetch, uop, reorder, instruction, load and store queues; mapped contexts | Fetch, Decode, Dispatch, Issue, Writeback, Commit, Recover, Schedule, EvictContext | recovery after misprediction, with memory accesses in flight and a turned register stack; preemption of contexts | register counts and mappings exact, instructions commit once and in order, contexts end |
| Emulators, disassemblers, runtimes, libraries | instruction semantics, guest I/O | | | |

Interaction: a compute unit (or an x86 thread) calls `Module::Access` with a
pointer to a *witness* counter and waits for it. The access becomes an event
chain of the memory system; chains in different modules exchange messages over
a network, whose events run in the same engine. `PROJECT.json` lists every part
under `components` and what can go wrong, at its line, under `hazards`.

## Modules

| Module | Models | Composes |
|---|---|---|
| `Esim` | engine: `Schedule`, `Call`, `Return`, queues | |
| `MemModule` | cache, directory, ports, access list of a module | `Esim` |
| `NMOESI` | the event handlers of `SystemEvents.cc`, one action per event | `MemModule` |
| `MCNMOESI` | topologies and workloads for TLC | `NMOESI` |
| `ComputeUnit` | front end, execution units and work groups of a compute unit | |
| `MCComputeUnit` | kernels and hint files for TLC | `ComputeUnit` |
| `SeqLemmas` | lemmas about sequences used as buffers, and about least and greatest numbers | |
| `ComputeUnit_proof` | theorems about types, stranded uops and the books of the uops: conservation, in-flight counter, hand-over, barriers | `ComputeUnit`, `SeqLemmas` |
| `Channel` | abstract: lanes that lose, invent, duplicate and reorder nothing | |
| `RoutingTable` | configuration of a network: costs, next hops, manual routes, cycle search | |
| `Network` | the events of messages and packets; implements `Channel` | `RoutingTable`, `Channel` |
| `MCNetwork` | topologies and messages for TLC | `Network` |
| `RoutingTable_proof` | lemmas: Floyd-Warshall, its second part, and the depth-first search for cycles | `Network`, `SeqLemmas` |
| `Network_proof` | theorems about types and room, conservation of packets, sleeping events, shortest routes, warnings of cycles and panics | `RoutingTable_proof` |
| `Dram` | controllers, channels, banks and schedulers; implements `Channel` | `Channel` |
| `MCDram` | DRAM geometries, timings and requests for TLC | `Dram` |
| `Dram_proof` | theorems about types, timers, rows, timings and the data bus; `Dram` implements `Channel` | `Dram`, `SeqLemmas` |
| `RegisterFile` | renaming: operators on the register file as a record | |
| `X86Thread` | the stages of a hardware thread, recovery, contexts; implements `Channel` | `RegisterFile`, `Channel` |
| `MCX86` | programs for TLC | `X86Thread` |
| `X86Thread_proof` | theorems about the order of commits and the assertions of the stages | `X86Thread`, `SeqLemmas` |
| `RegisterFile_proof` | lemmas: what renaming, writing, undoing and committing a uop do to the books of the registers | `RegisterFile`, `SeqLemmas` |
| `X86Registers_proof` | theorems about the registers of a thread and its panics | `X86Thread_proof`, `RegisterFile_proof` |

**Memory system.** The state of `NMOESI` is that of the C++ objects: `frames`
are the live `Frame` objects, named by the path of calls that created them (so
that a frame's parent is the front of its name), `now` the part of the heap
that belongs to the current cycle, `later` the rest. An action takes the head
of `now` and does all that the handler does for that event. `Esim` and
`MemModule` are written as operators on the state as a record, because a
handler makes several calls in sequence and each sees the effect of the
previous one; `Become` turns the final record into the primed variables.
Assertions and panics of the code add to `failed`.

What is abstracted: latencies (an event with a latency runs in some later
cycle, in any order with the others: `NewCycle`); a network is a delay, and one
message per node and cycle (`SerialDelivery`); one set per cache, because sets
do not share directory entries, and one sub-block per block; an address is a
block address; the replacement policy may choose any way; statistics and traces
are left out. `unsaved` is a history variable: the blocks whose last store has
not reached main memory.

**Compute unit.** A wavefront executes straight-line code, so the program
counter identifies a uop. Fetch is six actions, one for each outcome of the
entry's visit (new instruction; pre-executed or speculated uop taken back; hint
ahead, behind, or leading nowhere), Issue three, completion three. A unit is a
queue that keeps its order. Which entry a cycle visits, whether the unit is
free and whether a register is reserved is left open. `completed` and `hinted`
are history variables. The fork's default, `issue_mode` 1, is modelled.

**Network.** A network is configured before it carries traffic, as
`Network::ParseConfiguration` does: `FloydWarshallCosts`, `UpdateRoute` for
each step of a Routes section, `FloydWarshallHops` or `UpdateCost`, then the
depth-first `Search` for a cycle of buffers, each an action over the table as
it is then. After that, clients (external) call `TrySend` at any time and every
event handler is an action: `LinkTransfer`, `BusTransfer` and `Forward` move a
packet between buffers, `InputBuffer` and `OutputBuffer` dispatch it,
`ReceivePacket` assembles a message, `ClientReceives` and `ClientRetries` are
what the client's event does. Time is exact here: `agenda` is the engine's heap
in scheduling order with the cycles left of each event, `busy` counts down, and
a decision of an arbiter is `fresh` for one cycle. Latencies follow from sizes
and bandwidths as in the code. Early returns that wait put the event in `queue`
of the buffer whose change wakes it; `Move` wakes all of them, as
`RemovePacket` does. Left out: the INI reader, traces and statistics.

**DRAM.** `AddRequest` decodes the address and puts the request in its
controller; `RunRequestProcessor` hands one to its bank, which plans the
commands against `future`; `RunFrontCommand`, `PutOff` and `NothingToRun` are
the three outcomes of `RunScheduler`; `CommandReturn` ends a request. `Rules`
is the table of `CalculateReadyCycle`, row by row, and `Timing` that of
`ParseConfigurationTiming`. Both are kept because they are two tables, written
by hand, that must agree. `since` replaces the cycle of the last command by its
age, which stops at `MaxAge`: an age above every timing makes no difference.

**x86 thread.** A uop is a number in `1 .. MaxUops`, reused when the uop has
left all queues; the sequences are the queues of the code, and the instruction
and load queues, whose order only decides who is tried first, are sets.
`RegisterFile` keeps
the three kinds of physical registers with their `busy` counters, pending
flags, free lists, the mapping of logical registers and the top of the
floating-point stack; flags share the integer registers, a uop's repeated
outputs count separately, and outputs are undone last to first. Fetch on the
right path follows the program; `FetchWrong` is any macro-instruction of
`cf.wrong` once a branch was predicted wrongly. A branch may be predicted
rightly or wrongly whatever the predictor's tables are. `Recover` squashes in
all queues but leaves the memory accesses in flight, as the code does.
The fetch queue, the uop queue and the reorder buffer are squashed from the
tail, up to the first uop of the right path (`Trimmed`), the others throughout.
`Schedule` maps a context when the thread is free, evicts the ended one, and
with `preempt` signals one whose quantum has expired.

**Channel** is the abstract specification of three of these systems, by
refinement mappings stated in each module: the lanes are the pairs of end nodes
of a network (`IsChannel`), the banks of a DRAM system (`BanksInOrder`) and the
contexts of an x86 thread, where an instruction is sent when it is emulated and
delivered when it commits (`CommitsInOrder`; instructions of a wrong path must
never be delivered).

## Runs

| Run | Instance | Checks | Result |
|---|---|---|---|
| `coherent_flat` | 2 L1, main memory of 2 ways, 2 blocks, 3 loads or stores, 2 delayed events per cycle | types, `NoPanic`, `SingleWriter`, `OneWayPerBlock`, `Inclusion`, `DirectoryCovers`, `NoStuckAccess`, `WitnessSeen`, `NoLostWrite` | holds, 1.1 million states |
| `coherent_shared` | 2 L1 over an L2 and a main memory of one way each, 2 blocks; the third access a store of the second cache to the second block; 1 delayed event per cycle; fairness | `SingleWriter`, `Inclusion`, `AccessesComplete` | holds, 0.1 million states |
| `noncoherent` | 2 L1, one-way main memory, 3 accesses of all kinds | `NoPanic`, `WitnessSeen` | holds, 0.9 million states |
| `speculation` | 2 wavefronts, 9 instructions, 2 slots, endless work groups, fairness | types, `NothingStranded`, `UopsConserved`, `InflightExact`, `CleanUnmap`, `BarrierLockstep`, `WavefrontsEnd` | holds, 0.3 million states |
| `network` | 8 networks with 3 messages (star, tight star, line of two switches, bus of one and two lanes, virtual channels, bus between links, fixed latency), 65 topologies that are only configured; fairness | types, `NoPanic`, `PacketsConserved`, `SleepersBlocked`, `RoutesShortest`, `CycleWarned`, `IsChannel`, `MessagesArrive` | holds |
| `dram` | 2 ranks of 2 banks of 2 rows, open and closed pages, oldest first and round robin; 2 controllers of 2 channels; 3 reads or writes; fairness | types, `RowsOpen`, `BusExclusive`, `Awake`, `TimingsKept`, `BanksInOrder`, `RequestsFinish` | holds |
| `x86` | 7 programs of 3 or 4 instructions, recovery at writeback and at commit, 2 contexts in turn; fairness | `NoPanic`, `RegistersExact`, `CommitsInOrder`, `ContextsFinish` | holds, 0.2 million states |
| `eviction_deadlock` | 2 L1, two-way L2, one-way main memory, 3 accesses | `NoStuckAccess` | violated |
| `nc_deadlock` | as `noncoherent` | `NoStuckAccess` | violated |
| `wait_order` | 1 wavefront, 3 waits | `WaitsBefore` | violated |
| `unmap` | 2 wavefronts, no hints | `FinishedIsUnmapped` | violated |
| `x86_evict` | 2 contexts with branches, preempted; fairness | `SignalledLeaves` | violated |

Bounds. `Workload` gives the number of accesses (`MaxAccesses`) and what each
may be. Three accesses over two blocks and caches of one way are enough for a
conflict on the block, an eviction by the third access and a request that meets
both; the caches and the blocks are alike, so the first access is fixed to the
first cache and block. `MaxSimultaneous` bounds the delayed events that fall in
one cycle: with one, all orders of events are explored, with two also the
interleaving of two chains within a cycle, which is where frames that are woken
up compete. `WitnessBound` caps the witness counter. The kernel of
`speculation` has a wait in speculation range of another, hints forward and
backward, and two consecutive barriers; buffers of two slots fill up. In
`network`, three messages are the least for two that compete for a buffer or a
lane and one that follows on the same route; the sizes are chosen so that
buffers are full with one message, messages are split in two and three packets, and
transfers take one or more cycles. The configured topologies are all 64 sets of
links between three switches, and a ring of four, whose routes form a cycle of
buffers. In `dram`, a request to a bank in use meets every relation of rows,
banks and ranks, and the timings, at most `MaxAge`, are short but keep the
order of the defaults. In `x86`, `MaxLength` bounds the programs; `MaxUops` the
uops that exist at a time, which only Fetch can meet; queues of one to four
entries fill up, so that every stage is held up by the next one. Deadlock
checking is off where the system may stop: in `noncoherent` (`nc_deadlock`
shows how), in `speculation`, `wait_order` and `unmap` (a work group that is
not unmapped), and in `x86_evict`.

Fairness. `NMOESI`: the engine runs all events of a cycle (weak fairness of
`RunEvent`), and an event scheduled for a later cycle is eventually due (strong
fairness, for each access, of the cycles that run one of its events, since a
retry comes back in ever new cycles; its latency is random, "to avoid livelock
situations", `Module.cc:1358`). `ComputeUnit`: Fetch starts at the entry
fetched last and moves on when that entry is full, finished or has no hint
target; Issue moves its first entry by one at each call; the units advance in
every cycle and memory accesses return. Hence weak fairness for each
wavefront's Fetch and Issue and each unit's completion. The dispatcher has
another work group (`MapWorkGroup`). `Network` and `Dram`: the engine goes on
while there is an event (weak fairness of `Step`); clients need not send
anything, and time is exact, so that no fairness among events is assumed.
`X86Thread`: every stage of a core runs in every cycle and memory accesses
return, hence weak fairness for each stage, for the stages that work on a given
uop once for each uop; for the three with the largest state the condition of
weak fairness is written out with the code's own guards (`canDispatch`,
`canWrite`, `canCommit`). A quantum need not expire.

Some properties name what they exclude. `Exclusive` leaves out a block whose
non-coherent store is in progress, and `Leaving` a block that was written back
and awaits its acknowledgement: in both cases the lower directory is updated
one message before the block, which stays locked. `RegistersExact` leaves out
the pending flags where a wrong path has loads, and `ContextsFinish` the
preempted contexts, for the reasons given below.

## What the violations show

* `eviction_deadlock`: down-up requests block. A store holds a block's entry in
  the L2 and waits for an entry of the second L1, locked by a load of another
  block; that load makes main memory evict the first block and waits for the L2
  entry.
* `nc_deadlock`: `nc_store_action` retries without unlocking the entry when the
  eviction of `nc_store_writeback` has failed; the access waits for itself.
* `wait_order`: uops put aside in a second wait go behind younger ones, so that
  an instruction without a hint is issued before an older `s_waitcnt`.
* `unmap`: the end of a work group is tested only when an `s_endpgm` completes;
  a uop of another unit in flight at that time keeps it mapped for ever.
* `x86_evict`: a context that is told to leave is evicted at the end of
  `Thread::Commit` when the pipeline is empty. When a recovery empties it,
  nothing looks: Fetch refuses the context, and Commit is not called without a
  uop.

Further observations, made while modelling and checked with TLC on instances
that the runs leave out:

* A store that hits a block in state S increments its witness at the hit and
  again when its write request ends (`memory/SystemEvents.cc:1134` and
  `:2501`).
* `Network::Receive` removes packets when a message is complete. Two messages
  of two packets, from two senders, in an input buffer with room for two
  packets, wait for each other's second packet for ever.
* A manual route over a bus is given the buffer at the far end of the bus
  (`network/RoutingTable.cc:585`), and the first packet panics. Manual steps
  that lead in a circle make `UpdateManualRoutingCost` loop for ever (`:642`).
* `dram/Channel.cc:279` keeps a read behind a write of another rank by the
  distance of two reads. With tCWD > tCAS the data of both collide;
  `TimingAssumption` excludes this, the code does not.
* A load of a wrong path that is still in the memory system at a recovery
  writes its register when it returns, and clears the pending flag of a newer
  owner (`arch/x86/timing/ThreadRecover.cc:153`, `Core.cc:357`).

By reading only: `Thread::Schedule` uses the context after `EvictContextSignal`
may have evicted it at once (`ThreadScheduler.cc:231-262`); prefetch uops reach
a panic in `InsertInLoadStoreQueue`; `CheckRegisterFile` is never called
(`RegistersExact` implies what it asserts); the scoreboard of the compute unit
records destination registers as sources (`Scoreboard.cc:239`);
`eraseSpeculationList` erases from the list of normal wavefronts
(`WavefrontPool.h:298`).

## Proofs

**Compute unit.** `ComputeUnit_proof` proves for every kernel, hint file, set of
wavefronts and number of slots:

* `TypeCorrect`: `Spec => []TypeOK`. The lemmas follow the actions. The
  interesting part is that a hint's target stays in the kernel
  (`HintTargetBefore`), that what is put aside is a sequence of uops of the
  kernel (`SequenceOf`, `RemoveAtType`), and that the oldest speculated uop
  exists (`OldestExists`, by well-foundedness of the naturals).
* `NeverStranded`: `Spec => []NothingStranded`. `NothingStranded` is not
  inductive: without a hint file, FetchNew does not look at the two buffers.
  `StrandedInv` adds the types and `UnusedWithoutHints` (the buffers are empty
  then). The emulator only finishes in FetchNew, which needs both buffers
  empty, or by a hint to the last instruction, which `HintAssumption` excludes.
* `UopsAreConserved`, `InflightIsExact`, `UnmapIsClean`, `BarriersInLockstep`,
  from one inductive invariant, `UopsInv`. That a uop is in one place follows
  only if no buffer and no unit holds a uop twice and no two of them share one:
  `PlacesInv` says that each is injective, that they are disjoint and that the
  three buffers hold what is emulated and not issued. `CountersInv` adds that
  `inflight_instructions` and `lgkm_cnt` count the uops of those places.
  Unmapping at zero is clean because nothing is behind `s_endpgm` in the fetch
  buffer and a unit cannot hold anything once it is unmapped (`EndInv`).
  Lockstep is not inductive either: `SamePassed` says that all wavefronts have
  passed the same number of barriers, where one that waits at a barrier has
  issued one more than it has passed.

**DRAM.** `Dram_proof` proves for every set of configurations:

* `TypeCorrect` and `NeverAsleep`. `DecodeAddress` leads to a bank that exists
  because the sizes are powers of two; a deferred choice (`next`) is a bank
  with a command because nobody else takes commands from a channel's queues.
* `RowsAreOpen`. `RowsOpen` is inductive with the types: the row that a queue
  leaves open is what `future` says, so that the plan for a new request
  (`CommandsShape`) continues it.
* `TimingsAreKept`, the action property. `CalculateReadyCycle` looks at ranks
  where the timing matrix speaks of banks; `RankAges` (the age of a rank is at
  most that of each of its banks) and `RulesCover` (each entry of the matrix
  follows from a rule) close the gap.
* `BusIsExclusive`, by `BusInv`: the data of two commands of a channel ends at
  least a burst apart (`BurstsApart`), which follows for a new command from the
  matrix, if the ages remember each running data command or a later one
  (`Remembered`) and commands are in the queue of their bank (`AtHome`).
* `BanksServeInOrder`: `Spec => Ch!ChannelSpec`, the
  refinement. `OrderInv` says that a request that is not finished waits in the
  controller, in the queue of its bank or for its data (`PendingInv`); that
  those further on are older (`IncomingInv`, `QueueInv`, `RunningFirst`); and
  that of two that wait for their data the older one gets it earlier
  (`RunningOrdered`). The last part depends on the timings: a read is faster
  than a write, and only the write-to-read time keeps it from overtaking
  (`LeftFollows`). Adding a request is then `Send`, the return of a data
  command `Deliver` of the least unfinished request (`InOrderTail`), and all
  other steps stutter.

**Network.** `Network_proof` proves for every set of networks, that is for every
topology, routing table, message and size:

* `TypeCorrect`, which includes that no buffer holds more bytes than its size,
  `PacketsAreConserved` and `SleepersAreBlocked`, from one inductive invariant,
  `NetInv`. None of the three is inductive. `EventsOK` says which frames have an
  event (`Expected`: a packet that is sent and not assembled, a client that
  tries to send or whose message is complete) and that none has two, in the heap
  or in the queues (`Shape`). `KindsOK` adds what the event of a frame may be;
  without it, an input event could run for a packet in an output buffer, or the
  client's event before the last packet. `PlacesOK` says that a packet is in
  the buffer it points to, once, and in no other, which makes the bytes of a
  buffer those of a set of packets (`BytesIs`, `BytesAppend`, `BytesMonotone`),
  and `TableInv` that the buffers of the routing table exist and do not lead
  back to their node: a switch that forwarded a packet to the buffer it is in
  would wake up the sleepers of that buffer and leave it as full as before.
* `SleepOK` is the heart of `SleepersAreBlocked`: a reason to sleep is only
  taken away by a packet that leaves the buffer, and that wakes up everybody
  (`WakeEffect`, `BlockedKept`). Receiving a message empties the queues of all
  buffers that its packets were in (`ReceivedFromBuffers`); `Woken` schedules
  each sleeper once although a buffer may come several times in the list
  (`WaitingIs`, `WokenEvents`).
* The lemmas follow the handlers, one per early return: `Reposted` (try again
  later), `Suspended`, `Moved`, `SentDirectly` and `SentToBuffer`, `ComesBack`
  and `WaitsToSend`, `Collected`, `ReceivedDirectly`, `ReceivedFromBuffers`,
  `Ticked`, `Panicked`; `RoutingStep` covers the configuration.
* `RoutesAreShortest` and `CyclesAreWarned`: the two action properties about the
  configuration, from `RoutesInv`, one part for every point that
  `ParseConfiguration` can have reached. After k rounds of Floyd-Warshall a cost
  is the length of a walk, and no walk through the first k nodes is shorter
  (`CostOK`; `RelaxCosts` splits a walk where it passes through node k). After
  the last round costs are distances (`CostsExact`: a walk that repeats a node
  is not a shortest one). For the second part, each node to which `NextHop` goes
  back lies on a shortest route and is nearer to the source (`NextHopIs`), so as
  many steps as there are nodes suffice, although the table is being changed by
  the entries done before (`HopStep`). A complete table has the shortest paths
  (`PathIs`, `DoneIsShortest`).
* The search for cycles is `DfsInv`: the stack is a path of the graph, what has
  been left leads only to what has been left, and no cycle is in there
  (`LeftOK`). Each step of the search keeps it (`StackPushed`, `StackSkipped`,
  `StackPopped`); at the end everything has been left, or the stack and an edge
  back into it are a cycle (`SearchStep`). The graph of `hasCycle` has all
  dependencies of packets (`DependenciesAreEdges`). `TrafficTouches` says that
  no handler changes the table afterwards.
* `SoundNeverPanics` and `RoutableNeverPanics`: no handler panics, if the
  configuration is one that can work. The code does not check this in advance:
  a message may be too big for every buffer, its destination out of reach or its
  own source, or a route may end on the way or lead through an end node, and all
  of them are found by a panic or an assertion in `TrySend`, `TransferPacket`,
  `Forward` or the input handler. So the theorems say for which configurations
  it cannot happen. `Sound` is about the finished table: each message fits and
  there is a set of nodes, from its source to its destination, in which the
  table leads on (`Guides`). `Routable` is about the configuration alone:
  automatic routes, messages that fit and can reach their destination, and no
  end node that would shorten a route. For `Routable` networks the configuration
  does not fail either (`EdgesJoinVertices`), and their table is sound
  (`RoutableIsSound`: the nodes with a finite cost, without end nodes;
  `NotThroughEnds`). All networks of the run but `Channels`, which has manual
  routes, are routable, and the table of `Channels` is sound.
* The invariant behind both is `RouteInv`: a packet under way is in a buffer of
  a node on its route, and if it is an output buffer, in the one that the table
  names there (`InPlace`); a packet with an output event is in an output buffer
  and one with a receive event, or that is assembled, is at its destination
  (`FitsEvent`, `OnRoute`). The last part is what `Receive` relies on: all
  packets of a complete message are found in buffers of the destination. A
  lemma for each handler shows that it keeps `RouteInv` and does not panic
  (`Fine`), so that the two facts need each other only through the state before
  the step.

**x86 thread.** `X86Thread_proof` proves for every set of configurations, that is
for all programs, wrong paths and queue sizes, both kinds of recovery, with and
without preemption:

* `AssertionsHold`: `Spec => []StagesAgree`. The fetch queue is empty after a
  recovery, Decode never begins inside a macro-instruction, `Thread::Schedule`
  does not look at a context it has just evicted, and no context is evicted in
  speculative mode. This is the part of `NoPanic` that is about the queues.
* `CommitOrder`: `Spec => CommitsInOrder`, the refinement of `Channel`.

Both need `ThreadInv`. `PathInv` says that the reorder buffer, the uop queue and
the fetch queue, in this order, are one path of different uops that exist.
`Ordered` says that the uops of the wrong path are the end of that path, that it
has them exactly in speculative mode and that it begins with the one marked
`first`: only then does squashing each queue from its tail take away exactly the
wrong path (`TrimmedOnly`, `OnlyConcat`, `OrderedWrong`). `WaitInv` says where a
uop waits; its last part is the one that is hard to see in the code: if
recovery happens at writeback, the marked uop is still in the path and not
completed, although its recovery may be behind other writebacks and a squashed
load of an earlier wrong path may still come back from memory. `EndInv` says
that a context that has ended still has a uop in the pipeline and a pending
signal, or has been told to leave. In the refinement `FetchRight` is `Send`, the
commit of an instruction's last uop `Deliver`, and all other steps stutter:
`FlightTrim` (a recovery takes no instruction of the right path), `FlightTail`
(a commit takes the oldest one), `FlightNew` (a fetch adds the youngest one).

**x86 registers.** `X86Registers_proof` proves, for register files of every size
as well:

* `RegistersHold`: `Spec => []RegistersExact`. The counters, the free lists and
  the mappings are those of the uops that are renamed and not committed; where
  no wrong path has loads, so are the pending flags.
* `NeverPanics`: `Spec => []NoPanic`, for programs without prefetches. No
  assertion of the register file or of the stages fails. Of a program with a
  prefetch it would be false, because `InsertInLoadStoreQueue` panics on it.

`RegisterFile_proof` is about one uop. `Books` says of any set of renamed outputs
what must hold of the file, and adds three things to what `RegistersExact` says.
Outputs that share a register belong to one uop (`Owned`), since flags take the
integer register of the same uop: this is why the register of a uop that
completes has no other writer. A pending register has a uop that will write it
(`PendingSound`): this is why a register is not pending when a commit or an undo
frees it. And registers that are requested and not mapped yet are neither free
nor counted (the last argument of `Books`), which is the state between
`RequestIntegerRegister` and the assignments to the flags. `RenameBooks`,
`WriteBooks`, `UndoUopBooks` and `CommitUopBooks` then show what the four
operations do to the books. The order matters in two of them: undoing goes from
the last output to the first, so that a register that is an output twice gets
back the older mapping, and it only works for the youngest uop
(`YoungestOutput`); committing only works for the oldest (`OldestOutput`).

`X86Registers_proof` follows the uops through the stages. `Exact` is `Books` for
the reorder buffer, with `Turns`: there is a sequence of tops of the
floating-point stack, one after each uop of the buffer, by which its outputs
were renamed and which ends at the current top. Without it, an undo could not be
shown to restore the mapping of the register that the rename had changed, since
both compute it from `floating_point_top`. `SquashExact` repeats the undo over
the squashed end of the reorder buffer, which `Trimmed` and the order of the
wrong path (`ThreadInv`) make its youngest uops. `StageInv` says that a uop
completes once. The pending flags need more: `PendingComplete` and `InRob`, which
says that a uop on its way to the writeback is still in the reorder buffer unless
it is a store or a load. A load of a wrong path that returns after its squash
breaks both, which is what `LateLoads` excludes in `RegistersExact`; the
assertions need only `PendingSound`, which such a load cannot break.

Assumptions. `KernelAssumption` (one `s_endpgm`, at the end), `HintAssumption`
(a hint leads to an instruction before the last one; this is the compiler's
obligation and the code does not check it), `SizeAssumption`. In `Dram`:
`GeometryAssumption` (powers of two, as `Log2` needs), `WorkAssumption` (the
form of requests), `TimingAssumption` (natural numbers, tCWD <= tCAS, see
above), `BurstAssumption` (data takes at least one cycle; with a burst of zero
two commands could return in the same cycle in either order),
`AgeAssumption` (`MaxAge` is at least as large as every timing) and
`LanesAssumption` (the lanes and messages of `Channel` contain the banks and
requests). In `Network`: `NetAssumption` (nodes
numbered as they are added, end nodes and messages as the configuration reader
accepts them, a link with as many
buffers at both ends as `Link::Link` creates, positive bandwidths and sizes; a
manual route step leads to another node, which the code does not check). In
`X86Thread`: `ConfigAssumption` (a macro-instruction has at least one
micro-instruction, which `FetchInstruction` ensures with a nop; `MaxLength` and
`ContextIds` bound the programs and contexts; a store has no outputs, which
leaves out one of CMPXCHG8B, `emulator/ContextIsaMisc.cc:536`, whose output is
only read by the store added after it). In `RegisterFile`: `RegisterAssumption` (the kinds of registers are
disjoint, an integer register precedes the flags, the stack registers are
numbered from zero, and each kind has a physical register for every logical
one, as `RegisterFile.cc:230` demands and more). TLC evaluates all of them in the
runs of `MCComputeUnit`, `MCDram`, `MCNetwork` and `MCX86`.

Loops. Several handlers go through the outputs of a uop, and the models write
such a loop as a recursive function over `0 .. n` (`PlainRenamed`,
`FlagsRenamed`, `Undone`, `Committed`, `UndoneFile`). What it computes can be
proved although induction over data is out of reach in general: one lemma for
each definition shows that the function exists and unfolds (`PlainIs`,
`FlagsIs`, `UndoneIs`, `CommittedIs`, `UndoneFileIs`), by the least length at
which it would not; an invariant of the loop then holds at all its indices by
`UpTo` of `SeqLemmas`, a set of numbers closed under successor.

Only model-checked: everything about `NMOESI`; `IsChannel` of `Network`; the
liveness properties
`WavefrontsEnd`, `RequestsFinish`, `MessagesArrive` and `ContextsFinish`
(fairness is beyond the prover). In `NMOESI` the state is a record that handlers
change by a series of operators, and its invariants speak of messages in flight
in all nine chains; an inductive invariant would list a case for every event.
`IsChannel` of `Network` does not hold of every set of messages: of two messages of a pair, one that the client receives by an
event of its own and one that is received automatically, the younger automatic
one may be received first if both are sent in the same cycle and the older one
waits for the client's event. The messages of a pair in the run are therefore
received in the same way.

## Not modelled, and the plan

1. (done) `Esim`, `MemModule`, `NMOESI`; `ComputeUnit` and its first theorems.
2. (done) `Channel`, `RoutingTable`, `Network`; `Dram`; `RegisterFile`,
   `X86Thread`.
3. (done) Proofs of the invariants of `ComputeUnit` and `Dram`, and of the
   refinement `BanksInOrder`.
4. (done) Proofs of the types, `PacketsConserved`, `SleepersBlocked`,
   `RoutesShortest`, `CycleWarned` and `NoPanic` of `Network`, of the refinement
   `CommitsInOrder`, and of `RegistersExact` and `NoPanic` of `X86Thread`. Next:
   `SingleWriter` of `NMOESI` for a small tree.
5. An abstract coherent memory for `NMOESI`; `NMOESI` over `Network` instead of
   a delay.
6. `ComputeUnit`: `issue_mode` 0, the scoreboard, taken branches, fetch
   latency; the vector memory unit with its witness, composed with `NMOESI`;
   the dispatcher of `Gpu.cc`.
7. `memory/Manager` and `Mmu`; several hardware threads and the trace cache of
   an x86 core.

Left out for good: instruction semantics and disassembly of six architectures
(data without control, by far the most of the repository's lines), system call
emulation, configuration files and statistics (I/O), the runtimes and vendored
headers. Parts of modelled components left out so far: in `NMOESI` prefetch,
flush and local memory chains, MSHR limits and sub-blocks; in `Network` the
stand-alone traffic generator; in `Dram` the action files of the stand-alone
simulator; in `X86Thread` the trace cache, the tables of the branch predictor,
functional units, prefetch instructions, suspended contexts, affinity and
priorities.
