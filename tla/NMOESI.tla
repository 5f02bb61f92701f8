------------------------------- MODULE NMOESI -------------------------------
(***************************************************************************)
(* The coherence protocol of the memory hierarchy: the event handlers of   *)
(* memory/SystemEvents.cc, one action per event.                           *)
(*                                                                         *)
(* An access (load, store, non-coherent store) enters at a module without  *)
(* modules above it and runs as a chain of events.  It locks a directory   *)
(* entry in its module, asks the module below it for the block             *)
(* (read_request, write_request, up-down), which locks its own entry,      *)
(* evicts a victim, invalidates or downgrades the copies above it (down-up *)
(* requests) and replies.  An up-down request that meets a locked entry    *)
(* returns an error and its access backtracks; a down-up request waits.    *)
(*                                                                         *)
(* Time is abstract: an event with a latency, or a message in a network,   *)
(* happens in some later cycle.  The events of one cycle run in the order  *)
(* in which they were scheduled.                                           *)
(***************************************************************************)
EXTENDS MemModule

CONSTANTS
    Workload,           \* sequence of sets: what the i-th access may be
    MaxSimultaneous,    \* bound: delayed events that fall in one cycle
    SlowDirectories,    \* modules with a nonzero directory latency
    SerialDelivery      \* TRUE: a node receives one message per cycle

ASSUME BoundsAssumption ==
    /\ \A i \in DOMAIN Workload : \A x \in Workload[i] :
         /\ x.module \in Modules /\ x.address \in Addresses
         /\ x.type \in {"load", "store", "nc_store"}
    /\ MaxSimultaneous \in Nat \ {0}
    /\ SlowDirectories \subseteq Modules /\ SerialDelivery \in BOOLEAN

\* Bound: the accesses issued in a behaviour.
MaxAccesses == Len(Workload)

VARIABLES
    frames, now, later, failed,     \* the event engine, see Esim
    blocks,         \* [m][w]: tag, state and transient tag of a cache block
    entries,        \* [m][w]: owner and sharers of a directory entry
    locks,          \* [m][w]: access that locks the entry, and its waiters
    ports,          \* [m]: frames that hold a port, and the waiting ones
    accesses,       \* [m]: the access list, oldest first
    issued,         \* number of accesses issued so far
    witness,        \* the counter behind the witness pointer of an access
    unsaved         \* history: blocks written since main memory last got them

vars == <<frames, now, later, failed, blocks, entries, locks, ports, accesses,
          issued, witness, unsaved>>

-----------------------------------------------------------------------------
\* The frame that runs and its parent.
Cur == Head(now)
Fr == frames[Cur]
Parent == Front(Cur)

\* The state with the running event taken from the heap (ProcessEvents).
S == [frames |-> frames, now |-> Tail(now), later |-> later, failed |-> failed,
      blocks |-> blocks, entries |-> entries, locks |-> locks, ports |-> ports,
      accesses |-> accesses, issued |-> issued, witness |-> witness,
      unsaved |-> unsaved]

Become(s) ==
    /\ frames' = s.frames /\ now' = s.now /\ later' = s.later
    /\ failed' = s.failed /\ blocks' = s.blocks /\ entries' = s.entries
    /\ locks' = s.locks /\ ports' = s.ports /\ accesses' = s.accesses
    /\ issued' = s.issued /\ witness' = s.witness /\ unsaved' = s.unsaved

\* Event ev runs next.  After a panic nothing runs.
At(ev) == failed = {} /\ now # <<>> /\ Fr.ev = ev

\* Engine::Next without and with a latency.
Then(s, ev)  == Schedule(s, Cur, ev)
Delay(s, ev) == ScheduleAfter(s, Cur, ev)

\* Network::TrySend to the receive event ev.  A full buffer is retried in a
\* later cycle, which is one more delay.
Send(s, ev) == ScheduleAfter(s, Cur, ev)

Call(s, key, r, ev, ret) == CallFrame(s, Cur, key, r, ev, ret)
Return(s) == ReturnFrom(s, Cur)

\* Retry in getRetryLatency() cycles, a random number that can be zero.
Retry(s, ev) == Become(Then(s, ev)) \/ Become(Delay(s, ev))

\* Frame::setReplyIfHigher.
ReplyIfHigher(s, f, r) ==
    [s EXCEPT !.frames[f].reply = IF r > @ THEN r ELSE @]

ParentError(s) == [s EXCEPT !.frames[Parent].error = TRUE]
NoParentError(s) == [s EXCEPT !.frames[Parent].error = FALSE]

\* (*witness)++.  Bound: the model counts up to WitnessBound, "more than once".
WitnessBound == 2
IncWitness(s) ==
    IF Fr.witness
    THEN [s EXCEPT !.witness[AccessId(Cur)] = IF @ < WitnessBound THEN @ + 1 ELSE @]
    ELSE s

\* Blocks written by a store, and their arrival in main memory.
Written(s, tag) == [s EXCEPT !.unsaved = @ \cup {tag}]
DataArrives(s, m, tag) ==
    IF IsMainMemory(m) THEN [s EXCEPT !.unsaved = @ \ {tag}] ELSE s

-----------------------------------------------------------------------------
\* An access to module m comes from the processor: Module::Access.
Access(m, a, type) ==
    /\ failed = {}
    /\ \A i \in DOMAIN now : frames[now[i]].ev \in {"load", "store", "nc_store"}
    /\ HighModules[m] = <<>>
    /\ issued < MaxAccesses
    /\ [module |-> m, address |-> a, type |-> type] \in Workload[issued + 1]
    /\ CanAccess([ports |-> ports], m)
    /\ LET f == <<issued + 1>>
           r == [NewFrame(m, a) EXCEPT !.ev = type, !.witness = TRUE]
       IN  /\ frames' = [g \in DOMAIN frames \cup {f} |->
                            IF g = f THEN r ELSE frames[g]]
           /\ now' = Append(now, f)
           /\ issued' = issued + 1
    /\ UNCHANGED <<later, failed, blocks, entries, locks, ports, accesses,
                   witness, unsaved>>

(***************************************************************************)
(* A new cycle: some of the delayed events fall in it.  With serial        *)
(* delivery no two of them are messages for the same node of a network     *)
(* (one link into each end node); with an ideal network they may be.       *)
(***************************************************************************)
ToTarget == {"evict_receive", "write_request_receive", "read_request_receive",
             "message_receive"}
ToModule == {"evict_reply_receive", "write_request_finish",
             "read_request_finish", "message_finish"}

\* The end node that receives the message of frame f.
Destination(f) ==
    LET r == frames[f]
        up == r.direction = "DownUp"
    IN  IF r.ev \in ToTarget
        THEN <<r.target, IF up THEN "low" ELSE "high">>
        ELSE <<r.module, IF up THEN "high" ELSE "low">>

Collide(f, g) ==
    /\ frames[f].ev \in ToTarget \cup ToModule
    /\ frames[g].ev \in ToTarget \cup ToModule
    /\ Destination(f) = Destination(g)

NewCycle ==
    /\ failed = {}
    /\ now = <<>>
    /\ \E n \in 1 .. MaxSimultaneous : \E q \in [1 .. n -> later] :
         /\ \A i, j \in 1 .. n : i # j =>
              q[i] # q[j] /\ (SerialDelivery => ~ Collide(q[i], q[j]))
         /\ now' = q
         /\ later' = later \ ToSet(q)
    /\ UNCHANGED <<frames, failed, blocks, entries, locks, ports, accesses,
                   issued, witness, unsaved>>

-----------------------------------------------------------------------------
(***************************************************************************)
(* EventLoadHandler                                                        *)
(***************************************************************************)
\* The first event of an access: it joins an access in flight or goes on.
StartOf(s, type, lockEvent, finishEvent) ==
    LET joined == CanCoalesce(s, Cur, type)
    IN  \/ joined = {} /\ Become(Then(s, lockEvent))
        \/ \E g \in joined :
             Become(Coalesce(IF type = "store" THEN IncWitness(s) ELSE s,
                             g, Cur, finishEvent))

WaitForAccess(s, g, ev) ==
    Suspend([s EXCEPT !.frames[g].queue = Append(@, Cur)], Cur, ev)

\* The find_and_lock chain on the module of the access.
LockFrame ==
    [NewFrame(Fr.module, Fr.address) EXCEPT
        !.direction = "UpDown", !.blocking = TRUE]

LoadStart ==
    /\ At("load")
    /\ StartOf(StartAccess(S, Cur, "load"), "load", "load_lock", "load_finish")

LoadLock ==
    /\ At("load_lock")
    /\ LET writes == InFlightWrite(S, Cur)
           older == IF writes # {} THEN writes ELSE InFlightAddress(S, Cur)
       IN  \/ \E g \in older : Become(WaitForAccess(S, g, "load_lock"))
           \/ /\ older = {}
              /\ Become(Call(S, Fr.module, LockFrame,
                             "find_and_lock", "load_action"))

\* A request to the module below for the block of the running access.
RequestFrame ==
    [NewFrame(Fr.module, Fr.tag) EXCEPT
        !.target = LowModule(Fr.module), !.direction = "UpDown"]

LoadAction ==
    /\ At("load_action")
    /\ \/ Fr.error /\ Retry(S, "load_lock")
       \/ ~ Fr.error /\ Fr.state # "I" /\ Become(Then(S, "load_unlock"))
       \/ /\ ~ Fr.error /\ Fr.state = "I"
          /\ Become(Call(S, LowModule(Fr.module), RequestFrame,
                         "read_request", "load_miss"))

\* A plausible slip: a failed read request keeps the directory entry locked.
LoadMissKeepsLock ==
    /\ At("load_miss")
    /\ \/ Fr.error /\ Retry(S, "load_lock")
       \/ ~ Fr.error /\ Become(Then(S, "load_unlock"))

LoadMiss ==
    /\ At("load_miss")
    /\ \/ Fr.error /\ Retry(UnlockEntry(S, Fr.module, Fr.way, Cur), "load_lock")
       \/ /\ ~ Fr.error
          /\ Become(Then(SetBlock(S, Fr.module, Fr.way, Fr.tag,
                                  IF Fr.shared THEN "S" ELSE "E"),
                         "load_unlock"))

LoadUnlock ==
    /\ At("load_unlock")
    /\ Become(Delay(UnlockEntry(S, Fr.module, Fr.way, Cur), "load_finish"))

\* A plausible slip: the processor is not told that the load is over.
LoadFinishNoWitness ==
    /\ At("load_finish")
    /\ Become(Return(FinishAccess(S, Cur)))

LoadFinish ==
    /\ At("load_finish")
    /\ Become(Return(FinishAccess(IncWitness(S), Cur)))

(***************************************************************************)
(* EventStoreHandler                                                       *)
(***************************************************************************)
StoreStart ==
    /\ At("store")
    /\ StartOf(StartAccess(S, Cur, "store"), "store", "store_lock", "store_finish")

StoreLock ==
    /\ At("store_lock")
    /\ LET older == OlderAccesses(S, Cur)
       IN  \/ older # <<>> /\ Become(WaitForAccess(S, Last(older), "store_lock"))
           \/ /\ older = <<>>
              /\ Become(Call(S, Fr.module,
                             [LockFrame EXCEPT !.write = TRUE, !.witness = TRUE],
                             "find_and_lock", "store_action"))

StoreAction ==
    /\ At("store_action")
    /\ \/ Fr.error /\ Retry(S, "store_lock")
       \/ /\ ~ Fr.error /\ Fr.state \in {"M", "E"}
          /\ Become(Then(S, "store_unlock"))
       \/ /\ ~ Fr.error /\ Fr.state \notin {"M", "E"}
          /\ Become(Call(S, LowModule(Fr.module),
                         [RequestFrame EXCEPT !.witness = TRUE],
                         "write_request", "store_unlock"))

StoreUnlock ==
    /\ At("store_unlock")
    /\ \/ Fr.error /\ Retry(UnlockEntry(S, Fr.module, Fr.way, Cur), "store_lock")
       \/ /\ ~ Fr.error
          /\ LET t == Written(SetBlock(S, Fr.module, Fr.way, Fr.tag, "M"), Fr.tag)
             IN  Become(Delay(UnlockEntry(t, Fr.module, Fr.way, Cur),
                              "store_finish"))

StoreFinish == At("store_finish") /\ Become(Return(FinishAccess(S, Cur)))

(***************************************************************************)
(* EventNCStoreHandler                                                     *)
(***************************************************************************)
NCStoreStart ==
    /\ At("nc_store")
    /\ StartOf(StartAccess(S, Cur, "nc_store"), "nc_store", "nc_store_lock", "nc_store_finish")

NCStoreLock ==
    /\ At("nc_store_lock")
    /\ LET writes == InFlightWrite(S, Cur)
           older == IF writes # {} THEN writes ELSE InFlightAddress(S, Cur)
       IN  \/ \E g \in older : Become(WaitForAccess(S, g, "nc_store_lock"))
           \/ /\ older = {}
              /\ Become(Call(S, Fr.module, [LockFrame EXCEPT !.ncWrite = TRUE],
                             "find_and_lock", "nc_store_writeback"))

\* The evict chain for a way of the module of the running frame.
EvictFrame == [NewFrame(Fr.module, NoTag) EXCEPT !.way = Fr.way]

NCStoreWriteback ==
    /\ At("nc_store_writeback")
    /\ \/ Fr.error /\ Retry(S, "nc_store_lock")
       \/ /\ ~ Fr.error /\ Fr.state \in {"M", "O"}
          /\ Become(Call([S EXCEPT !.frames[Cur].eviction = TRUE],
                         Fr.module, EvictFrame, "evict", "nc_store_action"))
       \/ /\ ~ Fr.error /\ Fr.state \notin {"M", "O"}
          /\ Become(Then(S, "nc_store_action"))

\* A failed eviction is retried with the directory entry still locked.
NCStoreAction ==
    /\ At("nc_store_action")
    /\ \/ Fr.error /\ Retry(S, "nc_store_lock")
       \/ /\ ~ Fr.error
          /\ IsMainMemory(Fr.module) \/ Fr.state \in {"S", "N"}
          /\ Become(Then(S, "nc_store_unlock"))
       \/ /\ ~ Fr.error /\ ~ IsMainMemory(Fr.module) /\ Fr.state = "E"
          /\ Become(Call(S, LowModule(Fr.module),
                         [RequestFrame EXCEPT !.direction = "none"],
                         "message", "nc_store_miss"))
       \/ /\ ~ Fr.error /\ ~ IsMainMemory(Fr.module)
          /\ Fr.state \in {"M", "O", "I"}
          /\ Become(Call(S, LowModule(Fr.module),
                         [RequestFrame EXCEPT !.ncWrite = TRUE],
                         "read_request", "nc_store_miss"))

NCStoreMiss ==
    /\ At("nc_store_miss")
    /\ \/ Fr.error /\ Retry(UnlockEntry(S, Fr.module, Fr.way, Cur), "nc_store_lock")
       \/ ~ Fr.error /\ Become(Then(S, "nc_store_unlock"))

NCStoreUnlock ==
    /\ At("nc_store_unlock")
    /\ LET t == Written(SetBlock(S, Fr.module, Fr.way, Fr.tag, "N"), Fr.tag)
       IN  Become(Delay(UnlockEntry(t, Fr.module, Fr.way, Cur),
                        "nc_store_finish"))

\* A plausible slip: the processor is not told that the store is over.
NCStoreFinishNoWitness ==
    /\ At("nc_store_finish")
    /\ Become(Return(FinishAccess(S, Cur)))

NCStoreFinish ==
    /\ At("nc_store_finish")
    /\ Become(Return(FinishAccess(IncWitness(S), Cur)))

-----------------------------------------------------------------------------
(***************************************************************************)
(* EventFindAndLockHandler                                                 *)
(***************************************************************************)
FindAndLock ==
    /\ At("find_and_lock")
    /\ Become(LockPort(NoParentError(S), Cur, "find_and_lock_port"))

\* The port is given back before the chain leaves find_and_lock_port.
LeavePort(s) ==
    UnlockPort([s EXCEPT !.frames[Parent].portLocked = FALSE], Cur)

\* What find_and_lock_port does once the way is chosen.
LockWay(s, hit, w) ==
    LET m == Fr.module
        state == BlockState(s, m, w)
        t == [s EXCEPT !.frames[Cur].hit = hit, !.frames[Cur].way = w,
                       !.frames[Cur].tag = Fr.address,
                       !.frames[Cur].state = state,
                       !.frames[Parent].portLocked = TRUE]
        u == Assert_(SetTransientTag(LockEntry(t, m, w, Cur), m, w, Fr.address),
                     hit \/ state # "I" \/ ~ IsBlockSharedOrOwned(s, m, w),
                     "invalid_victim_is_shared")
    IN  CASE IsEntryLocked(s, m, w) /\ ~ Fr.blocking ->
                Return(ParentError(LeavePort(t)))
          [] IsEntryLocked(s, m, w) /\ Fr.blocking ->
                LeavePort(WaitEntry(t, m, w, "find_and_lock", Cur))
          [] ~ IsEntryLocked(s, m, w) /\ m \in SlowDirectories ->
                Delay(u, "find_and_lock_action")
          [] OTHER -> Then(u, "find_and_lock_action")

FindAndLockPort ==
    /\ At("find_and_lock_port")
    /\ LET ways == FindBlock(S, Fr.module, Fr.address)
       IN  \/ /\ ways # {}
              /\ Become(LockWay(IF Fr.write THEN IncWitness(S) ELSE S,
                                TRUE, Min(ways)))
           \/ /\ ways = {} /\ Fr.direction = "DownUp"
              /\ Become(Return([LeavePort(S) EXCEPT
                                  !.frames[Parent].blockNotFound = TRUE]))
           \/ /\ ways = {} /\ Fr.direction # "DownUp"
              /\ \E w \in ReplaceBlock(Fr.module) : Become(LockWay(S, FALSE, w))

FindAndLockAction ==
    /\ At("find_and_lock_action")
    /\ LET t == LeavePort(S)
       IN  \/ /\ ~ Fr.hit /\ Fr.state # "I"
              /\ Become(Call([t EXCEPT !.frames[Cur].eviction = TRUE],
                             Fr.module, EvictFrame, "evict",
                             "find_and_lock_finish"))
           \/ /\ Fr.hit \/ Fr.state = "I"
              /\ Become(Then(t, "find_and_lock_finish"))

\* The result that find_and_lock_finish leaves in the parent frame.
LockResult(s, state) ==
    [s EXCEPT !.frames[Parent].error = FALSE, !.frames[Parent].way = Fr.way,
              !.frames[Parent].state = state, !.frames[Parent].tag = Fr.tag]

FindAndLockFinish ==
    /\ At("find_and_lock_finish")
    /\ LET m == Fr.module
           w == Fr.way
           left == BlockState(S, m, w)     \* what an eviction has left
           t == IF Fr.eviction
                THEN SetBlock(Assert_(S, left \in {"I", "S", "E"}, "evicted_dirty"),
                              m, w, NoTag, "I")
                ELSE S
           state == IF Fr.eviction THEN left ELSE Fr.state
       IN  \/ /\ Fr.error
              /\ LET e == Assert_(S, left # "I" /\ Fr.eviction, "failed_eviction")
                 IN  Become(Return(ParentError(UnlockEntry(e, m, w, Cur))))
           \/ /\ ~ Fr.error /\ IsMainMemory(m) /\ state = "I"
              /\ Become(Return(LockResult(SetBlock(t, m, w, Fr.tag, "E"), "E")))
           \/ /\ ~ Fr.error /\ ~ (IsMainMemory(m) /\ state = "I")
              /\ Become(Return(LockResult(t, state)))

(***************************************************************************)
(* EventEvictHandler                                                       *)
(***************************************************************************)
\* The invalidate chain for the block of the running frame, in module m.
InvalidateFrame(m, except) ==
    [NewFrame(m, NoTag) EXCEPT !.way = Fr.way, !.except = except]

Evict ==
    /\ At("evict")
    /\ LET m == Fr.module
           tag == BlockTag(S, m, Fr.way)
           state == BlockState(S, m, Fr.way)
           t == Assert_(NoParentError(S),
                        state # "I" \/ ~ IsBlockSharedOrOwned(S, m, Fr.way),
                        "evict_invalid_shared")
       IN  Become(Call([t EXCEPT !.frames[Cur].tag = tag,
                                 !.frames[Cur].state = state,
                                 !.frames[Cur].srcWay = Fr.way,
                                 !.frames[Cur].srcTag = tag,
                                 !.frames[Cur].target = LowModule(m)],
                       m, InvalidateFrame(m, NoModule),
                       "invalidate", "evict_invalid"))

\* A plausible slip: every eviction is taken for that of a clean block.
EvictInvalidNoData ==
    /\ At("evict_invalid")
    /\ LET gone == SetBlock(S, Fr.module, Fr.srcWay, NoTag, "I")
       IN  Become(Then([gone EXCEPT !.frames[Cur].state = "I"], "evict_finish"))

EvictInvalid ==
    /\ At("evict_invalid")
    /\ LET m == Fr.module
           state == BlockState(S, m, Fr.way)
           gone == SetBlock(S, m, Fr.srcWay, NoTag, "I")
       IN  \/ /\ IsMainMemory(m) \/ state \in {"S", "E"}
              /\ Become(Then([gone EXCEPT !.frames[Cur].state = "I"],
                             "evict_finish"))
           \/ /\ ~ IsMainMemory(m) /\ state \notin {"S", "E"}
              /\ Become(Then([S EXCEPT !.frames[Cur].state = state],
                             "evict_action"))

EvictAction ==
    /\ At("evict_action")
    /\ \/ Fr.state = "I" /\ Become(Then(S, "evict_finish"))
       \/ /\ Fr.state \in {"M", "O", "N"}
          /\ Become(Send([S EXCEPT !.frames[Cur].reply = AckData],
                         "evict_receive"))

EvictReceive ==
    /\ At("evict_receive")
    /\ Become(Call(S, Fr.target,
                   [NewFrame(Fr.target, Fr.srcTag) EXCEPT
                        !.direction = "DownUp", !.write = TRUE],
                   "find_and_lock",
                   IF Fr.state = "N" THEN "evict_process_noncoherent"
                                     ELSE "evict_process"))

\* The rest of both evict_process events: the data has arrived in the target.
EvictArrives(s) ==
    LET t == DataArrives(ForgetSharer(s, Fr.target, Fr.way, Fr.module),
                         Fr.target, Fr.srcTag)
    IN  Delay(UnlockEntry(t, Fr.target, Fr.way, Cur), "evict_reply")

EvictProcess ==
    /\ At("evict_process")
    /\ \/ Fr.error /\ Become(Then(ParentError(S), "evict_reply"))
       \/ /\ ~ Fr.error
          /\ LET t == Assert_(S, Fr.state \in {"E", "M"}, "evict_process_state")
             IN  Become(EvictArrives(SetBlock(t, Fr.target, Fr.way, Fr.tag, "M")))

\* The state of the target block once non-coherent data was written to it.
NoncoherentMerge(state) ==
    CASE state \in {"E", "M"} -> "M"
      [] state = "O" -> "O"
      [] state \in {"S", "N"} -> "N"
      [] state = "I" -> "I"

EvictProcessNoncoherent ==
    /\ At("evict_process_noncoherent")
    /\ \/ Fr.error /\ Become(Then(ParentError(S), "evict_reply"))
       \/ /\ ~ Fr.error
          /\ LET t == Assert_(S, Fr.state # "I", "evict_process_state")
             IN  Become(EvictArrives(SetBlock(t, Fr.target, Fr.way, Fr.tag,
                                              NoncoherentMerge(Fr.state))))

EvictReply == At("evict_reply") /\ Become(Send(S, "evict_reply_receive"))

EvictReplyReceive ==
    /\ At("evict_reply_receive")
    /\ LET m == Fr.module
           t == Assert_(S, ~ IsBlockSharedOrOwned(S, m, Fr.srcWay), "evicted_shared")
       IN  Become(Then(IF Fr.error THEN t ELSE SetBlock(t, m, Fr.srcWay, NoTag, "I"),
                       "evict_finish"))

EvictFinish == At("evict_finish") /\ Become(Return(S))

(***************************************************************************)
(* EventWriteRequestHandler                                                *)
(***************************************************************************)
WriteRequest ==
    /\ At("write_request")
    /\ Become(Send(ReplyIfHigher(NoParentError(S), Cur, AckData),
                   "write_request_receive"))

\* A plausible slip: down-up requests backtrack like up-down ones.
TargetLockFrameNeverBlocks ==
    [NewFrame(Fr.target, Fr.address) EXCEPT !.direction = Fr.direction]

\* The find_and_lock chain of a request, on its target module.
TargetLockFrame ==
    [NewFrame(Fr.target, Fr.address) EXCEPT
        !.direction = Fr.direction, !.blocking = Fr.direction = "DownUp"]

WriteRequestReceive ==
    /\ At("write_request_receive")
    /\ Become(Call(S, Fr.target, [TargetLockFrame EXCEPT !.write = TRUE],
                   "find_and_lock", "write_request_action"))

WriteRequestAction ==
    /\ At("write_request_action")
    /\ \/ /\ Fr.error
          /\ LET t == Assert_(S, Fr.direction = "UpDown", "down_up_error")
             IN  Become(Then(ParentError(t), "write_request_reply"))
       \/ /\ ~ Fr.error /\ Fr.blockNotFound
          /\ Become(Then(ReplyIfHigher(S, Parent, Ack), "write_request_reply"))
       \/ /\ ~ Fr.error /\ ~ Fr.blockNotFound
          /\ Become(Call(S, Fr.target, InvalidateFrame(Fr.target, Fr.module),
                         "invalidate", "write_request_exclusive"))

WriteRequestExclusive ==
    /\ At("write_request_exclusive")
    /\ Become(Then(S, IF Fr.direction = "UpDown" THEN "write_request_updown"
                                                 ELSE "write_request_downup"))

\* The request goes on to the module below the target.
NextRequestFrame ==
    [NewFrame(Fr.target, Fr.tag) EXCEPT
        !.target = LowModule(Fr.target), !.direction = "UpDown"]

WriteRequestUpdown ==
    /\ At("write_request_updown")
    /\ \/ /\ Fr.state \in {"M", "E"}
          /\ Become(Then(S, "write_request_updown_finish"))
       \/ /\ Fr.state \in {"O", "S", "I", "N"}
          /\ Become(Call(S, LowModule(Fr.target), NextRequestFrame,
                         "write_request", "write_request_updown_finish"))

WriteRequestUpdownFinish ==
    /\ At("write_request_updown_finish")
    /\ LET n == Fr.target
           w == Fr.way
           t == SetOwner(SetSharer(S, n, w, Fr.module), n, w, Fr.module)
           u == Assert_(SetBlock(t, n, w, Fr.tag, "E"),
                        t.entries[n][w].sharers = {Fr.module}, "not_only_sharer")
       IN  \/ /\ Fr.error
              /\ LET e == ReplyIfHigher(ParentError(S), Parent, AckError)
                 IN  Become(Then(UnlockEntry(e, n, w, Cur), "write_request_reply"))
           \/ /\ ~ Fr.error
              /\ Become(Delay(UnlockEntry(ReplyIfHigher(u, Parent, AckData),
                                          n, w, Cur),
                              "write_request_reply"))

\* The state is the one that find_and_lock returned, before the copies above
\* the target were invalidated.
WriteRequestDownup ==
    /\ At("write_request_downup")
    /\ LET n == Fr.target
           t == Assert_(S, /\ Fr.state # "I"
                           /\ ~ IsBlockSharedOrOwned(S, n, Fr.way),
                        "write_downup")
       IN  \/ /\ Fr.state \in {"E", "S", "I"}
              /\ Become(Then(ReplyIfHigher(t, Parent, Ack),
                             "write_request_downup_finish"))
           \/ /\ Fr.state \in {"N", "M", "O"}
              /\ Become(Then(DataArrives(ReplyIfHigher(t, Parent, AckData),
                                         Fr.module, Fr.tag),
                             "write_request_downup_finish"))

WriteRequestDownupFinish ==
    /\ At("write_request_downup_finish")
    /\ LET n == Fr.target
           t == UnlockEntry(SetBlock(S, n, Fr.way, NoTag, "I"), n, Fr.way, Cur)
       IN  Become(IF frames[Parent].reply = AckData
                  THEN Delay(t, "write_request_reply")
                  ELSE Then(t, "write_request_reply"))

WriteRequestReply ==
    At("write_request_reply") /\ Become(Send(S, "write_request_finish"))

WriteRequestFinish ==
    /\ At("write_request_finish")
    /\ Become(Return(IF Fr.direction = "UpDown" THEN IncWitness(S) ELSE S))

(***************************************************************************)
(* EventReadRequestHandler                                                 *)
(***************************************************************************)
ReadRequest ==
    /\ At("read_request")
    /\ Become(Send([NoParentError(S) EXCEPT !.frames[Parent].shared = FALSE],
                   "read_request_receive"))

ReadRequestReceive ==
    /\ At("read_request_receive")
    /\ Become(Call(S, Fr.target, TargetLockFrame,
                   "find_and_lock", "read_request_action"))

ReadRequestAction ==
    /\ At("read_request_action")
    /\ \/ /\ Fr.error
          /\ LET t == Assert_(S, Fr.direction = "UpDown", "down_up_error")
             IN  Become(Then(ReplyIfHigher(ParentError(t), Parent, AckError),
                             "read_request_reply"))
       \/ /\ ~ Fr.error /\ Fr.blockNotFound
          /\ Become(Then(ReplyIfHigher(S, Parent, Ack), "read_request_reply"))
       \/ /\ ~ Fr.error /\ ~ Fr.blockNotFound
          /\ Become(Then(S, IF Fr.direction = "UpDown" THEN "read_request_updown"
                                                       ELSE "read_request_downup"))

\* A plausible slip: the owner is never asked to downgrade its copy.
AskNobody(s, skip, ev) == Then([s EXCEPT !.frames[Cur].pending = 1], ev)

\* A down-up read request to the owner of the target's block, if it is not
\* skip; then ev runs for this frame, and again for the reply of the owner.
AskOwner(s, skip, ev) ==
    LET n == Fr.target
        owner == s.entries[n][Fr.way].owner
        r == [NewFrame(n, Fr.tag) EXCEPT !.target = owner, !.direction = "DownUp"]
    IN  IF owner \in {NoModule, skip}
        THEN Then([s EXCEPT !.frames[Cur].pending = 1], ev)
        ELSE Then(Call([s EXCEPT !.frames[Cur].pending = 2],
                       owner, r, "read_request", ev), ev)

ReadRequestUpdown ==
    /\ At("read_request_updown")
    /\ LET n == Fr.target
           t == ReplyIfHigher(S, Cur, AckData)
           u == Assert_(t, ~ IsBlockSharedOrOwned(S, n, Fr.way), "miss_shared")
       IN  \/ /\ Fr.state # "I"
              /\ Become(AskOwner(t, Fr.module, "read_request_updown_finish"))
           \/ /\ Fr.state = "I"
              /\ Become(Call([u EXCEPT !.frames[Cur].pending = 1],
                             LowModule(n), NextRequestFrame,
                             "read_request", "read_request_updown_miss"))

ReadRequestUpdownMiss ==
    /\ At("read_request_updown_miss")
    /\ \/ /\ Fr.error
          /\ LET t == UnlockEntry(S, Fr.target, Fr.way, Cur)
             IN  Become(Then(ReplyIfHigher(ParentError(t), Parent, AckError),
                             "read_request_reply"))
       \/ /\ ~ Fr.error
          /\ Become(Then(SetBlock(S, Fr.target, Fr.way, Fr.tag,
                                  IF Fr.shared THEN "S" ELSE "E"),
                         "read_request_updown_finish"))

\* The reply of the owner is counted, or all replies are in.
Pending(s) == [s EXCEPT !.frames[Cur].pending = @ - 1]

\* The requester becomes a sharer, and the owner if it has the only copy.
ReadRequestUpdownFinish ==
    /\ At("read_request_updown_finish")
    /\ \/ Fr.pending > 1 /\ Become(Pending(S))
       \/ /\ Fr.pending = 1
          /\ LET n == Fr.target
                 w == Fr.way
                 m == Fr.module
                 t == IF S.entries[n][w].owner # m
                      THEN SetOwner(Pending(S), n, w, NoModule) ELSE Pending(S)
                 u == SetSharer(t, n, w, m)
                 shared == \/ Cardinality(u.entries[n][w].sharers) > 1
                           \/ Fr.ncWrite \/ Fr.shared
                           \/ Fr.state \in {"O", "N", "S"}
                 v == IF shared THEN u ELSE SetOwner(u, n, w, m)
                 x == [ReplyIfHigher(v, Parent, AckData)
                         EXCEPT !.frames[Parent].shared = shared]
             IN  Become(Delay(UnlockEntry(x, n, w, Cur), "read_request_reply"))

ReadRequestDownup ==
    /\ At("read_request_downup")
    /\ Become(AskOwner(Assert_(S, Fr.state \notin {"I", "S", "N"}, "read_downup"),
                       NoModule, "read_request_downup_finish"))

\* The reply of the target: that of its owner, or by its own state.
DownupReply ==
    IF Fr.reply # None THEN Fr.reply
    ELSE IF Fr.state \in {"O", "M", "N"} THEN AckData ELSE Ack

ReadRequestDownupFinish ==
    /\ At("read_request_downup_finish")
    /\ \/ Fr.pending > 1 /\ Become(Pending(S))
       \/ /\ Fr.pending = 1
          /\ LET n == Fr.target
                 w == Fr.way
                 t == SetBlock(Pending(S), n, w, Fr.tag, "S")
                 u == IF Fr.reply = None THEN t ELSE SetOwner(t, n, w, NoModule)
                 v == IF DownupReply = AckData
                      THEN DataArrives(u, Fr.module, Fr.tag) ELSE u
             IN  Become(Delay(UnlockEntry(ReplyIfHigher(v, Parent, DownupReply),
                                          n, w, Cur),
                              "read_request_reply"))

ReadRequestReply ==
    At("read_request_reply") /\ Become(Send(S, "read_request_finish"))

ReadRequestFinish == At("read_request_finish") /\ Become(Return(S))

(***************************************************************************)
(* EventInvalidateHandler                                                  *)
(***************************************************************************)
\* A plausible slip: the sharer leaves the entry but keeps its copy.
ForgetWithoutRequest(s, n) == ForgetSharer(s, Fr.module, Fr.way, n)

\* One sharer leaves the directory entry and is sent a down-up write request.
InvalidateSharer(s, n) ==
    LET m == Fr.module
        tag == BlockTag(s, m, Fr.way)
        t == ForgetSharer(s, m, Fr.way, n)
        r == [NewFrame(m, tag) EXCEPT !.target = n, !.direction = "DownUp"]
    IN  Call([t EXCEPT !.frames[Cur].pending = @ + 1],
             n, r, "write_request", "invalidate_finish")

Invalidate ==
    /\ At("invalidate")
    /\ LET m == Fr.module
           e == entries[m][Fr.way]
           victims == SelectSeq(HighModules[m],
                                LAMBDA n : n \in e.sharers /\ n # Fr.except)
           t == [S EXCEPT !.frames[Cur].tag = BlockTag(S, m, Fr.way),
                          !.frames[Cur].state = BlockState(S, m, Fr.way),
                          !.frames[Cur].pending = 1]
       IN  Become(Then(FoldLeft(InvalidateSharer, t, victims),
                       "invalidate_finish"))

InvalidateFinish ==
    /\ At("invalidate_finish")
    /\ LET t == IF Fr.reply = AckData
                THEN SetBlock(S, Fr.module, Fr.way, Fr.tag, "M") ELSE S
       IN  Become(IF Fr.pending > 1 THEN Pending(t) ELSE Return(t))

(***************************************************************************)
(* EventMessageHandler: the only message is MessageClearOwner.             *)
(***************************************************************************)
Message ==
    /\ At("message")
    /\ Become(Send([NoParentError(S) EXCEPT !.frames[Cur].reply = Ack],
                   "message_receive"))

MessageReceive ==
    /\ At("message_receive")
    /\ Become(Call(S, Fr.target, NewFrame(Fr.target, Fr.address),
                   "find_and_lock", "message_action"))

MessageAction ==
    /\ At("message_action")
    /\ \/ /\ Fr.error
          /\ Become(Then(ReplyIfHigher(ParentError(S), Parent, AckError),
                         "message_reply"))
       \/ /\ ~ Fr.error
          /\ LET t == SetOwner(S, Fr.target, Fr.way, NoModule)
             IN  Become(Then(UnlockEntry(t, Fr.target, Fr.way, Cur),
                             "message_reply"))

MessageReply == At("message_reply") /\ Become(Send(S, "message_finish"))

MessageFinish == At("message_finish") /\ Become(Return(S))

-----------------------------------------------------------------------------
Init ==
    /\ frames = << >> /\ now = << >> /\ later = {} /\ failed = {}
    /\ blocks = [m \in Modules |-> [w \in Ways(m) |->
                    [tag |-> NoTag, state |-> "I", transient |-> NoTag]]]
    /\ entries = [m \in Modules |-> [w \in Ways(m) |->
                    [owner |-> NoModule, sharers |-> {}]]]
    /\ locks = [m \in Modules |-> [w \in Ways(m) |->
                    [by |-> Unlocked, queue |-> << >>]]]
    /\ ports = [m \in Modules |-> [holders |-> {}, queue |-> << >>]]
    /\ accesses = [m \in Modules |-> << >>]
    /\ issued = 0 /\ witness = [i \in 1 .. MaxAccesses |-> 0] /\ unsaved = {}

LoadEvent == LoadStart \/ LoadLock \/ LoadAction \/ LoadMiss \/ LoadUnlock \/ LoadFinish

StoreEvent == StoreStart \/ StoreLock \/ StoreAction \/ StoreUnlock \/ StoreFinish

NCStoreEvent ==
    \/ NCStoreStart \/ NCStoreLock \/ NCStoreWriteback \/ NCStoreAction
    \/ NCStoreMiss \/ NCStoreUnlock \/ NCStoreFinish

FindAndLockEvent ==
    FindAndLock \/ FindAndLockPort \/ FindAndLockAction \/ FindAndLockFinish

EvictEvent ==
    \/ Evict \/ EvictInvalid \/ EvictAction \/ EvictReceive \/ EvictProcess
    \/ EvictProcessNoncoherent \/ EvictReply \/ EvictReplyReceive \/ EvictFinish

WriteRequestEvent ==
    \/ WriteRequest \/ WriteRequestReceive \/ WriteRequestAction
    \/ WriteRequestExclusive \/ WriteRequestUpdown \/ WriteRequestUpdownFinish
    \/ WriteRequestDownup \/ WriteRequestDownupFinish
    \/ WriteRequestReply \/ WriteRequestFinish

ReadRequestEvent ==
    \/ ReadRequest \/ ReadRequestReceive \/ ReadRequestAction
    \/ ReadRequestUpdown \/ ReadRequestUpdownMiss \/ ReadRequestUpdownFinish
    \/ ReadRequestDownup \/ ReadRequestDownupFinish
    \/ ReadRequestReply \/ ReadRequestFinish

InvalidateEvent == Invalidate \/ InvalidateFinish

MessageEvent ==
    Message \/ MessageReceive \/ MessageAction \/ MessageReply \/ MessageFinish

\* The event at the head of the current cycle runs.
RunEvent ==
    \/ LoadEvent \/ StoreEvent \/ NCStoreEvent \/ FindAndLockEvent \/ EvictEvent
    \/ WriteRequestEvent \/ ReadRequestEvent \/ InvalidateEvent \/ MessageEvent

\* All accesses have been issued and have left the hierarchy.
Idle == frames = << >> /\ now = << >> /\ later = {}
Finished == issued = MaxAccesses /\ Idle /\ UNCHANGED vars

Next ==
    \/ RunEvent
    \/ NewCycle
    \/ \E m \in Modules, a \in Addresses, type \in {"load", "store", "nc_store"} :
         Access(m, a, type)
    \/ Finished

Spec == Init /\ [][Next]_vars

(***************************************************************************)
(* A cycle's events all run, and each delayed event is eventually due: the *)
(* engine advances the clock as long as there are events in the heap.      *)
(***************************************************************************)
FairSpec ==
    /\ Spec
    /\ WF_vars(RunEvent)
    /\ \A i \in 1 .. MaxAccesses :
         SF_vars(NewCycle /\ \E f \in later : AccessId(f) = i /\ f \notin later')

-----------------------------------------------------------------------------
(***************************************************************************)
(* Properties                                                              *)
(***************************************************************************)
\* Module n is above module m in the hierarchy (at most three levels of caches).
Above(m) ==
    LET up(X) == X \cup UNION {ToSet(HighModules[x]) : x \in X}
    IN  up(up(up({m}))) \ {m}

Related(m, n) == m = n \/ m \in Above(n) \/ n \in Above(m)

Holds(m, w, a) == blocks[m][w].tag = a /\ blocks[m][w].state # "I"

\* The block in way w of m was written back to the module below, and stays in
\* its locked way until the acknowledgement arrives.
Leaving(m, w) ==
    \E f \in DOMAIN frames :
        /\ frames[f].ev \in {"evict_reply", "evict_reply_receive"}
        /\ frames[f].module = m /\ frames[f].srcWay = w /\ ~ frames[f].error

Copy(m, a, states) ==
    \E w \in Ways(m) :
        Holds(m, w, a) /\ blocks[m][w].state \in states /\ ~ Leaving(m, w)

\* Module m has a in state E or M, and no non-coherent store is giving it up
\* (it clears the owner below before it changes the state to N).
Exclusive(m, a) ==
    /\ Copy(m, a, {"E", "M"})
    /\ \A w \in Ways(m) : Holds(m, w, a) /\ locks[m][w].by # Unlocked =>
         frames[<<locks[m][w].by>>].type # "nc_store"

\* Every variable has its type: the frames are records of the live event
\* chains, and locks, ports and access lists refer to live frames only.
TypeOK ==
    /\ \A f \in DOMAIN frames :
         /\ frames[f].module \in Modules
         /\ frames[f].target \in Modules \cup {NoModule}
         /\ frames[f].state \in BlockStates
         /\ frames[f].reply \in None .. AckError
         /\ frames[f].pending \in Nat
    /\ ToSet(now) \cup later \subseteq DOMAIN frames
    /\ \A m \in Modules :
         /\ ToSet(accesses[m]) \subseteq DOMAIN frames
         /\ ports[m].holders \cup ToSet(ports[m].queue) \subseteq DOMAIN frames
         /\ \A w \in Ways(m) :
              /\ blocks[m][w].tag \in Addresses \cup {NoTag}
              /\ blocks[m][w].state \in BlockStates
              /\ entries[m][w].owner \in ToSet(HighModules[m]) \cup {NoModule}
              /\ entries[m][w].sharers \subseteq ToSet(HighModules[m])
              /\ locks[m][w].by \in 0 .. issued
              /\ ToSet(locks[m][w].queue) \subseteq DOMAIN frames
    /\ witness \in [1 .. MaxAccesses -> 0 .. WitnessBound] /\ unsaved \subseteq Addresses

\* No assertion of the handlers fails and no handler panics, whatever the
\* order in which latencies and messages make the events run.
NoPanic == failed = {}

\* A module that has a block in state E or M has the only copy of it, among
\* the modules that are neither above nor below it: what the invalidations
\* of write_request and the downgrades of read_request are for.
SingleWriter ==
    \A m, n \in Modules : \A a \in Addresses :
        Exclusive(m, a) /\ Copy(n, a, BlockStates) => Related(m, n)

\* A block is in at most one way of a cache, although several accesses may
\* miss on it at the same time: what the transient tag of FindBlock is for.
OneWayPerBlock ==
    \A m \in Modules : \A v, w \in Ways(m) : \A a \in Addresses :
        Holds(m, v, a) /\ Holds(m, w, a) => v = w

\* Rule 1 of System::SanityCheck: the module below one that has a block has
\* it too, in a state other than I.
Inclusion ==
    \A m \in Modules : \A a \in Addresses :
        Copy(m, a, BlockStates) /\ ~ IsMainMemory(m)
            => Copy(LowModule(m), a, BlockStates)

\* The directory entry below a valid block lists the module as a sharer, and
\* as the owner when its state is E or M, unless the entry is locked by an
\* access that is changing it: otherwise a later store would not invalidate,
\* and a later load not downgrade, that copy.
DirectoryCovers ==
    \A m \in Modules : \A a \in Addresses :
        Copy(m, a, BlockStates) /\ ~ IsMainMemory(m) =>
            LET n == LowModule(m)
            IN  \E w \in Ways(n) :
                  /\ Holds(n, w, a)
                  /\ \/ locks[n][w].by # Unlocked
                     \/ /\ m \in entries[n][w].sharers
                        /\ Exclusive(m, a) => entries[n][w].owner = m

\* The hierarchy never stops with work left: when no event is scheduled, no
\* access is in flight, no frame waits for a directory entry or a port, and
\* no entry or port is held.
NoStuckAccess ==
    now = << >> /\ later = {} =>
        /\ frames = << >>
        /\ \A m \in Modules : ports[m].holders = {} /\ ports[m].queue = << >>
        /\ \A m \in Modules : \A w \in Ways(m) : locks[m][w].by = Unlocked

\* An access that has left the hierarchy has incremented its witness, so that
\* the processor that waits for the counter is not left waiting.
WitnessSeen ==
    \A i \in 1 .. issued : <<i>> \notin DOMAIN frames => witness[i] >= 1

\* Data that a store wrote is not lost: when the hierarchy is at rest, a
\* block that main memory does not have up to date is dirty in some cache,
\* so that its eviction will write it back.
NoLostWrite ==
    Idle => \A a \in unsaved :
        \E m \in Modules : ~ IsMainMemory(m) /\ Copy(m, a, {"M", "O", "N"})

\* Every access completes: an access that backtracks because of a lock is
\* retried until it succeeds, and one that waits in a queue is woken up.
AccessesComplete ==
    \A i \in 1 .. MaxAccesses : <<i>> \in DOMAIN frames ~> <<i>> \notin DOMAIN frames
=============================================================================
