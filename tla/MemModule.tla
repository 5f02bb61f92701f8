----------------------------- MODULE MemModule -----------------------------
(***************************************************************************)
(* A module of the memory hierarchy: the cache blocks (Cache), the         *)
(* directory entries with their locks (Directory), the ports and the list  *)
(* of in-flight accesses (Module).  Operators on the state record s; the   *)
(* event handlers that use them are in NMOESI.                             *)
(*                                                                         *)
(* One set per cache and one sub-block per block: sets never interact, and *)
(* all block sizes are equal.  An address is a block address, so it is its *)
(* own tag; the tag 0 of an invalidated block is NoTag.                    *)
(***************************************************************************)
EXTENDS Esim, FiniteSets, FiniteSetsExt

CONSTANTS
    Modules,        \* the memory modules
    HighModules,    \* [Modules -> Seq(Modules)]: nodes of its high network, in order
    NumWays,        \* [Modules -> Nat]: associativity
    NumPorts,       \* [Modules -> Nat]
    Addresses       \* block addresses, positive integers

NoTag == 0
NoModule == "none"
Unlocked == 0

\* Block states of the NMOESI protocol.
BlockStates == {"N", "M", "O", "E", "S", "I"}

\* Frame::ReplyType, in its order.
None == 0
Ack == 1
AckData == 2
AckError == 3

ASSUME HierarchyAssumption ==
    /\ \A m \in Modules : ToSet(HighModules[m]) \subseteq Modules \ {m}
    /\ \A m, n \in Modules :
         m # n => ToSet(HighModules[m]) \cap ToSet(HighModules[n]) = {}
    /\ \A m \in Modules : NumWays[m] \in Nat \ {0} /\ NumPorts[m] \in Nat \ {0}
    /\ Addresses \subseteq Nat \ {NoTag}

Ways(m) == 1 .. NumWays[m]

\* Module::TypeMainMemory: the module that is above no other one.
IsMainMemory(m) == \A n \in Modules : ~ Contains(HighModules[n], m)

\* Module::getLowModuleServingAddress; a main memory has none.
LowModule(m) ==
    IF IsMainMemory(m) THEN NoModule
    ELSE CHOOSE n \in Modules : Contains(HighModules[n], m)

\* A new Frame for module m and block address a.
NewFrame(m, a) ==
    [ev |-> "", ret |-> "", inQueue |-> FALSE,
     module |-> m, address |-> a, target |-> NoModule, except |-> NoModule,
     direction |-> "none", blocking |-> FALSE, write |-> FALSE,
     ncWrite |-> FALSE, witness |-> FALSE, type |-> "none",
     master |-> <<>>, queue |-> <<>>, portLocked |-> FALSE,
     eviction |-> FALSE, error |-> FALSE, hit |-> FALSE,
     blockNotFound |-> FALSE, shared |-> FALSE,
     tag |-> NoTag, way |-> 0, srcTag |-> NoTag, srcWay |-> 0,
     state |-> "I", pending |-> 0, reply |-> None]

(***************************************************************************)
(* Cache                                                                   *)
(***************************************************************************)
BlockState(s, m, w) == s.blocks[m][w].state
BlockTag(s, m, w)   == s.blocks[m][w].tag

\* Cache::setBlock.
SetBlock(s, m, w, tag, state) ==
    [s EXCEPT !.blocks[m][w].tag = tag, !.blocks[m][w].state = state]

SetTransientTag(s, m, w, tag) == [s EXCEPT !.blocks[m][w].transient = tag]

(***************************************************************************)
(* Cache::ReplaceBlock: the random policy can choose any way.  The LRU and *)
(* FIFO policies choose one of them.                                       *)
(***************************************************************************)
ReplaceBlock(m) == Ways(m)

(***************************************************************************)
(* Directory                                                               *)
(***************************************************************************)
SetOwner(s, m, w, owner) == [s EXCEPT !.entries[m][w].owner = owner]

\* A plausible slip: the set of sharers is assigned, not extended.
SetOnlySharer(s, m, w, n) == [s EXCEPT !.entries[m][w].sharers = {n}]

SetSharer(s, m, w, n) == [s EXCEPT !.entries[m][w].sharers = @ \cup {n}]

ClearSharer(s, m, w, n) == [s EXCEPT !.entries[m][w].sharers = @ \ {n}]

\* The sharer n leaves the entry, and stops being its owner if it was.
ForgetSharer(s, m, w, n) ==
    LET t == ClearSharer(s, m, w, n)
    IN  IF t.entries[m][w].owner = n THEN SetOwner(t, m, w, NoModule) ELSE t

IsBlockSharedOrOwned(s, m, w) ==
    s.entries[m][w].sharers # {} \/ s.entries[m][w].owner # NoModule

\* The lock of an entry holds the identifier of an access, which all the
\* frames of that access share.
AccessId(f) == f[1]

IsEntryLocked(s, m, w) == s.locks[m][w].by # Unlocked

\* Directory::LockEntry on an entry that is locked: f waits to run ev.
WaitEntry(s, m, w, ev, f) ==
    Suspend([s EXCEPT !.locks[m][w].queue = Append(@, f)], f, ev)

\* Directory::LockEntry on a free entry.
LockEntry(s, m, w, f) == [s EXCEPT !.locks[m][w].by = AccessId(f)]

\* Directory::UnlockEntry: every waiter is woken up to try again.
UnlockEntry(s, m, w, f) ==
    LET t == Assert_(s, s.locks[m][w].by = AccessId(f), "unlock_not_holder")
    IN  WakeupAll([t EXCEPT !.locks[m][w] = [by |-> Unlocked, queue |-> <<>>]],
                  s.locks[m][w].queue)

(***************************************************************************)
(* Module::FindBlock: a way matches on its tag when its state is valid, or *)
(* on its transient tag while its directory entry is locked.               *)
(***************************************************************************)
FindIgnoresTransient(s, m, a) ==
    {w \in Ways(m) : BlockTag(s, m, w) = a /\ BlockState(s, m, w) # "I"}

FindBlock(s, m, a) ==
    {w \in Ways(m) :
        \/ BlockTag(s, m, w) = a /\ BlockState(s, m, w) # "I"
        \/ s.blocks[m][w].transient = a /\ IsEntryLocked(s, m, w)}

(***************************************************************************)
(* Ports                                                                   *)
(***************************************************************************)
\* Module::LockPort: f gets a free port and runs ev, or waits for one, a
\* down-up request at the front of the queue.
LockPort(s, f, ev) ==
    LET m == s.frames[f].module
        down == s.frames[f].direction = "DownUp"
    IN  IF Cardinality(s.ports[m].holders) >= NumPorts[m]
        THEN Suspend([s EXCEPT !.ports[m].queue =
                         IF down THEN <<f>> \o @ ELSE Append(@, f)], f, ev)
        ELSE Schedule([s EXCEPT !.ports[m].holders = @ \cup {f}], f, ev)

\* A plausible slip: the port is freed without being handed over.
UnlockPortNoHandover(s, f) ==
    [s EXCEPT !.ports[s.frames[f].module].holders = @ \ {f}]

\* Module::UnlockPort: the port goes to the head of the port queue, if any.
UnlockPort(s, f) ==
    LET m == s.frames[f].module
        q == s.ports[m].queue
        t == Assert_(s, f \in s.ports[m].holders, "unlock_port_not_holder")
    IN  IF q = <<>>
        THEN [t EXCEPT !.ports[m].holders = @ \ {f}]
        ELSE Wakeup([t EXCEPT !.ports[m].holders = (@ \ {f}) \cup {Head(q)},
                              !.ports[m].queue = Tail(q)], Head(q))

\* Module::canAccess, for a module without a limit on its MSHRs.
CanAccess(s, m) == Cardinality(s.ports[m].holders) < NumPorts[m]

(***************************************************************************)
(* In-flight accesses                                                      *)
(***************************************************************************)
\* Module::StartAccess.
StartAccess(s, f, type) ==
    [s EXCEPT !.frames[f].type = type,
              !.accesses[s.frames[f].module] = Append(@, f)]

Position(s, f) ==
    LET q == s.accesses[s.frames[f].module]
    IN  CHOOSE i \in DOMAIN q : q[i] = f

\* The accesses in front of f in the access list of its module.
OlderAccesses(s, f) ==
    SubSeq(s.accesses[s.frames[f].module], 1, Position(s, f) - 1)

\* Module::getInFlightAddress: older accesses to the block of f (the one that
\* is returned depends on the order of a hash table).
InFlightAddress(s, f) ==
    {g \in ToSet(s.accesses[s.frames[f].module]) :
        /\ s.frames[g].address = s.frames[f].address
        /\ AccessId(g) < AccessId(f)}

\* Module::getInFlightWrite: the youngest store older than f, as a set.
InFlightWrite(s, f) ==
    LET q == OlderAccesses(s, f)
        stores == {i \in DOMAIN q : s.frames[q[i]].type = "store"}
    IN  IF stores = {} THEN {} ELSE {q[Max(stores)]}

(***************************************************************************)
(* Module::canCoalesce: the access that f can join, as a set.  A load      *)
(* joins a load of the same block behind which only loads were queued.  A  *)
(* store, or a non-coherent store, joins the access in front of it, when   *)
(* that is of the same kind, for the same block and holds no port.         *)
(***************************************************************************)
CanCoalesce(s, f, type) ==
    LET q == OlderAccesses(s, f)
        joins(i) ==
            /\ s.frames[q[i]].address = s.frames[f].address
            /\ \A j \in i .. Len(q) : s.frames[q[j]].type = type
            /\ IF type = "load"
               THEN \A j \in (i + 1) .. Len(q) :
                        s.frames[q[j]].address # s.frames[f].address
               ELSE i = Len(q) /\ ~ s.frames[q[i]].portLocked
        master(g) == IF s.frames[g].master = <<>> THEN g ELSE s.frames[g].master
    IN  {master(q[i]) : i \in {j \in DOMAIN q : joins(j)}}

\* Module::Coalesce, and the wait for the master access.
Coalesce(s, g, f, ev) ==
    LET t == Assert_(s, s.frames[g].master = <<>>, "two_level_coalescing")
    IN  Suspend([t EXCEPT !.frames[f].master = g,
                          !.frames[g].queue = Append(@, f)], f, ev)

\* A plausible slip: the access stays in the access list of its module.
FinishAccessStillListed(s, f) ==
    WakeupAll([s EXCEPT !.frames[f].queue = <<>>], s.frames[f].queue)

\* Module::FinishAccess.
FinishAccess(s, f) ==
    LET m == s.frames[f].module
        q == s.frames[f].queue
        t == [s EXCEPT
               !.accesses[m] = Remove(@, f),
               !.frames = [g \in DOMAIN @ |->
                            IF @[g].master = f THEN [@[g] EXCEPT !.master = <<>>]
                                               ELSE @[g]]]
    IN  WakeupAll([t EXCEPT !.frames[f].queue = <<>>], q)

=============================================================================
