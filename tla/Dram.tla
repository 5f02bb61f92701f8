-------------------------------- MODULE Dram --------------------------------
(***************************************************************************)
(* The DRAM system (dram/System.cc, Controller.cc, Channel.cc, Bank.cc,    *)
(* Rank.cc, Scheduler.cc, Address.cc, Command.cc).  Requests are added to  *)
(* a controller, whose request processor hands one of them per cycle to    *)
(* its bank; the bank breaks it down into commands, and the scheduler of   *)
(* the channel runs the commands of its banks under the DRAM timings.      *)
(*                                                                         *)
(* A configuration cf is a record: controllers, channels, ranks, banks,    *)
(* rows and columns (numbers, the same in every controller), closed (the   *)
(* page policy), roundrobin (the scheduling policy), t (the timing         *)
(* parameters) and work (for each request the possible [type, address]).   *)
(*                                                                         *)
(* Time.  An event is in flight when its timer is a number, the cycles     *)
(* left; events of the same cycle run in any order.  Instead of the cycle  *)
(* of the last command of each type, since counts the cycles from then on, *)
(* up to MaxAge; the code starts with commands 100 cycles ago.             *)
(***************************************************************************)
EXTENDS Integers, Sequences, FiniteSets, Functions

CONSTANTS Configs,      \* the configurations
          BankIds,      \* a superset of their banks
          RequestIds,   \* a superset of the requests, by number
          MaxAge        \* at least as large as every timing

\* System::Log2.
Log2(n) == CHOOSE k \in 0 .. n : 2 ^ k <= n /\ n < 2 ^ (k + 1)

\* Each count is a power of two: Log2 rounds down, and DecodeAddress would not
\* reach the locations beyond.
ASSUME GeometryAssumption ==
    \A c \in Configs :
        \A n \in {c.controllers, c.channels, c.ranks, c.banks, c.rows, c.columns} :
            n \in Nat \ {0} /\ 2 ^ Log2(n) = n

\* What the clients may ask for.
ASSUME WorkAssumption ==
    \A c \in Configs :
        /\ c.closed \in BOOLEAN /\ c.roundrobin \in BOOLEAN
        /\ c.work \in Seq(SUBSET [type : {"read", "write"}, address : Nat])

\* CalculateReadyCycle keeps a read behind the writes of other ranks as if they
\* were reads (Channel.cc:279).  That is enough only if a write takes no longer to
\* reach the data bus than a read.
ASSUME TimingAssumption ==
    \A c \in Configs :
        LET t == c.t
        IN  /\ {t.rc, t.rrd, t.rp, t.rcd, t.ras, t.cas, t.cwd, t.burst, t.ccd, t.rtrs,
                t.wtr, t.ost, t.rtp, t.wr} \subseteq Nat
            /\ t.cwd <= t.cas

\* Data takes time: two commands of a bank never end in the same cycle.
ASSUME BurstAssumption == \A c \in Configs : c.t.burst > 0

\* The lanes and messages of the abstract specification.
ASSUME LanesAssumption ==
    \A c \in Configs :
        /\ (0 .. c.controllers - 1) \X (0 .. c.channels - 1) \X (0 .. c.ranks - 1)
                \X (0 .. c.banks - 1) \subseteq BankIds
        /\ DOMAIN c.work \subseteq RequestIds

\* MaxAge stands for "long ago".
ASSUME AgeAssumption ==
    \A c \in Configs :
        LET t == c.t
        IN  /\ MaxAge \in Nat \ {0}
            /\ \A n \in {t.rc, t.rrd, t.rp, t.rcd, t.ras, t.burst, t.ccd, t.burst + t.rtrs,
                         t.cwd + t.burst + t.wtr, t.cas + t.burst + t.rtrs - t.cwd,
                         t.burst + t.ost, t.burst + t.rtp - t.ccd,
                         t.cwd + t.burst + t.wr} : n <= MaxAge

VARIABLES
    cf,           \* the configuration
    incoming,     \* Controller::incoming_requests
    processor,    \* timer of every controller's request processor
    scheduler,    \* timer of every channel's scheduler
    next,         \* Channel::next_scheduled_bank
    turn,         \* RankBankRoundRobin: current_rank and current_bank
    queue,        \* Bank::command_queue
    future,       \* Bank::future_active_row
    since,        \* last_scheduled_commands of every bank
    sinceRank,    \* and of every rank
    running,      \* the commands whose command_return event is in flight
    requests,     \* history: the requests in the order they were added
    finished,     \* history: those that are marked finished
    open          \* history: the row that the commands run so far have opened

vars == <<cf, incoming, processor, scheduler, next, turn, queue, future, since,
          sinceRank, running, requests, finished, open>>

NotInFlight == -1      \* a timer
NoRow == -1            \* a precharged bank
NoBank == <<>>         \* a null bank pointer
Types == {"precharge", "activate", "read", "write"}

(***************************************************************************)
(* The geometry.  A bank is <<controller, channel, rank, bank>>.           *)
(***************************************************************************)
Controllers == 0 .. cf.controllers - 1
Channels == Controllers \X (0 .. cf.channels - 1)
Ranks == Controllers \X (0 .. cf.channels - 1) \X (0 .. cf.ranks - 1)
Banks ==
    Controllers \X (0 .. cf.channels - 1) \X (0 .. cf.ranks - 1) \X (0 .. cf.banks - 1)
ChannelOf(b) == <<b[1], b[2]>>
RankOf(b) == <<b[1], b[2], b[3]>>
BanksOf(k) == {b \in Banks : ChannelOf(b) = k}

\* The banks of a channel as the schedulers enumerate them.
Position(b) == b[3] * cf.banks + b[4]

\* Address::DecodeAddress, with the sizes that Log2 gives.
FieldUnmasked(a, below, n) == a \div below     \* mutant
Field(a, below, n) == (a \div below) % (2 ^ Log2(n))

Row(a) == Field(a, 2 ^ Log2(cf.columns), cf.rows)
Bank(a) ==
    LET row == 2 ^ Log2(cf.columns) * 2 ^ Log2(cf.rows)
        bank == row * 2 ^ Log2(cf.banks)
        rank == bank * 2 ^ Log2(cf.ranks)
        logical == rank * 2 ^ Log2(cf.channels)
    IN  <<Field(a, logical, cf.controllers), Field(a, rank, cf.channels),
          Field(a, bank, cf.ranks), Field(a, row, cf.banks)>>

\* System::getCapacity.
Capacity ==
    cf.controllers * cf.channels * cf.ranks * cf.banks * cf.rows * cf.columns

(***************************************************************************)
(* Controller::ParseConfigurationTiming: the timing matrix and the command *)
(* durations.  The relation of two locations is "same" bank, "other" bank  *)
(* of the same rank, or another "rank".                                    *)
(***************************************************************************)
Larger(a, b) == IF a > b THEN a ELSE b

Timing(a, b, where) ==
    LET t == cf.t
    IN  CASE a = "activate" /\ b = "activate" /\ where = "same" -> t.rc
          [] a = "activate" /\ b = "activate" /\ where = "other" -> t.rrd
          [] a = "precharge" /\ b = "activate" /\ where = "same" -> t.rp
          [] a = "activate" /\ b \in {"read", "write"} /\ where = "same" -> t.rcd
          [] a = b /\ b \in {"read", "write"} /\ where # "rank" -> Larger(t.burst, t.ccd)
          [] a = "read" /\ b = "read" /\ where = "rank" -> t.burst + t.rtrs
          [] a = "write" /\ b = "read" /\ where # "rank" -> t.cwd + t.burst + t.wtr
          [] a = "write" /\ b = "read" /\ where = "rank" ->
                t.cwd + t.burst + t.rtrs - t.cas
          [] a = "read" /\ b = "write" -> t.cas + t.burst + t.rtrs - t.cwd
          [] a = "write" /\ b = "write" /\ where = "rank" -> t.burst + t.ost
          [] a = "activate" /\ b = "precharge" /\ where = "same" -> t.ras
          [] a = "read" /\ b = "precharge" /\ where = "same" -> t.burst + t.rtp - t.ccd
          [] a = "write" /\ b = "precharge" /\ where = "same" -> t.cwd + t.burst + t.wr
          [] OTHER -> 0

Duration(type) ==
    LET t == cf.t
    IN  CASE type = "precharge" -> t.rp
          [] type = "activate" -> t.rcd
          [] type = "read" -> t.cas + t.burst
          [] type = "write" -> t.cwd + t.burst + t.wtr

Init ==
    /\ cf \in Configs
    /\ incoming = [c \in Controllers |-> <<>>]
    /\ processor = [c \in Controllers |-> NotInFlight]
    /\ scheduler = [k \in Channels |-> NotInFlight]
    /\ next = [k \in Channels |-> NoBank]
    /\ turn = [k \in Channels |-> 0]
    /\ queue = [b \in Banks |-> <<>>]
    /\ future = [b \in Banks |-> NoRow]
    /\ since = [b \in Banks |-> [type \in Types |-> MaxAge]]
    /\ sinceRank = [r \in Ranks |-> [type \in Types |-> MaxAge]]
    /\ running = {}
    /\ requests = <<>>
    /\ finished = {}
    /\ open = [b \in Banks |-> NoRow]
-----------------------------------------------------------------------------
\* Controller::CallRequestProcessor and Channel::CallScheduler: an event that is
\* in flight is not scheduled again.
Call(timer, after) == IF timer = NotInFlight THEN after ELSE timer

(***************************************************************************)
(* System::Read and System::Write, then Controller::AddRequest.  A request *)
(* keeps its decoded address.                                              *)
(***************************************************************************)
AddRequest(type, a) ==
    LET id == Len(requests) + 1
        b == Bank(a)
    IN  /\ a <= Capacity
        /\ requests' = Append(requests, [type |-> type, bank |-> b, row |-> Row(a)])
        /\ incoming' = [incoming EXCEPT ![b[1]] = Append(@, id)]
        /\ processor' = [processor EXCEPT ![b[1]] = Call(@, 1)]
        /\ UNCHANGED <<cf, scheduler, next, turn, queue, future, since, sinceRank,
                       running, finished, open>>

(***************************************************************************)
(* Bank::ProcessRequest.  A command is [type, id], where id is the request.*)
(* The processor handles one request per cycle, so that id also orders the *)
(* commands by the cycle in which they were created.                       *)
(***************************************************************************)
Commands(id) ==
    LET b == requests[id].bank
        row == requests[id].row
        types == (IF future[b] = NoRow THEN <<"activate">>
                  ELSE IF future[b] # row THEN <<"precharge", "activate">>
                  ELSE <<>>)
                 \o <<requests[id].type>>
                 \o (IF cf.closed THEN <<"precharge">> ELSE <<>>)
    IN  [i \in DOMAIN types |-> [type |-> types[i], id |-> id]]

\* The row that is open when the commands of request id have run.
FutureRowOpen(id) == requests[id].row     \* mutant: the page policy is ignored
FutureRow(id) == IF cf.closed THEN NoRow ELSE requests[id].row

\* The request processor is called again while requests are left.
CallAgainLate(c) == IF Len(incoming[c]) > 2 THEN 1 ELSE NotInFlight     \* mutant
CallAgain(c) == IF Len(incoming[c]) > 1 THEN 1 ELSE NotInFlight

\* Controller::RunRequestProcessor.
RunRequestProcessor(c) ==
    /\ processor[c] = 0
    /\ incoming[c] # <<>>
    /\ LET id == Head(incoming[c])
           b == requests[id].bank
       IN  /\ queue' = [queue EXCEPT ![b] = @ \o Commands(id)]
           /\ future' = [future EXCEPT ![b] = FutureRow(id)]
           /\ scheduler' = [scheduler EXCEPT ![ChannelOf(b)] = Call(@, 1)]
    /\ incoming' = [incoming EXCEPT ![c] = Tail(@)]
    /\ processor' = [processor EXCEPT ![c] = CallAgain(c)]
    /\ UNCHANGED <<cf, next, turn, since, sinceRank, running, requests, finished, open>>

(***************************************************************************)
(* OldestFirst::FindNext and RankBankRoundRobin::FindNext.                 *)
(***************************************************************************)
Waiting(k) == {b \in BanksOf(k) : queue[b] # <<>>}

Oldest(k) ==
    CHOOSE b \in Waiting(k) : \A d \in Waiting(k) : Head(queue[b]).id <= Head(queue[d]).id

Distance(k, b) == (Position(b) + cf.ranks * cf.banks - turn[k] - 1) % (cf.ranks * cf.banks)
AfterTurn(k) ==
    CHOOSE b \in Waiting(k) : \A d \in Waiting(k) : Distance(k, b) <= Distance(k, d)

FindNext(k) == IF cf.roundrobin THEN AfterTurn(k) ELSE Oldest(k)

(***************************************************************************)
(* Channel::CalculateReadyCycle: the cycles that a command of this type    *)
(* has to wait at bank b, one for each rule of the code.  A write after an *)
(* activate looks at the rank, and a read after a write to another rank    *)
(* takes the timing of a read after a read.                                *)
(***************************************************************************)
\* Mutant: the commands of other banks and ranks are not looked at.
RulesOfBank(type, b) == {Timing(a, type, "same") - since[b][a] : a \in Types}

Rules(type, b) ==
    LET r == RankOf(b)
        bank(a) == Timing(a, type, "same") - since[b][a]
        rank(a) == Timing(a, type, "same") - sinceRank[r][a]
        others(a, as) == {Timing(as, type, "rank") - sinceRank[s][a] :
                            s \in {x \in Ranks : <<x[1], x[2]>> = ChannelOf(b) /\ x # r}}
    IN  CASE type = "precharge" -> {bank("activate"), bank("read"), bank("write")}
          [] type = "activate" ->
                {bank("activate"), bank("precharge")}
                    \cup {Timing("activate", "activate", "other") - since[d]["activate"] :
                            d \in {x \in Banks : RankOf(x) = r /\ x # b}}
          [] type = "read" ->
                {bank("activate"), rank("read"), rank("write")}
                    \cup others("read", "read") \cup others("write", "read")
          [] type = "write" ->
                {rank("activate"), rank("write"), rank("read")}
                    \cup others("write", "write") \cup others("read", "read")

WaitFor(type, b) ==
    LET rules == Rules(type, b) \cup {0}
    IN  CHOOSE n \in rules : \A m \in rules : m <= n

\* Channel::RunScheduler, when there is a command to run.  An earlier decision
\* that had to wait is kept.
Chosen(k) == IF next[k] # NoBank THEN next[k] ELSE FindNext(k)
NoWork(k) == next[k] = NoBank /\ Waiting(k) = {}
Turn(k) == IF cf.roundrobin THEN Position(Chosen(k)) ELSE turn[k]

\* The row that a command leaves open, where row was open before.
RowLeft(command, row) ==
    CASE command.type = "precharge" -> NoRow
      [] command.type = "activate" -> requests[command.id].row
      [] OTHER -> row

\* Bank::RunFrontCommand.
RunFrontCommand(k) ==
    LET b == Chosen(k)
        command == Head(queue[b])
    IN  /\ scheduler[k] = 0
        /\ ~ NoWork(k)
        /\ WaitFor(command.type, b) = 0
        /\ since' = [since EXCEPT ![b][command.type] = 0]
        /\ sinceRank' = [sinceRank EXCEPT ![RankOf(b)][command.type] = 0]
        /\ running' = running \cup {[type |-> command.type, id |-> command.id,
                                     left |-> Duration(command.type)]}
        /\ queue' = [queue EXCEPT ![b] = Tail(@)]
        /\ next' = [next EXCEPT ![k] = NoBank]
        /\ turn' = [turn EXCEPT ![k] = Turn(k)]
        /\ scheduler' = [scheduler EXCEPT ![k] = 1]
        /\ open' = [open EXCEPT ![b] = RowLeft(command, @)]
        /\ UNCHANGED <<cf, incoming, processor, future, requests, finished>>

\* Mutant: the scheduler is not called again.
PutOffForgotten(k) ==
    /\ scheduler[k] = 0
    /\ ~ NoWork(k)
    /\ WaitFor(Head(queue[Chosen(k)]).type, Chosen(k)) > 0
    /\ next' = [next EXCEPT ![k] = Chosen(k)]
    /\ turn' = [turn EXCEPT ![k] = Turn(k)]
    /\ scheduler' = [scheduler EXCEPT ![k] = NotInFlight]
    /\ UNCHANGED <<cf, incoming, processor, queue, future, since, sinceRank, running,
                   requests, finished, open>>

PutOff(k) ==
    LET b == Chosen(k)
        wait == WaitFor(Head(queue[b]).type, b)
    IN  /\ scheduler[k] = 0
        /\ ~ NoWork(k)
        /\ wait > 0
        /\ next' = [next EXCEPT ![k] = b]
        /\ turn' = [turn EXCEPT ![k] = Turn(k)]
        /\ scheduler' = [scheduler EXCEPT ![k] = wait]
        /\ UNCHANGED <<cf, incoming, processor, queue, future, since, sinceRank, running,
                       requests, finished, open>>

NothingToRun(k) ==
    /\ scheduler[k] = 0
    /\ NoWork(k)
    /\ scheduler' = [scheduler EXCEPT ![k] = NotInFlight]
    /\ UNCHANGED <<cf, incoming, processor, next, turn, queue, future, since, sinceRank,
                   running, requests, finished, open>>

\* Mutant: every command of a request marks it finished.
CommandReturnAny(x) ==
    /\ x.left = 0
    /\ running' = running \ {x}
    /\ finished' = finished \cup {x.id}
    /\ UNCHANGED <<cf, incoming, processor, scheduler, next, turn, queue, future, since,
                   sinceRank, requests, open>>

\* Controller::CommandReturnHandler, Command::setFinished, Request::setFinished.
CommandReturn(x) ==
    /\ x.left = 0
    /\ running' = running \ {x}
    /\ finished' = IF x.type \in {"read", "write"} THEN finished \cup {x.id} ELSE finished
    /\ UNCHANGED <<cf, incoming, processor, scheduler, next, turn, queue, future, since,
                   sinceRank, requests, open>>

(***************************************************************************)
(* The next cycle, when no event is due in this one.                       *)
(***************************************************************************)
Quiet ==
    /\ \A c \in Controllers : processor[c] # 0
    /\ \A k \in Channels : scheduler[k] # 0
    /\ \A x \in running : x.left # 0

Older(ages) == [type \in Types |-> IF ages[type] < MaxAge THEN ages[type] + 1 ELSE MaxAge]
Sooner(timer) == IF timer = NotInFlight THEN timer ELSE timer - 1

Tick ==
    /\ Quiet
    /\ processor' = [c \in Controllers |-> Sooner(processor[c])]
    /\ scheduler' = [k \in Channels |-> Sooner(scheduler[k])]
    /\ running' = {[x EXCEPT !.left = @ - 1] : x \in running}
    /\ since' = [b \in Banks |-> Older(since[b])]
    /\ sinceRank' = [r \in Ranks |-> Older(sinceRank[r])]
    /\ UNCHANGED <<cf, incoming, next, turn, queue, future, requests, finished, open>>

Step ==
    \/ \E c \in Controllers : RunRequestProcessor(c)
    \/ \E k \in Channels : RunFrontCommand(k) \/ PutOff(k) \/ NothingToRun(k)
    \/ \E x \in running : CommandReturn(x)
    \/ Tick

Client ==
    /\ Len(requests) < Len(cf.work)
    /\ \E w \in cf.work[Len(requests) + 1] : AddRequest(w.type, w.address)

Next == Client \/ Step

Spec == Init /\ [][Next]_vars

\* The engine keeps running; clients need not add requests.
FairSpec == Spec /\ WF_vars(Step)
-----------------------------------------------------------------------------
(***************************************************************************)
(* Properties.                                                             *)
(***************************************************************************)
Ids == DOMAIN requests
Home(id) == requests[id].bank

\* Types, and every decoded location exists.
TypeOK ==
    /\ cf \in Configs
    /\ requests \in Seq([type : {"read", "write"}, bank : Banks, row : 0 .. cf.rows - 1])
    /\ incoming \in [Controllers -> Seq(Ids)]
    /\ processor \in [Controllers -> -1 .. 1]
    /\ scheduler \in [Channels -> -1 .. MaxAge]
    /\ next \in [Channels -> Banks \cup {NoBank}]
    /\ \A k \in Channels : next[k] = NoBank \/ next[k] \in Waiting(k)
    /\ turn \in [Channels -> 0 .. cf.ranks * cf.banks - 1]
    /\ queue \in [Banks -> Seq([type : Types, id : Ids])]
    /\ future \in [Banks -> -1 .. cf.rows - 1]
    /\ since \in [Banks -> [Types -> 0 .. MaxAge]]
    /\ sinceRank \in [Ranks -> [Types -> 0 .. MaxAge]]
    /\ running \subseteq [type : Types, id : Ids, left : Nat]
    /\ finished \subseteq Ids
    /\ open \in [Banks -> -1 .. cf.rows - 1]

\* The row that command i of the queue of bank b leaves open, when it finds what
\* it needs.
RowAfter(b, i) ==
    IF i = 0 THEN open[b]
    ELSE IF queue[b][i].type = "precharge" THEN NoRow ELSE requests[queue[b][i].id].row

\* What a command needs: an activate a precharged bank, a precharge an open row,
\* a read or a write the row of its request.
Needs(command, row) ==
    CASE command.type = "activate" -> row = NoRow
      [] command.type = "precharge" -> row # NoRow
      [] OTHER -> row = requests[command.id].row

\* ProcessRequest plans against future_active_row, the row that will be open when
\* the queue has run: run in order from the row that is open now, the commands of
\* a queue read and write only the row of their request, activate only a
\* precharged bank, and leave the bank as future_active_row says.
RowsOpen ==
    \A b \in Banks :
        /\ \A i \in DOMAIN queue[b] : Needs(queue[b][i], RowAfter(b, i - 1))
        /\ future[b] = RowAfter(b, Len(queue[b]))

\* The data of a read or a write occupies the channel for the burst time at the
\* end of its latency (before the write-to-read time of a write).
OnBus(x) ==
    \/ x.type = "read" /\ x.left \in 1 .. cf.t.burst
    \/ x.type = "write" /\ x.left - cf.t.wtr \in 1 .. cf.t.burst

\* The timings of CalculateReadyCycle keep the data of two commands apart: at
\* most one of the commands of a channel transfers data at a time.
BusExclusive ==
    \A x, y \in running :
        x # y /\ OnBus(x) /\ OnBus(y) => ChannelOf(Home(x.id)) # ChannelOf(Home(y.id))

\* A command that is run keeps the distance of the timing matrix to the last
\* command of every type in every bank of the channel.
Where(b, d) ==
    IF b = d THEN "same" ELSE IF RankOf(b) = RankOf(d) THEN "other" ELSE "rank"
TimingsKept ==
    [][\A b \in Banks : queue'[b] # queue[b] /\ running' # running =>
          \A d \in BanksOf(ChannelOf(b)) : \A a \in Types :
              since[d][a] >= Timing(a, Head(queue[b]).type, Where(b, d))]_vars

\* A guard against scheduling an event twice never leaves work without one:
\* requests wait only while the request processor is in flight, and commands
\* only while the scheduler of their channel is.
Awake ==
    /\ \A c \in Controllers : incoming[c] # <<>> => processor[c] # NotInFlight
    /\ \A k \in Channels : Waiting(k) # {} => scheduler[k] # NotInFlight

Unfinished(b) == {id \in Ids \ finished : Home(id) = b}

\* The numbers of a finite set in increasing order.
Nth(S, i) == CHOOSE n \in {k \in S : Cardinality({m \in S : m < k}) = i - 1} : TRUE
InOrder(S) == [i \in 1 .. Cardinality(S) |-> Nth(S, i)]

\* Every bank serves its requests once and in the order they were added.
Ch == INSTANCE Channel WITH
        Lanes <- BankIds, Messages <- RequestIds,
        flight <- [b \in BankIds |-> InOrder(Unfinished(b))],
        used <- Ids
BanksInOrder == Ch!ChannelSpec

\* Every request that is added finishes.
RequestsFinish == []<>(finished = Ids)
=============================================================================
