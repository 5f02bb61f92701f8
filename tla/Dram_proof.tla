----------------------------- MODULE Dram_proof -----------------------------
(***************************************************************************)
(* Proofs about the DRAM system, for every geometry, every set of timings  *)
(* that satisfies TimingAssumption, every workload, both page policies and *)
(* both scheduling policies.                                               *)
(***************************************************************************)
EXTENDS Dram, SeqLemmas

-----------------------------------------------------------------------------
(***************************************************************************)
(* The geometry and the decoded address.                                   *)
(***************************************************************************)
\* The configuration never changes, and neither do the sets made from it.
LEMMA SameGeometry ==
    ASSUME cf' = cf
    PROVE  /\ Controllers' = Controllers /\ Channels' = Channels
           /\ Ranks' = Ranks /\ Banks' = Banks
  BY DEF Controllers, Channels, Ranks, Banks

LEMMA Counts ==
    ASSUME cf \in Configs
    PROVE  /\ cf.controllers \in Nat \ {0} /\ cf.channels \in Nat \ {0}
           /\ cf.ranks \in Nat \ {0} /\ cf.banks \in Nat \ {0}
           /\ cf.rows \in Nat \ {0} /\ cf.columns \in Nat \ {0}
  BY GeometryAssumption

\* A bank has a channel and a rank.
LEMMA BankParts ==
    ASSUME NEW b \in Banks
    PROVE  /\ ChannelOf(b) \in Channels /\ RankOf(b) \in Ranks
           /\ b[1] \in Controllers
           /\ b[3] \in 0 .. cf.ranks - 1 /\ b[4] \in 0 .. cf.banks - 1
  BY DEF Banks, Ranks, Channels, ChannelOf, RankOf

\* A field of a decoded address is smaller than the number of its locations.
LEMMA FieldType ==
    ASSUME NEW a \in Nat, NEW below \in Nat \ {0}, NEW n \in Nat \ {0}, 2 ^ Log2(n) = n
    PROVE  Field(a, below, n) \in 0 .. n - 1
<1>1. Field(a, below, n) = (a \div below) % n
  BY DEF Field
<1>2. a \div below \in Int
  OBVIOUS
<1> QED  BY <1>1, <1>2

LEMMA Positive == \A m, n \in Nat \ {0} : m * n \in Nat \ {0}
  OBVIOUS

\* DecodeAddress leads to a bank and a row that exist.
LEMMA Decoded ==
    ASSUME cf \in Configs, NEW a \in Nat
    PROVE  Bank(a) \in Banks /\ Row(a) \in 0 .. cf.rows - 1
<1> DEFINE row == 2 ^ Log2(cf.columns) * 2 ^ Log2(cf.rows)
           bank == row * 2 ^ Log2(cf.banks)
           rank == bank * 2 ^ Log2(cf.ranks)
           logical == rank * 2 ^ Log2(cf.channels)
<1>1. /\ 2 ^ Log2(cf.controllers) = cf.controllers /\ 2 ^ Log2(cf.channels) = cf.channels
      /\ 2 ^ Log2(cf.ranks) = cf.ranks /\ 2 ^ Log2(cf.banks) = cf.banks
      /\ 2 ^ Log2(cf.rows) = cf.rows /\ 2 ^ Log2(cf.columns) = cf.columns
  BY GeometryAssumption
<1>2. row \in Nat \ {0}
  BY <1>1, Counts, Positive
<1>3. bank \in Nat \ {0}
  <2> HIDE DEF row
  <2> QED  BY <1>1, <1>2, Counts, Positive
<1>4. rank \in Nat \ {0}
  <2> HIDE DEF bank
  <2> QED  BY <1>1, <1>3, Counts, Positive
<1>5. logical \in Nat \ {0}
  <2> HIDE DEF rank
  <2> QED  BY <1>1, <1>4, Counts, Positive
<1>6. Bank(a) = <<Field(a, logical, cf.controllers), Field(a, rank, cf.channels),
                  Field(a, bank, cf.ranks), Field(a, row, cf.banks)>>
  BY DEF Bank
<1> HIDE DEF row, bank, rank, logical
<1>7. /\ Field(a, logical, cf.controllers) \in 0 .. cf.controllers - 1
      /\ Field(a, rank, cf.channels) \in 0 .. cf.channels - 1
      /\ Field(a, bank, cf.ranks) \in 0 .. cf.ranks - 1
      /\ Field(a, row, cf.banks) \in 0 .. cf.banks - 1
      /\ Field(a, 2 ^ Log2(cf.columns), cf.rows) \in 0 .. cf.rows - 1
  BY <1>1, <1>2, <1>3, <1>4, <1>5, Counts, FieldType
<1> QED  BY <1>6, <1>7 DEF Row, Banks, Controllers

\* The position of a bank in the round of its channel.
LEMMA PositionType ==
    ASSUME cf \in Configs, NEW b \in Banks
    PROVE  Position(b) \in 0 .. cf.ranks * cf.banks - 1
<1>1. /\ b[3] \in 0 .. cf.ranks - 1 /\ b[4] \in 0 .. cf.banks - 1
      /\ cf.ranks \in Nat \ {0} /\ cf.banks \in Nat \ {0}
  BY BankParts, Counts
<1>2. ASSUME NEW r \in Nat \ {0}, NEW n \in Nat \ {0}, NEW x \in 0 .. r - 1, NEW y \in 0 .. n - 1
      PROVE  x * n + y \in 0 .. r * n - 1
  <2>1. x * n \in Nat /\ r * n \in Nat
    OBVIOUS
  <2>2. (r - 1 - x) * n \in Nat
    OBVIOUS
  <2>3. r * n - n - x * n = (r - 1 - x) * n
    OBVIOUS
  <2> QED  BY <2>1, <2>2, <2>3
<1> QED  BY <1>1, <1>2 DEF Position

-----------------------------------------------------------------------------
(***************************************************************************)
(* The timings and the wait that follows from them.                        *)
(***************************************************************************)
LEMMA Parameters ==
    ASSUME cf \in Configs
    PROVE  /\ cf.t.rc \in Nat /\ cf.t.rrd \in Nat /\ cf.t.rp \in Nat /\ cf.t.rcd \in Nat
           /\ cf.t.ras \in Nat /\ cf.t.cas \in Nat /\ cf.t.cwd \in Nat
           /\ cf.t.burst \in Nat /\ cf.t.ccd \in Nat /\ cf.t.rtrs \in Nat
           /\ cf.t.wtr \in Nat /\ cf.t.ost \in Nat /\ cf.t.rtp \in Nat /\ cf.t.wr \in Nat
           /\ cf.t.cwd <= cf.t.cas
           /\ MaxAge \in Nat \ {0}
  BY TimingAssumption, AgeAssumption

\* Every entry of the timing matrix is a number of cycles that MaxAge covers.
LEMMA TimingType ==
    ASSUME cf \in Configs, NEW a, NEW b, NEW where
    PROVE  Timing(a, b, where) \in Int /\ Timing(a, b, where) <= MaxAge
<1>1. /\ cf.t.rc <= MaxAge /\ cf.t.rrd <= MaxAge /\ cf.t.rp <= MaxAge
      /\ cf.t.rcd <= MaxAge /\ cf.t.ras <= MaxAge /\ cf.t.burst <= MaxAge
      /\ cf.t.ccd <= MaxAge /\ cf.t.burst + cf.t.rtrs <= MaxAge
      /\ cf.t.cwd + cf.t.burst + cf.t.wtr <= MaxAge
      /\ cf.t.cas + cf.t.burst + cf.t.rtrs - cf.t.cwd <= MaxAge
      /\ cf.t.burst + cf.t.ost <= MaxAge /\ cf.t.burst + cf.t.rtp - cf.t.ccd <= MaxAge
      /\ cf.t.cwd + cf.t.burst + cf.t.wr <= MaxAge
  BY AgeAssumption
<1>2. cf.t.cwd + cf.t.burst + cf.t.rtrs - cf.t.cas <= MaxAge
  BY <1>1, Parameters
<1>3. Larger(cf.t.burst, cf.t.ccd) \in Int /\ Larger(cf.t.burst, cf.t.ccd) <= MaxAge
  BY <1>1, Parameters DEF Larger
<1>4. Timing(a, b, where) \in
        {cf.t.rc, cf.t.rrd, cf.t.rp, cf.t.rcd, cf.t.ras, Larger(cf.t.burst, cf.t.ccd),
         cf.t.burst + cf.t.rtrs, cf.t.cwd + cf.t.burst + cf.t.wtr,
         cf.t.cwd + cf.t.burst + cf.t.rtrs - cf.t.cas,
         cf.t.cas + cf.t.burst + cf.t.rtrs - cf.t.cwd, cf.t.burst + cf.t.ost,
         cf.t.burst + cf.t.rtp - cf.t.ccd, cf.t.cwd + cf.t.burst + cf.t.wr, 0}
  BY Zenon DEF Timing
<1> QED  BY <1>1, <1>2, <1>3, <1>4, Parameters

LEMMA DurationType ==
    ASSUME cf \in Configs
    PROVE  /\ Duration("precharge") = cf.t.rp /\ Duration("activate") = cf.t.rcd
           /\ Duration("read") = cf.t.cas + cf.t.burst
           /\ Duration("write") = cf.t.cwd + cf.t.burst + cf.t.wtr
           /\ \A type \in Types : Duration(type) \in Nat
<1>1. /\ Duration("precharge") = cf.t.rp /\ Duration("activate") = cf.t.rcd
      /\ Duration("read") = cf.t.cas + cf.t.burst
      /\ Duration("write") = cf.t.cwd + cf.t.burst + cf.t.wtr
  BY DEF Duration
<1> QED  BY <1>1, Parameters DEF Types

\* The ages of the last commands.
AgesOK ==
    /\ cf \in Configs
    /\ since \in [Banks -> [Types -> 0 .. MaxAge]]
    /\ sinceRank \in [Ranks -> [Types -> 0 .. MaxAge]]

LEMMA Ages ==
    ASSUME AgesOK, NEW a \in Types
    PROVE  /\ \A b \in Banks : since[b][a] \in 0 .. MaxAge
           /\ \A r \in Ranks : sinceRank[r][a] \in 0 .. MaxAge
  BY DEF AgesOK

\* Every rule gives a number of cycles, at most MaxAge.
LEMMA RulesType ==
    ASSUME AgesOK, NEW b \in Banks, NEW type \in Types, NEW m \in Rules(type, b)
    PROVE  m \in Int /\ m <= MaxAge
<1>0. cf \in Configs /\ RankOf(b) \in Ranks /\ MaxAge \in Nat
  BY BankParts, Parameters DEF AgesOK
<1>1. ASSUME NEW c, NEW where, NEW n \in 0 .. MaxAge
      PROVE  Timing(c, type, where) - n \in Int /\ Timing(c, type, where) - n <= MaxAge
  BY <1>0, TimingType
<1>2. \E c \in Types, where \in {"same", "other", "rank"}, n \in 0 .. MaxAge :
         m = Timing(c, type, where) - n
  <2>1. /\ \A a \in Types : \A d \in Banks : since[d][a] \in 0 .. MaxAge
        /\ \A a \in Types : \A r \in Ranks : sinceRank[r][a] \in 0 .. MaxAge
    BY Ages
  <2>2. {"precharge", "activate", "read", "write"} = Types
    BY DEF Types
  <2>3. CASE type = "precharge"
    BY <1>0, <2>1, <2>2, <2>3 DEF Rules
  <2>4. CASE type = "activate"
    BY <1>0, <2>1, <2>2, <2>4 DEF Rules
  <2>5. CASE type = "read"
    BY <1>0, <2>1, <2>2, <2>5 DEF Rules
  <2>6. CASE type = "write"
    BY <1>0, <2>1, <2>2, <2>6 DEF Rules
  <2>7. type \in {"precharge", "activate", "read", "write"}
    BY DEF Types
  <2> QED  BY <2>3, <2>4, <2>5, <2>6, <2>7
<1> QED  BY <1>1, <1>2

\* CalculateReadyCycle: the wait is the longest that a rule asks for.
LEMMA WaitForType ==
    ASSUME AgesOK, NEW b \in Banks, NEW type \in Types
    PROVE  /\ WaitFor(type, b) \in 0 .. MaxAge
           /\ \A m \in Rules(type, b) : m \in Int /\ m <= WaitFor(type, b)
<1> DEFINE rules == Rules(type, b) \cup {0}
<1>0. MaxAge \in Nat /\ MaxAge \in Int
  BY Parameters DEF AgesOK
<1>1. \A m \in Rules(type, b) : m \in Int /\ m <= MaxAge
  BY RulesType
<1>2. rules \in SUBSET Int /\ rules # {} /\ \A m \in rules : m <= MaxAge
  BY <1>0, <1>1
<1>3. \E n \in rules : \A m \in rules : m <= n
  <2> HIDE DEF rules
  <2> QED  BY <1>0, <1>2, GreatestExists, Zenon
<1>4. WaitFor(type, b) \in rules /\ \A m \in rules : m <= WaitFor(type, b)
  <2>1. WaitFor(type, b) = CHOOSE n \in rules : \A m \in rules : m <= n
    BY DEF WaitFor
  <2> HIDE DEF rules
  <2> QED  BY <1>3, <2>1, Zenon
<1> QED  BY <1>0, <1>1, <1>2, <1>4

-----------------------------------------------------------------------------
(***************************************************************************)
(* The choice of the scheduler.                                            *)
(***************************************************************************)
\* Whatever the policy, the bank that is chosen has a command to run.
LEMMA ChosenWaits ==
    ASSUME TypeOK, NEW k \in Channels, ~ NoWork(k)
    PROVE  /\ Chosen(k) \in Banks /\ ChannelOf(Chosen(k)) = k
           /\ queue[Chosen(k)] # <<>>
           /\ queue[Chosen(k)] \in Seq([type : Types, id : Ids])
           /\ Head(queue[Chosen(k)]) \in [type : Types, id : Ids]
<1>0. cf \in Configs /\ queue \in [Banks -> Seq([type : Types, id : Ids])]
  BY DEF TypeOK
<1>1. \A b \in Waiting(k) : /\ b \in Banks /\ ChannelOf(b) = k /\ queue[b] # <<>>
                            /\ queue[b] \in Seq([type : Types, id : Ids])
                            /\ Head(queue[b]) \in [type : Types, id : Ids]
  <2> SUFFICES ASSUME NEW b \in Waiting(k)
               PROVE  /\ b \in Banks /\ ChannelOf(b) = k /\ queue[b] # <<>>
                      /\ queue[b] \in Seq([type : Types, id : Ids])
                      /\ Head(queue[b]) \in [type : Types, id : Ids]
    OBVIOUS
  <2>1. b \in Banks /\ ChannelOf(b) = k /\ queue[b] # <<>>
    BY DEF Waiting, BanksOf
  <2>2. queue[b] \in Seq([type : Types, id : Ids])
    BY <1>0, <2>1
  <2> QED  BY <2>1, <2>2, TailRange
<1>2. CASE next[k] # NoBank
  <2>1. Chosen(k) \in Waiting(k)
    BY <1>2 DEF Chosen, TypeOK
  <2> QED  BY <1>1, <2>1
<1>3. CASE next[k] = NoBank
  <2>0. Waiting(k) # {} /\ Chosen(k) = FindNext(k)
    BY <1>3 DEF NoWork, Chosen
  <2>1. CASE cf.roundrobin
    <3> DEFINE f == [b \in Waiting(k) |-> Distance(k, b)]
    <3>1. \A b \in Waiting(k) : Distance(k, b) \in Nat
      <4>1. cf.ranks * cf.banks \in Nat \ {0}
        BY <1>0, Counts, Positive
      <4>2. turn[k] \in Int
        BY <1>0, <4>1 DEF TypeOK
      <4>3. \A b \in Waiting(k) : Position(b) \in Int
        BY <1>0, <1>1, <4>1, PositionType
      <4> DEFINE n == cf.ranks * cf.banks
      <4>4. \A b \in Waiting(k) : Distance(k, b) = (Position(b) + n - turn[k] - 1) % n
        BY DEF Distance
      <4> HIDE DEF n
      <4>5. n \in Nat \ {0}
        BY <4>1 DEF n
      <4> QED  BY <4>2, <4>3, <4>4, <4>5
    <3>2. f \in [Waiting(k) -> Nat] /\ \A b \in Waiting(k) : f[b] = Distance(k, b)
      BY <3>1
    <3> HIDE DEF f
    <3>3. \E b \in Waiting(k) : \A d \in Waiting(k) : f[b] <= f[d]
      BY <2>0, <3>2, LeastExists
    <3>4. AfterTurn(k) \in Waiting(k)
      BY <3>2, <3>3 DEF AfterTurn
    <3> QED  BY <1>1, <2>0, <2>1, <3>4 DEF FindNext
  <2>2. CASE ~ cf.roundrobin
    <3> DEFINE f == [b \in Waiting(k) |-> Head(queue[b]).id]
    <3>1. \A b \in Waiting(k) : Head(queue[b]).id \in Nat
      <4>1. Ids \subseteq Nat
        <5>1. DOMAIN requests = 1 .. Len(requests)
          BY DEF TypeOK
        <5> QED  BY <5>1 DEF Ids
      <4> QED  BY <1>1, <4>1
    <3>2. f \in [Waiting(k) -> Nat] /\ \A b \in Waiting(k) : f[b] = Head(queue[b]).id
      BY <3>1
    <3> HIDE DEF f
    <3>3. \E b \in Waiting(k) : \A d \in Waiting(k) : f[b] <= f[d]
      BY <2>0, <3>2, LeastExists
    <3>4. Oldest(k) \in Waiting(k)
      BY <3>2, <3>3 DEF Oldest
    <3> QED  BY <1>1, <2>0, <2>2, <3>4 DEF FindNext
  <2> QED  BY <2>1, <2>2
<1> QED  BY <1>2, <1>3

-----------------------------------------------------------------------------
(***************************************************************************)
(* Type correctness, one lemma per action.                                 *)
(***************************************************************************)
\* The types in the geometry of the old state, when no request is added.
LEMMA TypeStep ==
    ASSUME TypeOK, cf' = cf, requests' = requests,
           incoming' \in [Controllers -> Seq(Ids)],
           processor' \in [Controllers -> -1 .. 1],
           scheduler' \in [Channels -> -1 .. MaxAge],
           next' \in [Channels -> Banks \cup {NoBank}],
           \A k \in Channels : \/ next'[k] = NoBank
                               \/ ChannelOf(next'[k]) = k /\ queue'[next'[k]] # <<>>,
           turn' \in [Channels -> 0 .. cf.ranks * cf.banks - 1],
           queue' \in [Banks -> Seq([type : Types, id : Ids])],
           future' \in [Banks -> -1 .. cf.rows - 1],
           since' \in [Banks -> [Types -> 0 .. MaxAge]],
           sinceRank' \in [Ranks -> [Types -> 0 .. MaxAge]],
           running' \subseteq [type : Types, id : Ids, left : Nat],
           finished' \subseteq Ids,
           open' \in [Banks -> -1 .. cf.rows - 1]
    PROVE  TypeOK'
<1>1. /\ Controllers' = Controllers /\ Channels' = Channels
      /\ Ranks' = Ranks /\ Banks' = Banks /\ Ids' = Ids
  BY SameGeometry DEF Ids
<1>2. ASSUME NEW k \in Channels
      PROVE  next'[k] = NoBank \/ next'[k] \in Waiting(k)'
  <2>1. next'[k] \in Banks \cup {NoBank}
    OBVIOUS
  <2> QED  BY <1>1, <2>1 DEF Waiting, BanksOf, ChannelOf
<1>3. /\ requests' \in Seq([type : {"read", "write"}, bank : Banks, row : 0 .. cf.rows - 1])
      /\ cf' \in Configs
  BY DEF TypeOK
<1> QED  BY <1>1, <1>2, <1>3 DEF TypeOK

\* What TypeOK says of the decision that was put off.
LEMMA NextType ==
    ASSUME TypeOK, NEW k \in Channels, next[k] # NoBank
    PROVE  next[k] \in Banks /\ ChannelOf(next[k]) = k /\ queue[next[k]] # <<>>
  BY DEF TypeOK, Waiting, BanksOf

\* A timer that is called is in flight.
LEMMA CallType == \A timer \in -1 .. 1 : Call(timer, 1) \in 0 .. 1
  BY DEF Call, NotInFlight

\* AddRequest.
LEMMA AddRequestType ==
    ASSUME TypeOK, NEW type \in {"read", "write"}, NEW a \in Nat, AddRequest(type, a)
    PROVE  TypeOK'
<1> DEFINE b == Bank(a)
           R == [type : {"read", "write"}, bank : Banks, row : 0 .. cf.rows - 1]
           new == [type |-> type, bank |-> b, row |-> Row(a)]
           id == Len(requests) + 1
<1>0. cf \in Configs /\ cf' = cf /\ requests \in Seq(R)
  BY DEF AddRequest, TypeOK
<1>1. b \in Banks /\ Row(a) \in 0 .. cf.rows - 1 /\ b[1] \in Controllers
  BY <1>0, Decoded, BankParts
<1> HIDE DEF b
<1>2. new \in R
  BY <1>1
<1>3. requests' = Append(requests, new)
  BY DEF AddRequest, b
<1>4. requests' \in Seq(R) /\ Ids' = Ids \cup {id} /\ id \in Ids'
  <2> HIDE DEF new, R
  <2> QED  BY <1>0, <1>2, <1>3 DEF Ids
<1>5. /\ Controllers' = Controllers /\ Channels' = Channels
      /\ Ranks' = Ranks /\ Banks' = Banks
  BY <1>0, SameGeometry
<1>6. incoming' \in [Controllers -> Seq(Ids')]
  <2>1. incoming \in [Controllers -> Seq(Ids)]
    BY DEF TypeOK
  <2>2. incoming' = [incoming EXCEPT ![b[1]] = Append(@, id)]
    BY DEF AddRequest, b
  <2>3. \A c \in Controllers : incoming[c] \in Seq(Ids')
    BY <1>4, <2>1
  <2>4. Append(incoming[b[1]], id) \in Seq(Ids')
    BY <1>1, <1>4, <2>3
  <2> HIDE DEF id
  <2> QED  BY <1>1, <2>1, <2>2, <2>3, <2>4
<1>7. processor' \in [Controllers -> -1 .. 1]
  <2>1. processor \in [Controllers -> -1 .. 1]
    BY DEF TypeOK
  <2>2. processor' = [processor EXCEPT ![b[1]] = Call(@, 1)]
    BY DEF AddRequest, b
  <2> QED  BY <1>1, <2>1, <2>2, CallType
<1>8. queue' \in [Banks -> Seq([type : Types, id : Ids'])]
  <2>1. queue' = queue /\ queue \in [Banks -> Seq([type : Types, id : Ids])]
    BY DEF AddRequest, TypeOK
  <2>2. [type : Types, id : Ids] \subseteq [type : Types, id : Ids']
    BY <1>4
  <2> DEFINE C == [type : Types, id : Ids]
             C2 == [type : Types, id : Ids']
  <2>3. C \subseteq C2 /\ queue' \in [Banks -> Seq(C)]
    BY <2>1, <2>2
  <2> HIDE DEF C, C2
  <2>4. \A d \in Banks : queue'[d] \in Seq(C2)
    BY <2>3, SeqWider
  <2>5. queue' \in [Banks -> Seq(C2)]
    BY <2>3, <2>4
  <2> QED  BY <2>5 DEF C2
<1>9. running' \subseteq [type : Types, id : Ids', left : Nat] /\ finished' \subseteq Ids'
  BY <1>4 DEF AddRequest, TypeOK
<1>10. \A k \in Channels : next'[k] = NoBank \/ next'[k] \in Waiting(k)'
  BY <1>5 DEF AddRequest, TypeOK, Waiting, BanksOf, ChannelOf
<1>11. /\ scheduler' = scheduler /\ next' = next /\ turn' = turn /\ future' = future
       /\ since' = since /\ sinceRank' = sinceRank /\ open' = open
  BY DEF AddRequest
<1> QED  BY <1>0, <1>4, <1>5, <1>6, <1>7, <1>8, <1>9, <1>10, <1>11 DEF TypeOK

\* How many commands prepare the row of request id, and how many follow its data.
Before(id) == IF future[requests[id].bank] = NoRow THEN 1
              ELSE IF future[requests[id].bank] # requests[id].row THEN 2 ELSE 0
After == IF cf.closed THEN 1 ELSE 0

\* The commands of a request: its row is made ready, the data follows, and the
\* closed page policy precharges the bank.
LEMMA CommandsShape ==
    ASSUME TypeOK, NEW id \in Ids
    PROVE  /\ Commands(id) \in Seq([type : Types, id : Ids])
           /\ Len(Commands(id)) = Before(id) + 1 + After
           /\ \A i \in 1 .. Len(Commands(id)) : Commands(id)[i].id = id
           /\ Before(id) = 1 => Commands(id)[1].type = "activate"
           /\ Before(id) = 2 => /\ Commands(id)[1].type = "precharge"
                                /\ Commands(id)[2].type = "activate"
           /\ Commands(id)[Before(id) + 1].type = requests[id].type
           /\ After = 1 => Commands(id)[Before(id) + 2].type = "precharge"
<1> DEFINE b == requests[id].bank
           row == requests[id].row
           pre == IF future[b] = NoRow THEN <<"activate">>
                  ELSE IF future[b] # row THEN <<"precharge", "activate">> ELSE <<>>
           mid == <<requests[id].type>>
           post == IF cf.closed THEN <<"precharge">> ELSE <<>>
           types == pre \o mid \o post
<1>1. /\ requests[id].type \in {"read", "write"} /\ requests[id].type \in Types
      /\ cf.closed \in BOOLEAN
  <2>1. cf.closed \in BOOLEAN
    BY WorkAssumption DEF TypeOK
  <2> DEFINE R == [type : {"read", "write"}, bank : Banks, row : 0 .. cf.rows - 1]
  <2>2. requests[id] \in R
    <3>1. requests \in Seq(R)
      BY DEF TypeOK
    <3> HIDE DEF R
    <3> QED  BY <3>1 DEF Ids
  <2> QED  BY <2>1, <2>2 DEF Types
<1>2. Commands(id) = [i \in DOMAIN types |-> [type |-> types[i], id |-> id]]
  BY DEF Commands
<1>3. /\ pre \in Seq(Types) /\ Len(pre) = Before(id)
      /\ Before(id) = 1 => pre[1] = "activate"
      /\ Before(id) = 2 => pre[1] = "precharge" /\ pre[2] = "activate"
      /\ Before(id) \in 0 .. 2
  <2>1. CASE future[b] = NoRow
    BY <2>1 DEF Before, Types
  <2>2. CASE future[b] # NoRow /\ future[b] # row
    BY <2>2 DEF Before, Types
  <2>3. CASE future[b] # NoRow /\ future[b] = row
    BY <2>3 DEF Before, Types
  <2> QED  BY <2>1, <2>2, <2>3
<1>4. mid \in Seq(Types) /\ Len(mid) = 1 /\ mid[1] = requests[id].type
  BY <1>1
<1>5. /\ post \in Seq(Types) /\ Len(post) = After /\ After \in 0 .. 1
      /\ After = 1 => post[1] = "precharge"
  <2>1. CASE cf.closed
    BY <2>1 DEF After, Types
  <2>2. CASE ~ cf.closed
    BY <2>2 DEF After, Types
  <2> QED  BY <2>1, <2>2
<1> HIDE DEF pre, mid, post
<1>6. /\ types \in Seq(Types) /\ Len(types) = Before(id) + 1 + After
      /\ \A i \in 1 .. Before(id) : types[i] = pre[i]
      /\ types[Before(id) + 1] = mid[1]
      /\ After = 1 => types[Before(id) + 2] = post[1]
  <2> DEFINE q == pre \o mid
  <2>1. /\ q \in Seq(Types) /\ Len(q) = Before(id) + 1
        /\ \A i \in 1 .. Before(id) : q[i] = pre[i]
        /\ q[Before(id) + 1] = mid[1]
    <3>1. /\ q \in Seq(Types) /\ Len(q) = Len(pre) + Len(mid)
          /\ \A i \in 1 .. Len(pre) : q[i] = pre[i]
          /\ \A i \in 1 .. Len(mid) : q[Len(pre) + i] = mid[i]
      <4>1. pre \in Seq(Types) /\ mid \in Seq(Types)
        BY <1>3, <1>4
      <4> QED  BY <4>1, ConcatIndex
    <3> HIDE DEF q
    <3> QED  BY <1>3, <1>4, <3>1
  <2> HIDE DEF q
  <2>2. types = q \o post
    BY DEF q
  <2>3. /\ types \in Seq(Types) /\ Len(types) = Before(id) + 1 + After
        /\ \A i \in 1 .. Before(id) + 1 : types[i] = q[i]
        /\ After = 1 => types[Before(id) + 2] = post[1]
    BY <1>3, <1>5, <2>1, <2>2, ConcatIndex
  <2> HIDE DEF types
  <2> QED  BY <1>3, <2>1, <2>3
<1> HIDE DEF types
<1> DEFINE n == Before(id) + 1 + After
<1>7. DOMAIN types = 1 .. n /\ n \in Nat
  BY <1>3, <1>5, <1>6
<1>8. \A i \in 1 .. n : Commands(id)[i] = [type |-> types[i], id |-> id] /\ types[i] \in Types
  BY <1>2, <1>6, <1>7
<1>9. Commands(id) \in [1 .. n -> [type : Types, id : Ids]]
  BY <1>2, <1>7, <1>8
<1>10. Commands(id) \in Seq([type : Types, id : Ids]) /\ Len(Commands(id)) = n
  <2> DEFINE C == [type : Types, id : Ids]
             c == Commands(id)
  <2> HIDE DEF n, C, c
  <2>1. c \in [1 .. n -> C] /\ n \in Nat
    BY <1>7, <1>9 DEF C, c
  <2>2. c \in Seq(C) /\ Len(c) = n
    BY <2>1
  <2> QED  BY <2>2 DEF C, c
<1>11. /\ Before(id) >= 1 => 1 \in 1 .. n
       /\ Before(id) = 2 => 2 \in 1 .. n
       /\ Before(id) + 1 \in 1 .. n
       /\ After = 1 => Before(id) + 2 \in 1 .. n
  <2>1. Before(id) \in 0 .. 2 /\ After \in 0 .. 1
    BY <1>3, <1>5
  <2> QED  BY <2>1
<1> HIDE DEF n
<1>12. ASSUME NEW i \in 1 .. n
       PROVE  Commands(id)[i].id = id /\ Commands(id)[i].type = types[i]
  <2>1. Commands(id)[i] = [type |-> types[i], id |-> id]
    BY <1>8
  <2> QED  BY <2>1
<1>13. /\ Before(id) = 1 => types[1] = "activate"
       /\ Before(id) = 2 => types[1] = "precharge" /\ types[2] = "activate"
       /\ types[Before(id) + 1] = requests[id].type
       /\ After = 1 => types[Before(id) + 2] = "precharge"
  BY <1>3, <1>4, <1>5, <1>6
<1> QED  BY <1>3, <1>10, <1>11, <1>12, <1>13 DEF n

\* What a waiting request says.
LEMMA RequestType ==
    ASSUME TypeOK, NEW id \in Ids
    PROVE  /\ requests[id].type \in {"read", "write"} /\ requests[id].bank \in Banks
           /\ requests[id].row \in 0 .. cf.rows - 1
           /\ FutureRow(id) \in -1 .. cf.rows - 1
           /\ cf.rows \in Nat \ {0} /\ cf.closed \in BOOLEAN
<1> DEFINE R == [type : {"read", "write"}, bank : Banks, row : 0 .. cf.rows - 1]
<1>1. requests[id] \in R
  <2>1. requests \in Seq(R)
    BY DEF TypeOK
  <2> HIDE DEF R
  <2> QED  BY <2>1 DEF Ids
<1>2. cf.rows \in Nat \ {0} /\ cf.closed \in BOOLEAN
  BY Counts, WorkAssumption DEF TypeOK
<1>3. FutureRow(id) \in -1 .. cf.rows - 1
  BY <1>1, <1>2 DEF FutureRow, NoRow
<1> QED  BY <1>1, <1>2, <1>3

\* What a step of the request processor does to the bank of the first request.
LEMMA ProcessorStep ==
    ASSUME TypeOK, NEW c \in Controllers, RunRequestProcessor(c)
    PROVE  LET id == Head(incoming[c])
               b == requests[id].bank
           IN  /\ id \in Ids /\ b \in Banks
               /\ queue' = [queue EXCEPT ![b] = @ \o Commands(id)]
               /\ queue'[b] = queue[b] \o Commands(id)
               /\ queue' \in [Banks -> Seq([type : Types, id : Ids])]
               /\ \A d \in Banks : d # b => queue'[d] = queue[d]
               /\ \A d \in Banks : queue[d] # <<>> => queue'[d] # <<>>
               /\ future' = [future EXCEPT ![b] = FutureRow(id)]
               /\ scheduler' = [scheduler EXCEPT ![ChannelOf(b)] = Call(@, 1)]
               /\ incoming' = [incoming EXCEPT ![c] = Tail(@)]
               /\ processor' = [processor EXCEPT ![c] = CallAgain(c)]
               /\ incoming[c] # <<>> /\ incoming[c] \in Seq(Ids)
<1> DEFINE id == Head(incoming[c])
           b == requests[id].bank
           C == [type : Types, id : Ids]
<1>1. /\ queue' = [queue EXCEPT ![b] = @ \o Commands(id)]
      /\ future' = [future EXCEPT ![b] = FutureRow(id)]
      /\ scheduler' = [scheduler EXCEPT ![ChannelOf(b)] = Call(@, 1)]
      /\ incoming' = [incoming EXCEPT ![c] = Tail(@)]
      /\ processor' = [processor EXCEPT ![c] = CallAgain(c)]
      /\ incoming[c] # <<>>
  BY DEF RunRequestProcessor
<1>2. incoming[c] \in Seq(Ids) /\ queue \in [Banks -> Seq(C)]
  BY DEF TypeOK
<1>3. id \in Ids
  BY <1>1, <1>2, TailRange
<1> HIDE DEF id
<1>4. b \in Banks
  BY <1>3, RequestType
<1>5. Commands(id) \in Seq(C) /\ Len(Commands(id)) \in Nat
  <2>1. Commands(id) \in Seq(C)
    BY <1>3, CommandsShape
  <2> HIDE DEF C
  <2> QED  BY <2>1
<1> HIDE DEF b, C
<1>6. /\ queue[b] \o Commands(id) \in Seq(C) /\ queue'[b] = queue[b] \o Commands(id)
      /\ \A d \in Banks : d # b => queue'[d] = queue[d]
      /\ queue' \in [Banks -> Seq(C)]
  <2> DEFINE new == queue[b] \o Commands(id)
  <2>1. new \in Seq(C) /\ queue' = [queue EXCEPT ![b] = new]
    BY <1>1, <1>2, <1>4, <1>5, ConcatIndex
  <2> HIDE DEF new
  <2>2. /\ queue'[b] = new /\ queue' \in [Banks -> Seq(C)]
        /\ \A d \in Banks : d # b => queue'[d] = queue[d]
    BY <1>2, <1>4, <2>1
  <2> QED  BY <2>1, <2>2 DEF new
<1>7. ASSUME NEW d \in Banks, queue[d] # <<>>
      PROVE  queue'[d] # <<>>
  <2>1. CASE d # b
    BY <1>6, <1>7, <2>1
  <2>2. CASE d = b
    <3>1. queue[b] \in Seq(C) /\ queue[b] # <<>>
      BY <1>2, <1>4, <1>7, <2>2
    <3>2. Len(queue[b]) # 0 /\ Len(queue[b]) \in Nat
      BY <3>1
    <3>3. Len(queue'[b]) # 0
      BY <1>5, <1>6, <3>1, <3>2, ConcatIndex
    <3> QED  BY <2>2, <3>3
  <2> QED  BY <2>1, <2>2
<1> QED  BY <1>1, <1>2, <1>3, <1>4, <1>6, <1>7, Zenon DEF id, b, C

LEMMA ProcessorType ==
    ASSUME TypeOK, NEW c \in Controllers, RunRequestProcessor(c)
    PROVE  TypeOK'
<1> DEFINE id == Head(incoming[c])
           b == requests[id].bank
<1>0. /\ cf' = cf /\ next' = next /\ turn' = turn /\ since' = since
      /\ sinceRank' = sinceRank /\ running' = running /\ requests' = requests
      /\ finished' = finished /\ open' = open
  BY DEF RunRequestProcessor
<1>1. /\ id \in Ids /\ b \in Banks
      /\ queue' \in [Banks -> Seq([type : Types, id : Ids])]
      /\ \A d \in Banks : queue[d] # <<>> => queue'[d] # <<>>
      /\ future' = [future EXCEPT ![b] = FutureRow(id)]
      /\ scheduler' = [scheduler EXCEPT ![ChannelOf(b)] = Call(@, 1)]
      /\ incoming' = [incoming EXCEPT ![c] = Tail(@)]
      /\ processor' = [processor EXCEPT ![c] = CallAgain(c)]
      /\ incoming[c] # <<>> /\ incoming[c] \in Seq(Ids)
  BY ProcessorStep
<1> HIDE DEF id, b
<1>2. ChannelOf(b) \in Channels /\ FutureRow(id) \in -1 .. cf.rows - 1
  BY <1>1, BankParts, RequestType
<1>3. future' \in [Banks -> -1 .. cf.rows - 1]
  BY <1>1, <1>2 DEF TypeOK
<1>4. scheduler' \in [Channels -> -1 .. MaxAge]
  <2>1. scheduler \in [Channels -> -1 .. MaxAge] /\ MaxAge \in Nat \ {0}
    BY Parameters DEF TypeOK
  <2>2. Call(scheduler[ChannelOf(b)], 1) \in -1 .. MaxAge
    BY <1>2, <2>1 DEF Call
  <2> QED  BY <1>1, <1>2, <2>1, <2>2
<1>5. processor' \in [Controllers -> -1 .. 1]
  <2>1. CallAgain(c) \in -1 .. 1
    BY DEF CallAgain, NotInFlight
  <2> QED  BY <1>1, <2>1 DEF TypeOK
<1>6. incoming' \in [Controllers -> Seq(Ids)]
  <2>1. Tail(incoming[c]) \in Seq(Ids) /\ incoming \in [Controllers -> Seq(Ids)]
    BY <1>1, TailRange DEF TypeOK
  <2> QED  BY <1>1, <2>1
<1>7. \A k \in Channels : \/ next'[k] = NoBank
                          \/ ChannelOf(next'[k]) = k /\ queue'[next'[k]] # <<>>
  BY <1>0, <1>1, NextType
<1>8. /\ next' \in [Channels -> Banks \cup {NoBank}]
      /\ turn' \in [Channels -> 0 .. cf.ranks * cf.banks - 1]
      /\ since' \in [Banks -> [Types -> 0 .. MaxAge]]
      /\ sinceRank' \in [Ranks -> [Types -> 0 .. MaxAge]]
      /\ running' \subseteq [type : Types, id : Ids, left : Nat]
      /\ finished' \subseteq Ids /\ open' \in [Banks -> -1 .. cf.rows - 1]
  BY <1>0 DEF TypeOK
<1> QED  BY <1>0, <1>1, <1>3, <1>4, <1>5, <1>6, <1>7, <1>8, TypeStep

\* What running the front command of bank b does.
FrontEffect(k, b, command) ==
    /\ b \in Banks /\ ChannelOf(b) = k /\ RankOf(b) \in Ranks
    /\ queue[b] # <<>> /\ queue[b] \in Seq([type : Types, id : Ids])
    /\ command.type \in Types /\ command.id \in Ids /\ command = queue[b][1]
    /\ WaitFor(command.type, b) = 0
    /\ since' = [since EXCEPT ![b][command.type] = 0]
    /\ sinceRank' = [sinceRank EXCEPT ![RankOf(b)][command.type] = 0]
    /\ running' = running \cup {[type |-> command.type, id |-> command.id,
                                 left |-> Duration(command.type)]}
    /\ queue' = [queue EXCEPT ![b] = Tail(@)]
    /\ queue'[b] = Tail(queue[b])
    /\ \A d \in Banks : d # b => queue'[d] = queue[d]
    /\ next' = [next EXCEPT ![k] = NoBank]
    /\ turn' = [turn EXCEPT ![k] = Turn(k)]
    /\ scheduler' = [scheduler EXCEPT ![k] = 1]
    /\ open' = [open EXCEPT ![b] = RowLeft(command, @)]
    /\ cf' = cf /\ incoming' = incoming /\ processor' = processor
    /\ future' = future /\ requests' = requests /\ finished' = finished

LEMMA FrontStep ==
    ASSUME TypeOK, NEW k \in Channels, RunFrontCommand(k)
    PROVE  \E b, command : FrontEffect(k, b, command)
<1> SUFFICES ASSUME NEW b, b = Chosen(k), NEW command, command = Head(queue[b])
             PROVE  FrontEffect(k, b, command)
  BY Zenon
<1>1. /\ b \in Banks /\ ChannelOf(b) = k /\ queue[b] # <<>>
      /\ queue[b] \in Seq([type : Types, id : Ids])
      /\ command \in [type : Types, id : Ids]
  BY ChosenWaits DEF RunFrontCommand
<1>2. RankOf(b) \in Ranks
  BY <1>1, BankParts
<1>3. /\ WaitFor(command.type, b) = 0
      /\ since' = [since EXCEPT ![b][command.type] = 0]
      /\ sinceRank' = [sinceRank EXCEPT ![RankOf(b)][command.type] = 0]
      /\ running' = running \cup {[type |-> command.type, id |-> command.id,
                                   left |-> Duration(command.type)]}
      /\ queue' = [queue EXCEPT ![b] = Tail(@)]
      /\ next' = [next EXCEPT ![k] = NoBank]
      /\ turn' = [turn EXCEPT ![k] = Turn(k)]
      /\ scheduler' = [scheduler EXCEPT ![k] = 1]
      /\ open' = [open EXCEPT ![b] = RowLeft(command, @)]
      /\ cf' = cf /\ incoming' = incoming /\ processor' = processor
      /\ future' = future /\ requests' = requests /\ finished' = finished
  BY Zenon DEF RunFrontCommand
<1>4. /\ queue'[b] = Tail(queue[b])
      /\ \A d \in Banks : d # b => queue'[d] = queue[d]
  <2>1. queue \in [Banks -> Seq([type : Types, id : Ids])]
    BY DEF TypeOK
  <2> QED  BY <1>1, <1>3, <2>1
<1>5. command.type \in Types /\ command.id \in Ids
  BY <1>1
<1>6. command = queue[b][1]
  <2> DEFINE C == [type : Types, id : Ids]
  <2>1. queue[b] \in Seq(C) /\ queue[b] # <<>>
    BY <1>1
  <2> HIDE DEF C
  <2> QED  BY <2>1
<1> QED  BY <1>1, <1>2, <1>3, <1>4, <1>5, <1>6 DEF FrontEffect

\* The round goes on from a bank of the channel.
LEMMA TurnType ==
    ASSUME TypeOK, NEW k \in Channels, ~ NoWork(k)
    PROVE  Turn(k) \in 0 .. cf.ranks * cf.banks - 1
<1>1. Position(Chosen(k)) \in 0 .. cf.ranks * cf.banks - 1
  BY ChosenWaits, PositionType DEF TypeOK
<1>2. turn[k] \in 0 .. cf.ranks * cf.banks - 1
  BY DEF TypeOK
<1> QED  BY <1>1, <1>2 DEF Turn

LEMMA FrontType ==
    ASSUME TypeOK, NEW k \in Channels, RunFrontCommand(k)
    PROVE  TypeOK'
<1>1. PICK b, command : FrontEffect(k, b, command)
  BY FrontStep
<1>2. /\ b \in Banks /\ ChannelOf(b) = k /\ RankOf(b) \in Ranks
      /\ queue[b] # <<>> /\ queue[b] \in Seq([type : Types, id : Ids])
      /\ command.type \in Types /\ command.id \in Ids
      /\ since' = [since EXCEPT ![b][command.type] = 0]
      /\ sinceRank' = [sinceRank EXCEPT ![RankOf(b)][command.type] = 0]
      /\ running' = running \cup {[type |-> command.type, id |-> command.id,
                                   left |-> Duration(command.type)]}
      /\ queue' = [queue EXCEPT ![b] = Tail(@)]
      /\ \A d \in Banks : d # b => queue'[d] = queue[d]
      /\ next' = [next EXCEPT ![k] = NoBank]
      /\ turn' = [turn EXCEPT ![k] = Turn(k)]
      /\ scheduler' = [scheduler EXCEPT ![k] = 1]
      /\ open' = [open EXCEPT ![b] = RowLeft(command, @)]
      /\ cf' = cf /\ incoming' = incoming /\ processor' = processor
      /\ future' = future /\ requests' = requests /\ finished' = finished
  BY <1>1 DEF FrontEffect
<1>3. MaxAge \in Nat \ {0} /\ Duration(command.type) \in Nat /\ cf.rows \in Nat \ {0}
  BY <1>2, Parameters, DurationType, Counts DEF TypeOK
<1>4. queue' \in [Banks -> Seq([type : Types, id : Ids])]
  <2> DEFINE C == [type : Types, id : Ids]
  <2>1. queue \in [Banks -> Seq(C)] /\ queue[b] \in Seq(C)
    BY <1>2 DEF TypeOK
  <2> HIDE DEF C
  <2>2. Tail(queue[b]) \in Seq(C)
    BY <1>2, <2>1, TailRange
  <2>3. queue' \in [Banks -> Seq(C)]
    BY <1>2, <2>1, <2>2
  <2> QED  BY <2>3 DEF C
<1>5. /\ since' \in [Banks -> [Types -> 0 .. MaxAge]]
      /\ sinceRank' \in [Ranks -> [Types -> 0 .. MaxAge]]
  <2>1. /\ since \in [Banks -> [Types -> 0 .. MaxAge]]
        /\ sinceRank \in [Ranks -> [Types -> 0 .. MaxAge]]
    BY DEF TypeOK
  <2>2. /\ since' = [since EXCEPT ![b][command.type] = 0]
        /\ sinceRank' = [sinceRank EXCEPT ![RankOf(b)][command.type] = 0]
        /\ b \in Banks /\ RankOf(b) \in Ranks /\ command.type \in Types
        /\ 0 \in 0 .. MaxAge
    BY <1>2, <1>3
  <2>3. since' \in [Banks -> [Types -> 0 .. MaxAge]]
    BY <2>1, <2>2
  <2>4. sinceRank' \in [Ranks -> [Types -> 0 .. MaxAge]]
    BY <2>1, <2>2
  <2> QED  BY <2>3, <2>4
<1>6. running' \subseteq [type : Types, id : Ids, left : Nat]
  <2> DEFINE new == [type |-> command.type, id |-> command.id,
                     left |-> Duration(command.type)]
  <2>1. running \subseteq [type : Types, id : Ids, left : Nat]
    BY DEF TypeOK
  <2>2. new \in [type : Types, id : Ids, left : Nat]
    BY <1>2, <1>3
  <2>3. running' = running \cup {new}
    BY <1>2
  <2> HIDE DEF new
  <2> QED  BY <2>1, <2>2, <2>3
<1>7. /\ next' \in [Channels -> Banks \cup {NoBank}]
      /\ turn' \in [Channels -> 0 .. cf.ranks * cf.banks - 1]
  <2>1. Turn(k) \in 0 .. cf.ranks * cf.banks - 1
    BY TurnType DEF RunFrontCommand
  <2> QED  BY <1>2, <2>1 DEF TypeOK
<1>8. scheduler' \in [Channels -> -1 .. MaxAge]
  BY <1>2, <1>3 DEF TypeOK
<1>9. open' \in [Banks -> -1 .. cf.rows - 1]
  <2>1. open \in [Banks -> -1 .. cf.rows - 1] /\ open[b] \in -1 .. cf.rows - 1
    BY <1>2 DEF TypeOK
  <2>2. requests[command.id].row \in -1 .. cf.rows - 1 /\ NoRow \in -1 .. cf.rows - 1
    BY <1>2, <1>3, RequestType DEF NoRow
  <2>3. RowLeft(command, open[b]) \in -1 .. cf.rows - 1
    BY <2>1, <2>2, Zenon DEF RowLeft
  <2> QED  BY <1>2, <2>1, <2>3
<1>10. \A m \in Channels : \/ next'[m] = NoBank
                           \/ ChannelOf(next'[m]) = m /\ queue'[next'[m]] # <<>>
  <2>1. ASSUME NEW m \in Channels, m # k
        PROVE  \/ next'[m] = NoBank
               \/ ChannelOf(next'[m]) = m /\ queue'[next'[m]] # <<>>
    <3>1. next'[m] = next[m]
      BY <1>2, <2>1 DEF TypeOK
    <3> QED  BY <1>2, <2>1, <3>1, NextType
  <2>2. next'[k] = NoBank
    BY <1>2 DEF TypeOK
  <2> QED  BY <2>1, <2>2
<1>11. /\ incoming' \in [Controllers -> Seq(Ids)] /\ processor' \in [Controllers -> -1 .. 1]
       /\ future' \in [Banks -> -1 .. cf.rows - 1] /\ finished' \subseteq Ids
  BY <1>2 DEF TypeOK
<1> QED  BY <1>2, <1>4, <1>5, <1>6, <1>7, <1>8, <1>9, <1>10, <1>11, TypeStep

LEMMA PutOffType ==
    ASSUME TypeOK, NEW k \in Channels, PutOff(k)
    PROVE  TypeOK'
<1>1. PICK b, wait : b = Chosen(k) /\ wait = WaitFor(Head(queue[b]).type, b)
  OBVIOUS
<1>2. /\ wait > 0 /\ ~ NoWork(k)
      /\ next' = [next EXCEPT ![k] = b]
      /\ turn' = [turn EXCEPT ![k] = Turn(k)]
      /\ scheduler' = [scheduler EXCEPT ![k] = wait]
      /\ cf' = cf /\ incoming' = incoming /\ processor' = processor /\ queue' = queue
      /\ future' = future /\ since' = since /\ sinceRank' = sinceRank
      /\ running' = running /\ requests' = requests /\ finished' = finished /\ open' = open
  BY <1>1 DEF PutOff
<1>3. /\ b \in Banks /\ ChannelOf(b) = k /\ queue[b] # <<>>
      /\ Head(queue[b]) \in [type : Types, id : Ids]
  BY <1>1, <1>2, ChosenWaits
<1>4. wait \in 0 .. MaxAge /\ MaxAge \in Nat
  <2>1. AgesOK /\ Head(queue[b]).type \in Types /\ MaxAge \in Nat
    BY <1>3, Parameters DEF TypeOK, AgesOK
  <2> QED  BY <1>1, <1>3, <2>1, WaitForType
<1>5. /\ next' \in [Channels -> Banks \cup {NoBank}]
      /\ turn' \in [Channels -> 0 .. cf.ranks * cf.banks - 1]
      /\ scheduler' \in [Channels -> -1 .. MaxAge]
  <2>1. Turn(k) \in 0 .. cf.ranks * cf.banks - 1
    BY <1>2, TurnType
  <2> QED  BY <1>2, <1>3, <1>4, <2>1 DEF TypeOK
<1>6. \A m \in Channels : \/ next'[m] = NoBank
                          \/ ChannelOf(next'[m]) = m /\ queue'[next'[m]] # <<>>
  <2>1. \A m \in Channels : next'[m] = IF m = k THEN b ELSE next[m]
    BY <1>2 DEF TypeOK
  <2> QED  BY <1>2, <1>3, <2>1, NextType
<1>7. /\ incoming' \in [Controllers -> Seq(Ids)] /\ processor' \in [Controllers -> -1 .. 1]
      /\ queue' \in [Banks -> Seq([type : Types, id : Ids])]
      /\ future' \in [Banks -> -1 .. cf.rows - 1] /\ open' \in [Banks -> -1 .. cf.rows - 1]
      /\ since' \in [Banks -> [Types -> 0 .. MaxAge]]
      /\ sinceRank' \in [Ranks -> [Types -> 0 .. MaxAge]]
      /\ running' \subseteq [type : Types, id : Ids, left : Nat] /\ finished' \subseteq Ids
  BY <1>2 DEF TypeOK
<1> QED  BY <1>2, <1>5, <1>6, <1>7, TypeStep

\* The actions that only change a timer or what is running.
LEMMA SmallSteps ==
    ASSUME TypeOK, cf' = cf, incoming' = incoming, processor' = processor,
           next' = next, turn' = turn, queue' = queue, future' = future,
           since' = since, sinceRank' = sinceRank, requests' = requests, open' = open,
           scheduler' \in [Channels -> -1 .. MaxAge],
           running' \subseteq [type : Types, id : Ids, left : Nat],
           finished' \subseteq Ids
    PROVE  TypeOK'
<1>1. \A m \in Channels : \/ next'[m] = NoBank
                          \/ ChannelOf(next'[m]) = m /\ queue'[next'[m]] # <<>>
  BY NextType
<1>2. /\ incoming' \in [Controllers -> Seq(Ids)] /\ processor' \in [Controllers -> -1 .. 1]
      /\ next' \in [Channels -> Banks \cup {NoBank}]
      /\ turn' \in [Channels -> 0 .. cf.ranks * cf.banks - 1]
      /\ queue' \in [Banks -> Seq([type : Types, id : Ids])]
      /\ future' \in [Banks -> -1 .. cf.rows - 1] /\ open' \in [Banks -> -1 .. cf.rows - 1]
      /\ since' \in [Banks -> [Types -> 0 .. MaxAge]]
      /\ sinceRank' \in [Ranks -> [Types -> 0 .. MaxAge]]
  BY DEF TypeOK
<1> QED  BY <1>1, <1>2, TypeStep

LEMMA NothingType ==
    ASSUME TypeOK, NEW k \in Channels, NothingToRun(k)
    PROVE  TypeOK'
<1>1. scheduler' \in [Channels -> -1 .. MaxAge]
  <2>1. MaxAge \in Nat
    BY Parameters DEF TypeOK
  <2> QED  BY <2>1 DEF NothingToRun, NotInFlight, TypeOK
<1>2. running' \subseteq [type : Types, id : Ids, left : Nat] /\ finished' \subseteq Ids
  BY DEF NothingToRun, TypeOK
<1> QED  BY <1>1, <1>2, SmallSteps DEF NothingToRun

LEMMA ReturnType ==
    ASSUME TypeOK, NEW x \in running, CommandReturn(x)
    PROVE  TypeOK'
<1>1. /\ running' \subseteq [type : Types, id : Ids, left : Nat] /\ finished' \subseteq Ids
      /\ scheduler' \in [Channels -> -1 .. MaxAge]
  <2>1. x.id \in Ids
    BY DEF TypeOK
  <2> QED  BY <2>1 DEF CommandReturn, TypeOK
<1> QED  BY <1>1, SmallSteps DEF CommandReturn

\* A timer that runs is not due yet when the cycle ends.
LEMMA Later ==
    ASSUME NEW n \in Nat, NEW timer \in -1 .. n, timer # 0
    PROVE  /\ Sooner(timer) \in -1 .. n
           /\ timer # NotInFlight => Sooner(timer) # NotInFlight /\ Sooner(timer) = timer - 1
           /\ timer = NotInFlight => Sooner(timer) = NotInFlight
  BY DEF Sooner, NotInFlight

LEMMA OlderType ==
    ASSUME cf \in Configs, NEW ages \in [Types -> 0 .. MaxAge]
    PROVE  /\ Older(ages) \in [Types -> 0 .. MaxAge]
           /\ \A a \in Types : Older(ages)[a] = IF ages[a] < MaxAge THEN ages[a] + 1 ELSE MaxAge
  BY Parameters DEF Older

LEMMA TickType ==
    ASSUME TypeOK, Tick
    PROVE  TypeOK'
<1>0. cf \in Configs /\ MaxAge \in Nat
  BY Parameters DEF TypeOK
<1>1. /\ Quiet
      /\ processor' = [c \in Controllers |-> Sooner(processor[c])]
      /\ scheduler' = [k \in Channels |-> Sooner(scheduler[k])]
      /\ running' = {[x EXCEPT !.left = @ - 1] : x \in running}
      /\ since' = [b \in Banks |-> Older(since[b])]
      /\ sinceRank' = [r \in Ranks |-> Older(sinceRank[r])]
      /\ cf' = cf /\ incoming' = incoming /\ next' = next /\ turn' = turn
      /\ queue' = queue /\ future' = future /\ requests' = requests
      /\ finished' = finished /\ open' = open
  BY DEF Tick
<1>2. processor' \in [Controllers -> -1 .. 1]
  <2>1. \A c \in Controllers : processor[c] \in -1 .. 1 /\ processor[c] # 0
    BY <1>1 DEF TypeOK, Quiet
  <2>2. \A c \in Controllers : Sooner(processor[c]) \in -1 .. 1
    BY <2>1, Later
  <2> QED  BY <1>1, <2>2
<1>3. scheduler' \in [Channels -> -1 .. MaxAge]
  <2>1. \A k \in Channels : scheduler[k] \in -1 .. MaxAge /\ scheduler[k] # 0
    BY <1>1 DEF TypeOK, Quiet
  <2>2. \A k \in Channels : Sooner(scheduler[k]) \in -1 .. MaxAge
    BY <1>0, <2>1, Later
  <2> QED  BY <1>1, <2>2
<1>4. running' \subseteq [type : Types, id : Ids, left : Nat]
  <2>1. \A x \in running : x \in [type : Types, id : Ids, left : Nat] /\ x.left # 0
    BY <1>1 DEF Quiet, TypeOK
  <2>2. \A x \in running : [x EXCEPT !.left = @ - 1] \in [type : Types, id : Ids, left : Nat]
    BY <2>1
  <2> QED  BY <1>1, <2>2
<1>5. /\ since' \in [Banks -> [Types -> 0 .. MaxAge]]
      /\ sinceRank' \in [Ranks -> [Types -> 0 .. MaxAge]]
  <2>1. /\ \A b \in Banks : since[b] \in [Types -> 0 .. MaxAge]
        /\ \A r \in Ranks : sinceRank[r] \in [Types -> 0 .. MaxAge]
    BY DEF TypeOK
  <2>2. /\ \A b \in Banks : Older(since[b]) \in [Types -> 0 .. MaxAge]
        /\ \A r \in Ranks : Older(sinceRank[r]) \in [Types -> 0 .. MaxAge]
    BY <1>0, <2>1, OlderType
  <2> QED  BY <1>1, <2>2
<1>6. \A m \in Channels : \/ next'[m] = NoBank
                          \/ ChannelOf(next'[m]) = m /\ queue'[next'[m]] # <<>>
  BY <1>1, NextType
<1>7. /\ incoming' \in [Controllers -> Seq(Ids)]
      /\ next' \in [Channels -> Banks \cup {NoBank}]
      /\ turn' \in [Channels -> 0 .. cf.ranks * cf.banks - 1]
      /\ queue' \in [Banks -> Seq([type : Types, id : Ids])]
      /\ future' \in [Banks -> -1 .. cf.rows - 1] /\ open' \in [Banks -> -1 .. cf.rows - 1]
      /\ finished' \subseteq Ids
  BY <1>1 DEF TypeOK
<1> QED  BY <1>1, <1>2, <1>3, <1>4, <1>5, <1>6, <1>7, TypeStep

\* The requests of the clients have a type and an address.
LEMMA ClientStep ==
    ASSUME TypeOK, Client
    PROVE  \E type \in {"read", "write"}, a \in Nat : AddRequest(type, a)
<1> DEFINE W == [type : {"read", "write"}, address : Nat]
<1>1. cf.work \in Seq(SUBSET W) /\ Len(requests) \in Nat /\ Len(requests) < Len(cf.work)
  BY WorkAssumption DEF TypeOK, Client
<1>2. PICK w \in cf.work[Len(requests) + 1] : AddRequest(w.type, w.address)
  BY DEF Client
<1>3. w \in W
  <2> HIDE DEF W
  <2>1. cf.work[Len(requests) + 1] \in SUBSET W
    BY <1>1
  <2> QED  BY <2>1
<1> QED  BY <1>2, <1>3

LEMMA TypeInit == Init => TypeOK
<1> SUFFICES ASSUME Init PROVE TypeOK
  OBVIOUS
<1>1. /\ cf \in Configs /\ MaxAge \in Nat \ {0} /\ cf.rows \in Nat \ {0}
      /\ cf.ranks * cf.banks \in Nat \ {0}
  BY Parameters, Counts, Positive DEF Init
<1>2. requests \in Seq([type : {"read", "write"}, bank : Banks, row : 0 .. cf.rows - 1])
  BY DEF Init
<1>3. Ids = {} /\ incoming \in [Controllers -> Seq(Ids)]
  BY DEF Init, Ids
<1>4. /\ processor \in [Controllers -> -1 .. 1]
      /\ scheduler \in [Channels -> -1 .. MaxAge]
      /\ next \in [Channels -> Banks \cup {NoBank}]
      /\ \A k \in Channels : next[k] = NoBank
  BY <1>1 DEF Init, NotInFlight
<1>5. turn \in [Channels -> 0 .. cf.ranks * cf.banks - 1]
  BY <1>1 DEF Init
<1>6. queue \in [Banks -> Seq([type : Types, id : Ids])]
  BY DEF Init
<1>7. future \in [Banks -> -1 .. cf.rows - 1] /\ open \in [Banks -> -1 .. cf.rows - 1]
  BY <1>1 DEF Init, NoRow
<1>8. /\ since \in [Banks -> [Types -> 0 .. MaxAge]]
      /\ sinceRank \in [Ranks -> [Types -> 0 .. MaxAge]]
  BY <1>1 DEF Init
<1>9. running \subseteq [type : Types, id : Ids, left : Nat] /\ finished \subseteq Ids
  BY DEF Init
<1> QED  BY <1>1, <1>2, <1>3, <1>4, <1>5, <1>6, <1>7, <1>8, <1>9 DEF TypeOK

\* The steps of the system, one by one.
LEMMA NextCases ==
    ASSUME TypeOK, [Next]_vars
    PROVE  \/ \E type \in {"read", "write"}, a \in Nat : AddRequest(type, a)
           \/ \E c \in Controllers : RunRequestProcessor(c)
           \/ \E k \in Channels : RunFrontCommand(k)
           \/ \E k \in Channels : PutOff(k)
           \/ \E k \in Channels : NothingToRun(k)
           \/ \E x \in running : CommandReturn(x)
           \/ Tick
           \/ UNCHANGED vars
  BY ClientStep DEF Next, Step

LEMMA TypeInductive == TypeOK /\ [Next]_vars => TypeOK'
<1> SUFFICES ASSUME TypeOK, [Next]_vars PROVE TypeOK'
  OBVIOUS
<1>1. ASSUME UNCHANGED vars PROVE TypeOK'
  <2>1. /\ cf' = cf /\ incoming' = incoming /\ processor' = processor
        /\ next' = next /\ turn' = turn /\ queue' = queue /\ future' = future
        /\ since' = since /\ sinceRank' = sinceRank /\ requests' = requests
        /\ open' = open /\ scheduler' = scheduler /\ running' = running
        /\ finished' = finished
    BY <1>1 DEF vars
  <2>2. /\ scheduler' \in [Channels -> -1 .. MaxAge] /\ finished' \subseteq Ids
        /\ running' \subseteq [type : Types, id : Ids, left : Nat]
    BY <2>1 DEF TypeOK
  <2> QED  BY <2>1, <2>2, SmallSteps
<1> QED  BY <1>1, NextCases, AddRequestType, ProcessorType, FrontType, PutOffType,
            NothingType, ReturnType, TickType

\* Every decoded location exists, a decision that was put off still has a command
\* to run, no timer runs below zero, and no timing exceeds what since remembers.
THEOREM TypeCorrect == Spec => []TypeOK
  BY TypeInit, TypeInductive, PTL DEF Spec

-----------------------------------------------------------------------------
(***************************************************************************)
(* Awake: no work without an event in flight.                              *)
(***************************************************************************)
\* Work that is left in a channel whose queues did not change was there before.
LEMMA WaitingSame ==
    ASSUME cf' = cf, NEW k \in Channels, \A d \in Banks : ChannelOf(d) = k => queue'[d] = queue[d]
    PROVE  Waiting(k)' = Waiting(k)
<1>1. Banks' = Banks
  BY SameGeometry
<1> QED  BY <1>1 DEF Waiting, BanksOf, ChannelOf

\* A step that leaves the queues, the incoming requests and the timers as they are,
\* or lets timers run.
LEMMA AwakeKept ==
    ASSUME Awake, cf' = cf, incoming' = incoming, queue' = queue,
           \A c \in Controllers : processor[c] # NotInFlight => processor'[c] # NotInFlight,
           \A k \in Channels : \/ scheduler[k] # NotInFlight => scheduler'[k] # NotInFlight
                               \/ Waiting(k) = {}
    PROVE  Awake'
<1>1. Controllers' = Controllers /\ Channels' = Channels
  BY SameGeometry
<1>2. \A k \in Channels : Waiting(k)' = Waiting(k)
  BY WaitingSame
<1> QED  BY <1>1, <1>2 DEF Awake

LEMMA AwakeInductive == TypeOK /\ Awake /\ [Next]_vars => Awake'
<1> SUFFICES ASSUME TypeOK, Awake, [Next]_vars PROVE Awake'
  OBVIOUS
<1>0. MaxAge \in Nat
  BY Parameters DEF TypeOK
<1>1. ASSUME NEW type, NEW a \in Nat, AddRequest(type, a) PROVE Awake'
  <2>1. PICK b : b = Bank(a)
    OBVIOUS
  <2>2. /\ cf' = cf /\ queue' = queue /\ scheduler' = scheduler
        /\ incoming' = [incoming EXCEPT ![b[1]] = Append(@, Len(requests) + 1)]
        /\ processor' = [processor EXCEPT ![b[1]] = Call(@, 1)]
    BY <1>1, <2>1 DEF AddRequest
  <2>3. Controllers' = Controllers /\ Channels' = Channels
    BY <2>2, SameGeometry
  <2>4. \A k \in Channels : Waiting(k)' = Waiting(k)
    BY <2>2, WaitingSame
  <2>5. ASSUME NEW c \in Controllers, incoming'[c] # <<>>
        PROVE  processor'[c] # NotInFlight
    <3>1. CASE c = b[1]
      <4>1. processor'[c] = Call(processor[c], 1) /\ processor[c] \in -1 .. 1
        BY <2>2, <3>1 DEF TypeOK
      <4> QED  BY <4>1, CallType DEF NotInFlight
    <3>2. CASE c # b[1]
      BY <2>2, <2>5, <3>2 DEF TypeOK, Awake
    <3> QED  BY <3>1, <3>2
  <2> QED  BY <2>2, <2>3, <2>4, <2>5 DEF Awake
<1>2. ASSUME NEW c \in Controllers, RunRequestProcessor(c) PROVE Awake'
  <2>a. PICK id : id = Head(incoming[c])
    BY Zenon
  <2>b. PICK b : b = requests[id].bank
    BY Zenon
  <2>1. id = Head(incoming[c]) /\ b = requests[id].bank
    BY <2>a, <2>b, ZenonT(30)
  <2>2. /\ b \in Banks
        /\ \A d \in Banks : d # b => queue'[d] = queue[d]
        /\ scheduler' = [scheduler EXCEPT ![ChannelOf(b)] = Call(@, 1)]
        /\ incoming' = [incoming EXCEPT ![c] = Tail(@)]
        /\ processor' = [processor EXCEPT ![c] = CallAgain(c)]
        /\ incoming[c] # <<>> /\ incoming[c] \in Seq(Ids)
    BY <1>2, <2>1, ProcessorStep
  <2>3. cf' = cf
    BY <1>2 DEF RunRequestProcessor
  <2>4. Controllers' = Controllers /\ Channels' = Channels
    BY <2>3, SameGeometry
  <2>5. ASSUME NEW d \in Controllers, incoming'[d] # <<>>
        PROVE  processor'[d] # NotInFlight
    <3>1. CASE d = c
      <4>1. incoming'[c] = Tail(incoming[c]) /\ processor'[c] = CallAgain(c)
        BY <2>2 DEF TypeOK
      <4>2. Len(incoming[c]) > 1
        <5>1. Tail(incoming[c]) # <<>>
          BY <2>5, <3>1, <4>1, Zenon
        <5> QED  BY <2>2, <5>1, TailIndex, Zenon
      <4> QED  BY <3>1, <4>1, <4>2 DEF CallAgain, NotInFlight
    <3>2. CASE d # c
      BY <2>2, <2>5, <3>2 DEF TypeOK, Awake
    <3> QED  BY <3>1, <3>2
  <2>6. ASSUME NEW k \in Channels, Waiting(k)' # {}
        PROVE  scheduler'[k] # NotInFlight
    <3>0. scheduler \in [Channels -> -1 .. MaxAge]
      BY DEF TypeOK
    <3>1. CASE k = ChannelOf(b)
      <4>1. scheduler'[k] = Call(scheduler[k], 1)
        BY <2>2, <3>0, <3>1
      <4> QED  BY <4>1 DEF Call, NotInFlight
    <3>2. CASE k # ChannelOf(b)
      <4>1. Waiting(k)' = Waiting(k)
        BY <2>2, <2>3, <3>2, WaitingSame
      <4> QED  BY <2>2, <2>6, <3>0, <3>2, <4>1 DEF Awake
    <3> QED  BY <3>1, <3>2
  <2> QED  BY <2>4, <2>5, <2>6 DEF Awake
<1>3. ASSUME NEW k \in Channels, RunFrontCommand(k) PROVE Awake'
  <2>1. PICK b, command : FrontEffect(k, b, command)
    BY <1>3, FrontStep
  <2>2. /\ b \in Banks /\ ChannelOf(b) = k
        /\ \A d \in Banks : d # b => queue'[d] = queue[d]
        /\ scheduler' = [scheduler EXCEPT ![k] = 1]
        /\ cf' = cf /\ incoming' = incoming /\ processor' = processor
    BY <2>1 DEF FrontEffect
  <2>3. Controllers' = Controllers /\ Channels' = Channels
    BY <2>2, SameGeometry
  <2>4. ASSUME NEW m \in Channels, Waiting(m)' # {}
        PROVE  scheduler'[m] # NotInFlight
    <3>1. CASE m = k
      BY <2>2, <3>1 DEF TypeOK, NotInFlight
    <3>2. CASE m # k
      <4>1. Waiting(m)' = Waiting(m)
        BY <2>2, <3>2, WaitingSame
      <4> QED  BY <2>2, <2>4, <3>2, <4>1 DEF Awake, TypeOK
    <3> QED  BY <3>1, <3>2
  <2> QED  BY <2>2, <2>3, <2>4 DEF Awake
<1>4. ASSUME NEW k \in Channels, PutOff(k) PROVE Awake'
  <2>1. PICK wait : /\ wait > 0 /\ scheduler' = [scheduler EXCEPT ![k] = wait]
                    /\ cf' = cf /\ incoming' = incoming /\ queue' = queue
                    /\ processor' = processor
    BY <1>4 DEF PutOff
  <2>2. ~ (NotInFlight > 0)
    BY DEF NotInFlight
  <2>3. \A m \in Channels : scheduler[m] # NotInFlight => scheduler'[m] # NotInFlight
    BY <2>1, <2>2 DEF TypeOK
  <2> QED  BY <2>1, <2>3, AwakeKept
<1>5. ASSUME NEW k \in Channels, NothingToRun(k) PROVE Awake'
  <2>1. /\ scheduler' = [scheduler EXCEPT ![k] = NotInFlight] /\ Waiting(k) = {}
        /\ cf' = cf /\ incoming' = incoming /\ queue' = queue /\ processor' = processor
    BY <1>5 DEF NothingToRun, NoWork
  <2>2. \A m \in Channels : \/ scheduler[m] # NotInFlight => scheduler'[m] # NotInFlight
                            \/ Waiting(m) = {}
    BY <2>1 DEF TypeOK
  <2> QED  BY <2>1, <2>2, AwakeKept
<1>6. ASSUME NEW x \in running, CommandReturn(x) PROVE Awake'
  BY <1>6, AwakeKept DEF CommandReturn
<1>7. ASSUME Tick PROVE Awake'
  <2>1. \A c \in Controllers : processor[c] # NotInFlight => processor'[c] # NotInFlight
    <3>1. \A c \in Controllers : /\ processor[c] \in -1 .. 1 /\ processor[c] # 0
                                 /\ processor'[c] = Sooner(processor[c])
      BY <1>7 DEF Tick, Quiet, TypeOK
    <3> QED  BY <3>1, Later
  <2>2. \A k \in Channels : scheduler[k] # NotInFlight => scheduler'[k] # NotInFlight
    <3>1. \A k \in Channels : /\ scheduler[k] \in -1 .. MaxAge /\ scheduler[k] # 0
                              /\ scheduler'[k] = Sooner(scheduler[k])
      BY <1>7 DEF Tick, Quiet, TypeOK
    <3> QED  BY <1>0, <3>1, Later
  <2> QED  BY <1>7, <2>1, <2>2, AwakeKept DEF Tick
<1>8. ASSUME UNCHANGED vars PROVE Awake'
  BY <1>8, AwakeKept DEF vars
<1> QED  BY <1>1, <1>2, <1>3, <1>4, <1>5, <1>6, <1>7, <1>8, NextCases

\* CallRequestProcessor and CallScheduler do nothing while their event is in
\* flight, and never lose a request or a command by it.
THEOREM NeverAsleep == Spec => []Awake
<1>1. Init => Awake
  <2> SUFFICES ASSUME Init PROVE Awake
    OBVIOUS
  <2>1. \A c \in Controllers : incoming[c] = <<>>
    BY DEF Init
  <2>2. \A b \in Banks : queue[b] = <<>>
    BY DEF Init
  <2> QED  BY <2>1, <2>2 DEF Awake, Waiting, BanksOf
<1> QED  BY <1>1, AwakeInductive, TypeCorrect, PTL DEF Spec

-----------------------------------------------------------------------------
(***************************************************************************)
(* RowsOpen: the plan of ProcessRequest against future_active_row.         *)
(***************************************************************************)
RowsOpenAt(b) ==
    /\ \A i \in DOMAIN queue[b] : Needs(queue[b][i], RowAfter(b, i - 1))
    /\ future[b] = RowAfter(b, Len(queue[b]))

LEMMA NeedsCases ==
    ASSUME NEW command, NEW row
    PROVE  /\ command.type = "activate" /\ row = NoRow => Needs(command, row)
           /\ command.type = "precharge" /\ row # NoRow => Needs(command, row)
           /\ command.type \in {"read", "write"} /\ row = requests[command.id].row
                => Needs(command, row)
           /\ command.type \in {"read", "write"} /\ Needs(command, row)
                => row = requests[command.id].row
<1>1. /\ command.type = "activate" => Needs(command, row) = (row = NoRow)
      /\ command.type = "precharge" => Needs(command, row) = (row # NoRow)
      /\ command.type = "read" => Needs(command, row) = (row = requests[command.id].row)
      /\ command.type = "write" => Needs(command, row) = (row = requests[command.id].row)
  BY DEF Needs
<1> QED  BY <1>1, Zenon

LEMMA RowLeftCases ==
    ASSUME NEW command, NEW row
    PROVE  /\ command.type = "precharge" => RowLeft(command, row) = NoRow
           /\ command.type = "activate" => RowLeft(command, row) = requests[command.id].row
           /\ command.type \in {"read", "write"} => RowLeft(command, row) = row
<1>1. /\ command.type = "precharge" => RowLeft(command, row) = NoRow
      /\ command.type = "activate" => RowLeft(command, row) = requests[command.id].row
      /\ command.type = "read" => RowLeft(command, row) = row
      /\ command.type = "write" => RowLeft(command, row) = row
  BY DEF RowLeft
<1> QED  BY <1>1, Zenon

\* A command of a queue and its request.
LEMMA QueueType ==
    ASSUME TypeOK, NEW b \in Banks
    PROVE  /\ queue[b] \in Seq([type : Types, id : Ids]) /\ Len(queue[b]) \in Nat
           /\ DOMAIN queue[b] = 1 .. Len(queue[b])
           /\ \A i \in 1 .. Len(queue[b]) : queue[b][i].type \in Types /\ queue[b][i].id \in Ids
<1> DEFINE C == [type : Types, id : Ids]
<1>1. queue[b] \in Seq(C)
  BY DEF TypeOK
<1> HIDE DEF C
<1>2. /\ Len(queue[b]) \in Nat /\ DOMAIN queue[b] = 1 .. Len(queue[b])
      /\ \A i \in 1 .. Len(queue[b]) : queue[b][i] \in C
  BY <1>1
<1>3. \A c \in C : c.type \in Types /\ c.id \in Ids
  BY DEF C
<1> QED  BY <1>1, <1>2, <1>3 DEF C

\* A bank whose queue and rows do not change, while requests may be added.
LEMMA RowsSame ==
    ASSUME TypeOK, NEW b \in Banks, RowsOpenAt(b),
           queue'[b] = queue[b], open'[b] = open[b], future'[b] = future[b],
           \A id \in Ids : requests'[id] = requests[id]
    PROVE  RowsOpenAt(b)'
<1>1. /\ Len(queue[b]) \in Nat /\ DOMAIN queue[b] = 1 .. Len(queue[b])
      /\ \A i \in 1 .. Len(queue[b]) : requests'[queue[b][i].id] = requests[queue[b][i].id]
  BY QueueType
<1>2. \A i \in 0 .. Len(queue[b]) : RowAfter(b, i)' = RowAfter(b, i)
  BY <1>1 DEF RowAfter
<1>3. ASSUME NEW i \in 1 .. Len(queue[b])
      PROVE  Needs(queue[b][i], RowAfter(b, i - 1))'
  <2>1. Needs(queue[b][i], RowAfter(b, i - 1))
    BY <1>1 DEF RowsOpenAt
  <2>2. i - 1 \in 0 .. Len(queue[b])
    BY <1>1
  <2>3. /\ RowAfter(b, i - 1)' = RowAfter(b, i - 1) /\ queue'[b][i] = queue[b][i]
        /\ requests'[queue[b][i].id] = requests[queue[b][i].id]
    BY <1>1, <1>2, <2>2
  <2> QED  BY <2>1, <2>3, Zenon DEF Needs
<1>4. future'[b] = RowAfter(b, Len(queue[b]))'
  <2>1. Len(queue[b]) \in 0 .. Len(queue[b])
    BY <1>1
  <2> QED  BY <1>2, <2>1 DEF RowsOpenAt
<1> QED  BY <1>1, <1>3, <1>4 DEF RowsOpenAt

\* A command that is run does what the plan expected of it.
LEMMA RowsFront ==
    ASSUME TypeOK, RowsOpen, NEW k \in Channels, RunFrontCommand(k), NEW d \in Banks
    PROVE  RowsOpenAt(d)'
<1>1. PICK b, command : FrontEffect(k, b, command)
  BY FrontStep
<1>2. /\ b \in Banks /\ queue[b] # <<>> /\ command = queue[b][1]
      /\ command.type \in Types
      /\ queue'[b] = Tail(queue[b]) /\ \A e \in Banks : e # b => queue'[e] = queue[e]
      /\ open' = [open EXCEPT ![b] = RowLeft(command, @)]
      /\ cf' = cf /\ future' = future /\ requests' = requests
  BY <1>1 DEF FrontEffect
<1>3. RowsOpenAt(d) /\ RowsOpenAt(b)
  BY <1>2 DEF RowsOpen, RowsOpenAt
<1>4. /\ open'[b] = RowLeft(command, open[b])
      /\ \A e \in Banks : e # b => open'[e] = open[e]
  BY <1>2 DEF TypeOK
<1>5. CASE d # b
  BY <1>2, <1>3, <1>4, <1>5, RowsSame
<1>6. ASSUME d = b PROVE RowsOpenAt(b)'
  <2> DEFINE C == [type : Types, id : Ids]
  <2>0. PICK n : n = Len(queue[b])
    OBVIOUS
  <2>1. /\ n \in Nat \ {0} /\ Len(queue'[b]) = n - 1
        /\ \A i \in 1 .. n - 1 : queue'[b][i] = queue[b][i + 1]
        /\ DOMAIN queue'[b] = 1 .. n - 1
    <3>1. queue[b] \in Seq(C) /\ queue[b] # <<>>
      BY <1>2, QueueType
    <3> HIDE DEF C
    <3>2. /\ n \in Nat \ {0} /\ Len(Tail(queue[b])) = n - 1
          /\ \A i \in 1 .. n - 1 : Tail(queue[b])[i] = queue[b][i + 1]
          /\ Tail(queue[b]) \in Seq(C)
      BY <2>0, <3>1, TailIndex
    <3> QED  BY <1>2, <3>2
  <2>2. /\ DOMAIN queue[b] = 1 .. n
        /\ \A i \in 1 .. n : Needs(queue[b][i], RowAfter(b, i - 1))
        /\ future[b] = RowAfter(b, n)
    BY <1>2, <1>3, <2>0, QueueType DEF RowsOpenAt
  <2>3. RowAfter(b, 0)' = RowAfter(b, 1)
    <3>1. Needs(command, open[b])
      <4>1. Needs(queue[b][1], RowAfter(b, 1 - 1))
        BY <2>1, <2>2
      <4> QED  BY <1>2, <4>1 DEF RowAfter
    <3>2. RowAfter(b, 1) = IF command.type = "precharge" THEN NoRow ELSE requests[command.id].row
      BY <1>2 DEF RowAfter
    <3>3. RowAfter(b, 0)' = RowLeft(command, open[b])
      BY <1>4 DEF RowAfter
    <3>4. command.type \in {"precharge", "activate", "read", "write"}
      BY <1>2 DEF Types
    <3> QED  BY <3>1, <3>2, <3>3, <3>4, NeedsCases, RowLeftCases
  <2>4. \A i \in 0 .. n - 1 : RowAfter(b, i)' = RowAfter(b, i + 1)
    <3>1. ASSUME NEW i \in 1 .. n - 1 PROVE RowAfter(b, i)' = RowAfter(b, i + 1)
      <4>1. i # 0 /\ i + 1 # 0 /\ queue'[b][i] = queue[b][i + 1]
        BY <2>1
      <4> QED  BY <1>2, <4>1 DEF RowAfter
    <3>2. \A i \in 0 .. n - 1 : i = 0 \/ i \in 1 .. n - 1
      BY <2>1
    <3>3. RowAfter(b, 0)' = RowAfter(b, 0 + 1)
      BY <2>3
    <3> QED  BY <3>1, <3>2, <3>3
  <2>5. ASSUME NEW i \in 1 .. n - 1
        PROVE  Needs(queue[b][i], RowAfter(b, i - 1))'
    <3>1. i + 1 \in 1 .. n /\ i - 1 \in 0 .. n - 1 /\ (i - 1) + 1 = i /\ (i + 1) - 1 = i
      BY <2>1
    <3>2. Needs(queue[b][i + 1], RowAfter(b, i))
      BY <2>2, <3>1
    <3>3. RowAfter(b, i - 1)' = RowAfter(b, i) /\ queue'[b][i] = queue[b][i + 1]
      BY <2>1, <2>4, <3>1
    <3> QED  BY <1>2, <3>2, <3>3, Zenon DEF Needs
  <2>6. future'[b] = RowAfter(b, Len(queue[b]))'
    <3>1. n - 1 \in 0 .. n - 1 /\ (n - 1) + 1 = n
      BY <2>1
    <3>2. RowAfter(b, n - 1)' = RowAfter(b, n)
      BY <2>4, <3>1
    <3> QED  BY <1>2, <2>1, <2>2, <3>2 DEF RowAfter
  <2> QED  BY <2>1, <2>5, <2>6 DEF RowsOpenAt
<1> QED  BY <1>5, <1>6

\* The commands of a request continue the plan of its bank.
LEMMA RowsProcessor ==
    ASSUME TypeOK, RowsOpen, NEW c \in Controllers, RunRequestProcessor(c), NEW d \in Banks
    PROVE  RowsOpenAt(d)'
<1>a. PICK id : id = Head(incoming[c])
  BY Zenon
<1>b. PICK b : b = requests[id].bank
  BY Zenon
<1>1. id = Head(incoming[c]) /\ b = requests[id].bank
  BY <1>a, <1>b, Zenon
<1>2. /\ id \in Ids /\ b \in Banks
      /\ queue'[b] = queue[b] \o Commands(id)
      /\ \A e \in Banks : e # b => queue'[e] = queue[e]
      /\ future' = [future EXCEPT ![b] = FutureRow(id)]
  BY <1>1, ProcessorStep
<1>3. requests' = requests /\ open' = open
  BY DEF RunRequestProcessor
<1>4. RowsOpenAt(d) /\ RowsOpenAt(b)
  BY <1>2 DEF RowsOpen, RowsOpenAt
<1>5. /\ future'[b] = FutureRow(id)
      /\ \A e \in Banks : e # b => future'[e] = future[e]
  BY <1>2 DEF TypeOK
<1>6. CASE d # b
  BY <1>2, <1>3, <1>4, <1>5, <1>6, RowsSame
<1>7. ASSUME d = b PROVE RowsOpenAt(b)'
  <2> DEFINE C == [type : Types, id : Ids]
  <2>0. PICK n, m, row : n = Len(queue[b]) /\ m = Len(Commands(id)) /\ row = requests[id].row
    OBVIOUS
  <2>1. /\ n \in Nat /\ m \in Nat /\ Len(queue'[b]) = n + m
        /\ \A i \in 1 .. n : queue'[b][i] = queue[b][i]
        /\ \A j \in 1 .. m : queue'[b][n + j] = Commands(id)[j]
        /\ DOMAIN queue'[b] = 1 .. n + m
    <3>1. queue[b] \in Seq(C) /\ Commands(id) \in Seq(C)
      BY <1>2, QueueType, CommandsShape
    <3> HIDE DEF C
    <3>2. /\ n \in Nat /\ m \in Nat /\ Len(queue'[b]) = n + m
          /\ \A i \in 1 .. n : queue'[b][i] = queue[b][i]
          /\ \A j \in 1 .. m : queue'[b][n + j] = Commands(id)[j]
          /\ queue'[b] \in Seq(C)
      BY <1>2, <2>0, <3>1, ConcatIndex
    <3> QED  BY <3>2
  <2>2. /\ DOMAIN queue[b] = 1 .. n
        /\ \A i \in 1 .. n : Needs(queue[b][i], RowAfter(b, i - 1))
        /\ future[b] = RowAfter(b, n)
    BY <1>2, <1>4, <2>0, QueueType DEF RowsOpenAt
  <2>3. /\ m = Before(id) + 1 + After
        /\ \A i \in 1 .. m : Commands(id)[i].id = id
        /\ Before(id) = 1 => Commands(id)[1].type = "activate"
        /\ Before(id) = 2 => /\ Commands(id)[1].type = "precharge"
                             /\ Commands(id)[2].type = "activate"
        /\ Commands(id)[Before(id) + 1].type = requests[id].type
        /\ After = 1 => Commands(id)[Before(id) + 2].type = "precharge"
    BY <1>2, <2>0, CommandsShape
  <2>4. /\ requests[id].type \in {"read", "write"} /\ row # NoRow
    BY <1>2, <2>0, RequestType DEF NoRow
  <2>5. \A i \in 0 .. n : RowAfter(b, i)' = RowAfter(b, i)
    BY <1>3, <2>1 DEF RowAfter
  <2>6. ASSUME NEW i \in 1 .. n
        PROVE  Needs(queue[b][i], RowAfter(b, i - 1))'
    <3>1. i - 1 \in 0 .. n
      BY <2>1
    <3>2. RowAfter(b, i - 1)' = RowAfter(b, i - 1) /\ queue'[b][i] = queue[b][i]
      BY <2>1, <2>5, <3>1
    <3> QED  BY <1>3, <2>2, <3>2, Zenon DEF Needs
  <2>7. RowAfter(b, n + 0)' = future[b]
    <3>1. n \in 0 .. n /\ n + 0 = n
      BY <2>1
    <3> QED  BY <2>2, <2>5, <3>1
  <2>8. ASSUME NEW j \in 1 .. m
        PROVE  /\ RowAfter(b, n + j)' = IF Commands(id)[j].type = "precharge" THEN NoRow ELSE row
               /\ queue'[b][n + j] = Commands(id)[j] /\ Commands(id)[j].id = id
               /\ queue'[b][n + j].id = id
    <3>1. n + j # 0 /\ queue'[b][n + j] = Commands(id)[j] /\ Commands(id)[j].id = id
      BY <2>1, <2>3
    <3> QED  BY <1>3, <2>0, <3>1 DEF RowAfter
  <2>9. ASSUME NEW j \in 1 .. m, NEW r,
               RowAfter(b, n + (j - 1))' = r, Needs(Commands(id)[j], r)
        PROVE  Needs(queue[b][n + j], RowAfter(b, (n + j) - 1))'
    <3>1. n + (j - 1) = (n + j) - 1
      BY <2>1
    <3>2. queue'[b][n + j] = Commands(id)[j] /\ RowAfter(b, (n + j) - 1)' = r
      BY <2>8, <2>9, <3>1
    <3> QED  BY <1>3, <2>9, <3>2, Zenon DEF Needs
  <2>10. /\ Before(id) \in 0 .. 2 /\ After \in 0 .. 1
         /\ Before(id) = 0 => future[b] = row
         /\ Before(id) = 1 => future[b] = NoRow
         /\ Before(id) = 2 => future[b] # NoRow
         /\ FutureRow(id) = IF After = 1 THEN NoRow ELSE row
    BY <1>1, <2>0 DEF Before, After, FutureRow
  <2>11. ASSUME NEW j \in 1 .. m
         PROVE  Needs(queue[b][n + j], RowAfter(b, (n + j) - 1))'
    <3>1. CASE Before(id) = 1
      <4>1. CASE j = 1
        <5>1. Needs(Commands(id)[1], NoRow) /\ RowAfter(b, n + (1 - 1))' = NoRow
          BY <2>3, <2>7, <2>10, <3>1, NeedsCases
        <5> QED  BY <2>9, <4>1, <5>1
      <4>2. CASE j = 2
        <5>1. 1 \in 1 .. m /\ 2 \in 1 .. m
          BY <2>1, <2>3, <2>10, <3>1
        <5>2. RowAfter(b, n + (2 - 1))' = row
          BY <2>3, <2>8, <3>1, <5>1
        <5>3. Needs(Commands(id)[2], row)
          BY <2>3, <2>4, <2>8, <3>1, <2>0, <5>1, NeedsCases
        <5> QED  BY <2>9, <4>2, <5>2, <5>3
      <4>3. CASE j = 3
        <5>1. 2 \in 1 .. m /\ 3 \in 1 .. m /\ After = 1
          BY <2>1, <2>3, <2>10, <3>1, <4>3
        <5>2. RowAfter(b, n + (3 - 1))' = row
          BY <2>3, <2>4, <2>8, <3>1, <5>1
        <5>3. Needs(Commands(id)[3], row)
          BY <2>3, <2>4, <3>1, <2>0, <5>1, NeedsCases
        <5> QED  BY <2>9, <4>3, <5>2, <5>3
      <4> QED  BY <2>3, <2>10, <3>1, <4>1, <4>2, <4>3
    <3>2. CASE Before(id) = 2
      <4>1. CASE j = 1
        <5>1. Needs(Commands(id)[1], future[b]) /\ RowAfter(b, n + (1 - 1))' = future[b]
          BY <2>3, <2>7, <2>10, <3>2, NeedsCases
        <5> QED  BY <2>9, <4>1, <5>1
      <4>2. CASE j = 2
        <5>1. 1 \in 1 .. m /\ 2 \in 1 .. m
          BY <2>1, <2>3, <2>10, <3>2
        <5>2. RowAfter(b, n + (2 - 1))' = NoRow
          BY <2>3, <2>8, <3>2, <5>1
        <5>3. Needs(Commands(id)[2], NoRow)
          BY <2>3, <3>2, NeedsCases
        <5> QED  BY <2>9, <4>2, <5>2, <5>3
      <4>3. CASE j = 3
        <5>1. 2 \in 1 .. m /\ 3 \in 1 .. m
          BY <2>1, <2>3, <2>10, <3>2
        <5>2. RowAfter(b, n + (3 - 1))' = row
          BY <2>3, <2>8, <3>2, <5>1
        <5>3. Needs(Commands(id)[3], row)
          BY <2>3, <2>4, <2>8, <3>2, <2>0, <5>1, NeedsCases
        <5> QED  BY <2>9, <4>3, <5>2, <5>3
      <4>4. CASE j = 4
        <5>1. 3 \in 1 .. m /\ 4 \in 1 .. m /\ After = 1
          BY <2>1, <2>3, <2>10, <3>2, <4>4
        <5>2. RowAfter(b, n + (4 - 1))' = row
          BY <2>3, <2>4, <2>8, <3>2, <5>1
        <5>3. Needs(Commands(id)[4], row)
          BY <2>3, <2>4, <3>2, <2>0, <5>1, NeedsCases
        <5> QED  BY <2>9, <4>4, <5>2, <5>3
      <4> QED  BY <2>3, <2>10, <3>2, <4>1, <4>2, <4>3, <4>4
    <3>3. CASE Before(id) = 0
      <4>1. CASE j = 1
        <5>1. Needs(Commands(id)[1], row) /\ RowAfter(b, n + (1 - 1))' = row
          BY <2>3, <2>4, <2>7, <2>8, <2>10, <3>3, <2>0, <4>1, NeedsCases
        <5> QED  BY <2>9, <4>1, <5>1
      <4>2. CASE j = 2
        <5>1. 1 \in 1 .. m /\ 2 \in 1 .. m /\ After = 1
          BY <2>1, <2>3, <2>10, <3>3, <4>2
        <5>2. RowAfter(b, n + (2 - 1))' = row
          BY <2>3, <2>4, <2>8, <3>3, <5>1
        <5>3. Needs(Commands(id)[2], row)
          BY <2>3, <2>4, <3>3, <2>0, <5>1, NeedsCases
        <5> QED  BY <2>9, <4>2, <5>2, <5>3
      <4> QED  BY <2>3, <2>10, <3>3, <4>1, <4>2
    <3> QED  BY <2>10, <3>1, <3>2, <3>3
  <2>12. ASSUME NEW i \in 1 .. n + m
         PROVE  Needs(queue[b][i], RowAfter(b, i - 1))'
    <3>1. CASE i \in 1 .. n
      BY <2>6, <3>1
    <3>2. CASE i \notin 1 .. n
      <4>1. i - n \in 1 .. m /\ n + (i - n) = i
        BY <2>1, <3>2
      <4> QED  BY <2>11, <4>1
    <3> QED  BY <3>1, <3>2
  <2>13. future'[b] = RowAfter(b, Len(queue[b]))'
    <3>1. m \in 1 .. m
      BY <2>1, <2>3, <2>10
    <3>2. RowAfter(b, n + m)' = IF Commands(id)[m].type = "precharge" THEN NoRow ELSE row
      BY <2>8, <3>1
    <3>3. After = 1 => m = Before(id) + 2
      BY <2>3, <2>10
    <3>4. After = 0 => m = Before(id) + 1
      BY <2>3, <2>10
    <3>5. RowAfter(b, n + m)' = FutureRow(id)
      BY <2>3, <2>4, <2>10, <3>2, <3>3, <3>4
    <3>6. RowAfter(b, Len(queue[b]))' = RowAfter(b, n + m)'
      BY <2>1 DEF RowAfter
    <3> QED  BY <1>5, <3>5, <3>6
  <2> QED  BY <2>1, <2>12, <2>13 DEF RowsOpenAt
<1> QED  BY <1>6, <1>7

\* Added requests leave the others as they are.
LEMMA AddKeeps ==
    ASSUME TypeOK, NEW type, NEW a \in Nat, AddRequest(type, a)
    PROVE  /\ \A id \in Ids : requests'[id] = requests[id]
           /\ Ids' = Ids \cup {Len(requests) + 1} /\ Len(requests) + 1 \notin Ids
           /\ requests'[Len(requests) + 1] = [type |-> type, bank |-> Bank(a), row |-> Row(a)]
           /\ Ids = 1 .. Len(requests) /\ Len(requests) \in Nat
<1> DEFINE R == [type : {"read", "write"}, bank : Banks, row : 0 .. cf.rows - 1]
           new == [type |-> type, bank |-> Bank(a), row |-> Row(a)]
<1>1. requests \in Seq(R) /\ requests' = Append(requests, new)
  BY DEF TypeOK, AddRequest
<1> HIDE DEF R, new
<1>2. /\ \A id \in Ids : requests'[id] = requests[id]
      /\ Ids' = Ids \cup {Len(requests) + 1} /\ Len(requests) + 1 \notin Ids
      /\ requests'[Len(requests) + 1] = new
      /\ Ids = 1 .. Len(requests) /\ Len(requests) \in Nat
  BY <1>1 DEF Ids
<1> QED  BY <1>2 DEF new

LEMMA RowsInductive == TypeOK /\ RowsOpen /\ [Next]_vars => RowsOpen'
<1> SUFFICES ASSUME TypeOK, RowsOpen, [Next]_vars PROVE RowsOpen'
  OBVIOUS
<1>1. \A b \in Banks : RowsOpenAt(b)
  BY DEF RowsOpen, RowsOpenAt
<1>2. ASSUME cf' = cf, \A b \in Banks : RowsOpenAt(b)'
      PROVE  RowsOpen'
  <2>1. Banks' = Banks
    BY <1>2, SameGeometry
  <2> QED  BY <1>2, <2>1 DEF RowsOpen, RowsOpenAt
<1>3. ASSUME cf' = cf, queue' = queue, open' = open, future' = future,
             \A id \in Ids : requests'[id] = requests[id]
      PROVE  RowsOpen'
  BY <1>1, <1>2, <1>3, RowsSame
<1>4. ASSUME NEW type, NEW a \in Nat, AddRequest(type, a) PROVE RowsOpen'
  <2>1. cf' = cf /\ queue' = queue /\ open' = open /\ future' = future
    BY <1>4 DEF AddRequest
  <2>2. \A id \in Ids : requests'[id] = requests[id]
    BY <1>4, AddKeeps
  <2> QED  BY <1>3, <2>1, <2>2
<1>5. ASSUME NEW c \in Controllers, RunRequestProcessor(c) PROVE RowsOpen'
  <2>1. cf' = cf
    BY <1>5 DEF RunRequestProcessor
  <2> QED  BY <1>2, <1>5, <2>1, RowsProcessor
<1>6. ASSUME NEW k \in Channels, RunFrontCommand(k) PROVE RowsOpen'
  <2>1. cf' = cf
    BY <1>6 DEF RunFrontCommand
  <2> QED  BY <1>2, <1>6, <2>1, RowsFront
<1>7. ASSUME NEW k \in Channels, PutOff(k) PROVE RowsOpen'
  BY <1>3, <1>7 DEF PutOff
<1>8. ASSUME NEW k \in Channels, NothingToRun(k) PROVE RowsOpen'
  BY <1>3, <1>8 DEF NothingToRun
<1>9. ASSUME NEW x \in running, CommandReturn(x) PROVE RowsOpen'
  BY <1>3, <1>9 DEF CommandReturn
<1>10. ASSUME Tick PROVE RowsOpen'
  BY <1>3, <1>10 DEF Tick
<1>11. ASSUME UNCHANGED vars PROVE RowsOpen'
  BY <1>3, <1>11 DEF vars
<1> QED  BY <1>4, <1>5, <1>6, <1>7, <1>8, <1>9, <1>10, <1>11, NextCases

\* Whatever the page policy and the order of the banks, a read or a write meets
\* the row of its request open, and an activate a precharged bank.
THEOREM RowsAreOpen == Spec => []RowsOpen
<1>1. Init => RowsOpen
  <2> SUFFICES ASSUME Init PROVE RowsOpen
    OBVIOUS
  <2>1. \A b \in Banks : queue[b] = <<>> /\ open[b] = NoRow /\ future[b] = NoRow
    BY DEF Init
  <2> QED  BY <2>1 DEF RowsOpen, RowAfter
<1> QED  BY <1>1, RowsInductive, TypeCorrect, PTL DEF Spec

-----------------------------------------------------------------------------
(***************************************************************************)
(* TimingsKept: the rules of CalculateReadyCycle cover the timing matrix.  *)
(***************************************************************************)
\* The entries of the timing matrix that say nothing.
LEMMA NoTiming ==
    /\ \A a \in Types, w \in {"other", "rank"} : Timing(a, "precharge", w) = 0
    /\ Timing("precharge", "precharge", "same") = 0
    /\ \A a \in Types : Timing(a, "activate", "rank") = 0
    /\ \A a \in {"precharge", "read", "write"} : Timing(a, "activate", "other") = 0
    /\ \A a \in {"read", "write"} : Timing(a, "activate", "same") = 0
    /\ \A b \in {"read", "write"}, w \in {"same", "other", "rank"} :
          Timing("precharge", b, w) = 0
    /\ \A b \in {"read", "write"}, w \in {"other", "rank"} : Timing("activate", b, w) = 0
<1>1. \A a \in Types, w \in {"other", "rank"} : Timing(a, "precharge", w) = 0
  BY DEF Timing, Types
<1>2. Timing("precharge", "precharge", "same") = 0
  BY DEF Timing
<1>3. \A a \in Types : Timing(a, "activate", "rank") = 0
  BY DEF Timing, Types
<1>4. \A a \in {"precharge", "read", "write"} : Timing(a, "activate", "other") = 0
  BY DEF Timing
<1>5. \A a \in {"read", "write"} : Timing(a, "activate", "same") = 0
  BY DEF Timing
<1>6. \A b \in {"read", "write"}, w \in {"same", "other", "rank"} :
          Timing("precharge", b, w) = 0
  BY DEF Timing
<1>7. \A b \in {"read", "write"}, w \in {"other", "rank"} : Timing("activate", b, w) = 0
  BY DEF Timing
<1> QED  BY <1>1, <1>2, <1>3, <1>4, <1>5, <1>6, <1>7

\* The entries for two data commands.
LEMMA DataTiming ==
    /\ \A a \in {"read", "write"}, w \in {"same", "other"} :
          Timing(a, a, w) = Larger(cf.t.burst, cf.t.ccd)
    /\ Timing("read", "read", "rank") = cf.t.burst + cf.t.rtrs
    /\ Timing("write", "write", "rank") = cf.t.burst + cf.t.ost
    /\ \A w \in {"same", "other"} :
          Timing("write", "read", w) = cf.t.cwd + cf.t.burst + cf.t.wtr
    /\ Timing("write", "read", "rank") = cf.t.cwd + cf.t.burst + cf.t.rtrs - cf.t.cas
    /\ \A w \in {"same", "other", "rank"} :
          Timing("read", "write", w) = cf.t.cas + cf.t.burst + cf.t.rtrs - cf.t.cwd
<1>1. \A a \in {"read", "write"}, w \in {"same", "other"} :
          Timing(a, a, w) = Larger(cf.t.burst, cf.t.ccd)
  BY DEF Timing
<1>2. /\ Timing("read", "read", "rank") = cf.t.burst + cf.t.rtrs
      /\ Timing("write", "write", "rank") = cf.t.burst + cf.t.ost
      /\ Timing("write", "read", "rank") = cf.t.cwd + cf.t.burst + cf.t.rtrs - cf.t.cas
  BY DEF Timing
<1>3. \A w \in {"same", "other"} :
          Timing("write", "read", w) = cf.t.cwd + cf.t.burst + cf.t.wtr
  BY DEF Timing
<1>4. \A w \in {"same", "other", "rank"} :
          Timing("read", "write", w) = cf.t.cas + cf.t.burst + cf.t.rtrs - cf.t.cwd
  BY DEF Timing
<1> QED  BY <1>1, <1>2, <1>3, <1>4

\* The last command of a rank is no older than that of each of its banks.
RankAges == \A d \in Banks : \A a \in Types : sinceRank[RankOf(d)][a] <= since[d][a]

\* The rules for each type of command, as members of a set.
LEMMA RulesHas ==
    ASSUME NEW b \in Banks
    PROVE  /\ \A a \in {"activate", "read", "write"} :
                Timing(a, "precharge", "same") - since[b][a] \in Rules("precharge", b)
           /\ \A a \in {"activate", "precharge"} :
                Timing(a, "activate", "same") - since[b][a] \in Rules("activate", b)
           /\ \A d \in Banks : RankOf(d) = RankOf(b) /\ d # b =>
                Timing("activate", "activate", "other") - since[d]["activate"]
                    \in Rules("activate", b)
           /\ Timing("activate", "read", "same") - since[b]["activate"] \in Rules("read", b)
           /\ \A a \in {"read", "write"} :
                Timing(a, "read", "same") - sinceRank[RankOf(b)][a] \in Rules("read", b)
           /\ \A a \in {"activate", "read", "write"} :
                Timing(a, "write", "same") - sinceRank[RankOf(b)][a] \in Rules("write", b)
           /\ \A s \in Ranks : <<s[1], s[2]>> = ChannelOf(b) /\ s # RankOf(b) =>
                /\ Timing("read", "read", "rank") - sinceRank[s]["read"] \in Rules("read", b)
                /\ Timing("read", "read", "rank") - sinceRank[s]["write"] \in Rules("read", b)
                /\ Timing("write", "write", "rank") - sinceRank[s]["write"] \in Rules("write", b)
                /\ Timing("read", "write", "rank") - sinceRank[s]["read"] \in Rules("write", b)
<1>1. \A a \in {"activate", "read", "write"} :
         Timing(a, "precharge", "same") - since[b][a] \in Rules("precharge", b)
  BY DEF Rules
<1>2. \A a \in {"activate", "precharge"} :
         Timing(a, "activate", "same") - since[b][a] \in Rules("activate", b)
  BY DEF Rules
<1>3. \A d \in Banks : RankOf(d) = RankOf(b) /\ d # b =>
         Timing("activate", "activate", "other") - since[d]["activate"] \in Rules("activate", b)
  BY DEF Rules
<1>4. Timing("activate", "read", "same") - since[b]["activate"] \in Rules("read", b)
  BY DEF Rules
<1>5. \A a \in {"read", "write"} :
         Timing(a, "read", "same") - sinceRank[RankOf(b)][a] \in Rules("read", b)
  BY DEF Rules
<1>6. \A a \in {"activate", "read", "write"} :
         Timing(a, "write", "same") - sinceRank[RankOf(b)][a] \in Rules("write", b)
  BY DEF Rules
<1>7. \A s \in Ranks : <<s[1], s[2]>> = ChannelOf(b) /\ s # RankOf(b) =>
         /\ Timing("read", "read", "rank") - sinceRank[s]["read"] \in Rules("read", b)
         /\ Timing("read", "read", "rank") - sinceRank[s]["write"] \in Rules("read", b)
  BY DEF Rules
<1>8. \A s \in Ranks : <<s[1], s[2]>> = ChannelOf(b) /\ s # RankOf(b) =>
         /\ Timing("write", "write", "rank") - sinceRank[s]["write"] \in Rules("write", b)
         /\ Timing("read", "write", "rank") - sinceRank[s]["read"] \in Rules("write", b)
  BY DEF Rules
<1> QED  BY <1>1, <1>2, <1>3, <1>4, <1>5, <1>6, <1>7, <1>8

\* A command that need not wait keeps every entry of the timing matrix.
LEMMA RulesCover ==
    ASSUME TypeOK, RankAges, NEW b \in Banks, NEW type \in Types, WaitFor(type, b) = 0,
           NEW d \in Banks, ChannelOf(d) = ChannelOf(b), NEW a \in Types
    PROVE  since[d][a] >= Timing(a, type, Where(b, d))
<1> DEFINE n == since[d][a]
           m == sinceRank[RankOf(d)][a]
<1>0. AgesOK /\ cf \in Configs
  BY DEF TypeOK, AgesOK
<1>1. \A e \in Banks, c \in Types :
         /\ since[e][c] \in Nat /\ sinceRank[RankOf(e)][c] \in Nat
         /\ sinceRank[RankOf(e)][c] <= since[e][c]
  <2>1. \A c \in Types : /\ \A e \in Banks : since[e][c] \in 0 .. MaxAge
                         /\ \A r \in Ranks : sinceRank[r][c] \in 0 .. MaxAge
    BY <1>0, Ages
  <2>2. \A e \in Banks : RankOf(e) \in Ranks
    BY BankParts
  <2>3. MaxAge \in Nat
    BY <1>0, Parameters
  <2> QED  BY <2>1, <2>2, <2>3 DEF RankAges
<1>2. \A c, w, x : x \in Nat /\ Timing(c, type, w) - x \in Rules(type, b) => x >= Timing(c, type, w)
  <2>1. \A x \in Rules(type, b) : x \in Int /\ x <= 0
    BY <1>0, WaitForType
  <2>2. \A c, w : Timing(c, type, w) \in Int
    BY <1>0, TimingType
  <2> QED  BY <2>1, <2>2
<1>3. a \in {"precharge", "activate", "read", "write"}
  BY DEF Types
<1>4. /\ {"precharge", "activate", "read", "write"} = Types
      /\ Where(b, d) = IF b = d THEN "same" ELSE IF RankOf(b) = RankOf(d) THEN "other" ELSE "rank"
      /\ n \in Nat /\ m \in Nat /\ m <= n
  BY <1>1 DEF Where, Types
<1>5. /\ RankOf(d) \in Ranks
      /\ <<RankOf(d)[1], RankOf(d)[2]>> = ChannelOf(b)
  BY BankParts DEF RankOf, ChannelOf
<1> HIDE DEF n, m
<1>6. CASE type = "precharge"
  <2>1. CASE b = d /\ a # "precharge"
    BY <1>2, <1>3, <1>4, <1>6, <2>1, RulesHas DEF n
  <2>2. CASE ~ (b = d /\ a # "precharge")
    <3>1. Timing(a, "precharge", Where(b, d)) = 0
      BY <1>4, <2>2, NoTiming
    <3> QED  BY <1>4, <1>6, <3>1 DEF n
  <2> QED  BY <2>1, <2>2
<1>7. CASE type = "activate"
  <2>1. CASE b = d /\ a \in {"precharge", "activate"}
    BY <1>2, <1>4, <1>7, <2>1, RulesHas DEF n
  <2>2. CASE b # d /\ RankOf(b) = RankOf(d) /\ a = "activate"
    BY <1>2, <1>4, <1>7, <2>2, RulesHas DEF n
  <2>3. CASE ~ (b = d /\ a \in {"precharge", "activate"})
             /\ ~ (b # d /\ RankOf(b) = RankOf(d) /\ a = "activate")
    <3>1. Timing(a, "activate", Where(b, d)) = 0
      BY <1>3, <1>4, <2>3, NoTiming
    <3> QED  BY <1>4, <1>7, <3>1 DEF n
  <2> QED  BY <2>1, <2>2, <2>3
<1>8. ASSUME type \in {"read", "write"}, a \in {"read", "write"}, RankOf(d) = RankOf(b)
      PROVE  n >= Timing(a, type, Where(b, d))
  <2>1. Where(b, d) \in {"same", "other"}
    BY <1>4, <1>8
  <2>2. Timing(a, type, Where(b, d)) = Timing(a, type, "same")
    BY <1>8, <2>1, DataTiming
  <2>3. Timing(a, type, "same") - m \in Rules(type, b)
    BY <1>8, RulesHas DEF m
  <2>4. Timing(a, type, "same") \in Int /\ m >= Timing(a, type, "same")
    BY <1>0, <1>2, <1>4, <2>3, TimingType
  <2> QED  BY <1>4, <2>2, <2>4
<1>9. ASSUME type \in {"read", "write"}, a \in {"read", "write"}, RankOf(d) # RankOf(b)
      PROVE  n >= Timing(a, type, Where(b, d))
  <2>1. Where(b, d) = "rank"
    BY <1>4, <1>9
  <2>2. CASE type = "read"
    <3>1. Timing("read", "read", "rank") - m \in Rules("read", b)
      BY <1>5, <1>9, RulesHas DEF m
    <3>2. m >= Timing("read", "read", "rank")
      BY <1>2, <1>4, <2>2, <3>1
    <3>3. /\ Timing("read", "read", "rank") = cf.t.burst + cf.t.rtrs
          /\ Timing("write", "read", "rank") = cf.t.cwd + cf.t.burst + cf.t.rtrs - cf.t.cas
      BY DataTiming
    <3>4. Timing(a, "read", "rank") <= Timing("read", "read", "rank")
      BY <1>0, <1>9, <3>3, Parameters
    <3>5. Timing(a, "read", "rank") \in Int /\ Timing("read", "read", "rank") \in Int
      BY <1>0, TimingType
    <3> QED  BY <1>4, <2>1, <2>2, <3>2, <3>4, <3>5
  <2>3. CASE type = "write"
    <3>1. Timing(a, "write", "rank") - m \in Rules("write", b)
      BY <1>5, <1>9, RulesHas DEF m
    <3>2. m >= Timing(a, "write", "rank") /\ Timing(a, "write", "rank") \in Int
      BY <1>0, <1>2, <1>4, <2>3, <3>1, TimingType
    <3> QED  BY <1>4, <2>1, <2>3, <3>2
  <2> QED  BY <1>9, <2>2, <2>3
<1>10. ASSUME type \in {"read", "write"}, a = "activate", b = d
       PROVE  n >= Timing(a, type, Where(b, d))
  <2>1. Where(b, d) = "same"
    BY <1>4, <1>10
  <2>2. CASE type = "read"
    BY <1>2, <1>4, <1>10, <2>1, <2>2, RulesHas DEF n
  <2>3. CASE type = "write"
    <3>1. Timing("activate", "write", "same") - m \in Rules("write", b)
      BY <1>10, RulesHas DEF m
    <3>2. m >= Timing("activate", "write", "same") /\ Timing("activate", "write", "same") \in Int
      BY <1>0, <1>2, <1>4, <2>3, <3>1, TimingType
    <3> QED  BY <1>4, <1>10, <2>1, <2>3, <3>2
  <2> QED  BY <1>10, <2>2, <2>3
<1>11. ASSUME type \in {"read", "write"}, a = "precharge" \/ (a = "activate" /\ b # d)
       PROVE  n >= Timing(a, type, Where(b, d))
  <2>1. Timing(a, type, Where(b, d)) = 0
    BY <1>4, <1>11, NoTiming
  <2> QED  BY <1>4, <2>1
<1>12. type \in {"precharge", "activate", "read", "write"}
  BY DEF Types
<1> QED  BY <1>3, <1>6, <1>7, <1>8, <1>9, <1>10, <1>11, <1>12 DEF n

\* The ages after a command has run.
LEMMA FrontAges ==
    ASSUME TypeOK, NEW k, NEW b, NEW command, FrontEffect(k, b, command)
    PROVE  /\ \A d \in Banks, a \in Types :
                since'[d][a] = IF d = b /\ a = command.type THEN 0 ELSE since[d][a]
           /\ \A r \in Ranks, a \in Types :
                sinceRank'[r][a] = IF r = RankOf(b) /\ a = command.type THEN 0
                                   ELSE sinceRank[r][a]
<1>1. /\ b \in Banks /\ RankOf(b) \in Ranks /\ command.type \in Types
      /\ since' = [since EXCEPT ![b][command.type] = 0]
      /\ sinceRank' = [sinceRank EXCEPT ![RankOf(b)][command.type] = 0]
  BY DEF FrontEffect
<1> QED  BY <1>1 DEF TypeOK

\* The ages after a cycle.
LEMMA TickAges ==
    ASSUME TypeOK, Tick
    PROVE  /\ \A d \in Banks, a \in Types :
                since'[d][a] = IF since[d][a] < MaxAge THEN since[d][a] + 1 ELSE MaxAge
           /\ \A r \in Ranks, a \in Types :
                sinceRank'[r][a] = IF sinceRank[r][a] < MaxAge THEN sinceRank[r][a] + 1 ELSE MaxAge
  BY OlderType DEF TypeOK, Tick

\* The actions that run no command keep the ages, or age them all.
LEMMA AgesStep ==
    ASSUME TypeOK, [Next]_vars
    PROVE  /\ cf' = cf
           /\ \/ \E k \in Channels : RunFrontCommand(k)
              \/ Tick
              \/ since' = since /\ sinceRank' = sinceRank
<1>1. ASSUME NEW type, NEW a, AddRequest(type, a)
      PROVE  cf' = cf /\ since' = since /\ sinceRank' = sinceRank
  BY <1>1 DEF AddRequest
<1>2. ASSUME NEW c, RunRequestProcessor(c)
      PROVE  cf' = cf /\ since' = since /\ sinceRank' = sinceRank
  BY <1>2 DEF RunRequestProcessor
<1>3. ASSUME NEW k, RunFrontCommand(k) PROVE cf' = cf
  BY <1>3 DEF RunFrontCommand
<1>4. ASSUME NEW k, PutOff(k)
      PROVE  cf' = cf /\ since' = since /\ sinceRank' = sinceRank
  BY <1>4 DEF PutOff
<1>5. ASSUME NEW k, NothingToRun(k)
      PROVE  cf' = cf /\ since' = since /\ sinceRank' = sinceRank
  BY <1>5 DEF NothingToRun
<1>6. ASSUME NEW x, CommandReturn(x)
      PROVE  cf' = cf /\ since' = since /\ sinceRank' = sinceRank
  BY <1>6 DEF CommandReturn
<1>7. ASSUME Tick PROVE cf' = cf
  BY <1>7 DEF Tick
<1>8. ASSUME UNCHANGED vars
      PROVE  cf' = cf /\ since' = since /\ sinceRank' = sinceRank
  BY <1>8 DEF vars
<1> QED  BY <1>1, <1>2, <1>3, <1>4, <1>5, <1>6, <1>7, <1>8, NextCases

LEMMA RankAgesInductive == TypeOK /\ RankAges /\ [Next]_vars => RankAges'
<1> SUFFICES ASSUME TypeOK, RankAges, [Next]_vars PROVE RankAges'
  OBVIOUS
<1>0. /\ Banks' = Banks
      /\ \A d \in Banks : RankOf(d) \in Ranks
      /\ \A d \in Banks, a \in Types : since[d][a] \in 0 .. MaxAge
      /\ \A r \in Ranks, a \in Types : sinceRank[r][a] \in 0 .. MaxAge
      /\ MaxAge \in Nat
  BY AgesStep, SameGeometry, BankParts, Ages, Parameters DEF TypeOK, AgesOK
<1> SUFFICES ASSUME NEW d \in Banks, NEW a \in Types
             PROVE  sinceRank'[RankOf(d)][a] <= since'[d][a]
  BY <1>0 DEF RankAges, RankOf
<1>1. sinceRank[RankOf(d)][a] <= since[d][a]
  BY DEF RankAges
<1>2. ASSUME NEW k \in Channels, RunFrontCommand(k)
      PROVE  sinceRank'[RankOf(d)][a] <= since'[d][a]
  <2>1. PICK b, command : FrontEffect(k, b, command)
    BY <1>2, FrontStep
  <2>2. /\ since'[d][a] = IF d = b /\ a = command.type THEN 0 ELSE since[d][a]
        /\ sinceRank'[RankOf(d)][a] = IF RankOf(d) = RankOf(b) /\ a = command.type THEN 0
                                      ELSE sinceRank[RankOf(d)][a]
    BY <1>0, <2>1, FrontAges
  <2> QED  BY <1>0, <1>1, <2>2
<1>3. ASSUME Tick PROVE sinceRank'[RankOf(d)][a] <= since'[d][a]
  <2>1. /\ since'[d][a] = IF since[d][a] < MaxAge THEN since[d][a] + 1 ELSE MaxAge
        /\ sinceRank'[RankOf(d)][a] = IF sinceRank[RankOf(d)][a] < MaxAge
                                      THEN sinceRank[RankOf(d)][a] + 1 ELSE MaxAge
    BY <1>0, <1>3, TickAges
  <2>2. since[d][a] \in Int /\ sinceRank[RankOf(d)][a] \in Int /\ MaxAge \in Int
        /\ since[d][a] <= MaxAge
    BY <1>0
  <2> QED  BY <1>1, <2>1, <2>2
<1> QED  BY <1>1, <1>2, <1>3, AgesStep

LEMMA RankAgesAlways == Spec => []RankAges
<1>1. Init => RankAges
  <2> SUFFICES ASSUME Init PROVE RankAges
    OBVIOUS
  <2>1. MaxAge \in Nat /\ \A d \in Banks : RankOf(d) \in Ranks
    BY Parameters, BankParts DEF Init
  <2>2. \A d \in Banks, a \in Types : since[d][a] = MaxAge
    BY DEF Init
  <2>3. \A r \in Ranks, a \in Types : sinceRank[r][a] = MaxAge
    BY DEF Init
  <2> QED  BY <2>1, <2>2, <2>3 DEF RankAges
<1> QED  BY <1>1, RankAgesInductive, TypeCorrect, PTL DEF Spec

\* Only a scheduler both takes a command from a queue and runs it.
LEMMA RunsCommand ==
    ASSUME TypeOK, [Next]_vars, queue' # queue, running' # running
    PROVE  \E k \in Channels : RunFrontCommand(k)
<1>1. ASSUME NEW type, NEW a, AddRequest(type, a) PROVE queue' = queue
  BY <1>1, Zenon DEF AddRequest
<1>2. ASSUME NEW c, RunRequestProcessor(c) PROVE running' = running
  BY <1>2, Zenon DEF RunRequestProcessor
<1>3. ASSUME NEW k, PutOff(k) \/ NothingToRun(k) PROVE queue' = queue
  BY <1>3, Zenon DEF PutOff, NothingToRun
<1>4. ASSUME NEW x, CommandReturn(x) PROVE queue' = queue
  BY <1>4, Zenon DEF CommandReturn
<1>5. ASSUME Tick \/ UNCHANGED vars PROVE queue' = queue
  BY <1>5, Zenon DEF Tick, vars
<1> QED  BY <1>1, <1>2, <1>3, <1>4, <1>5, NextCases

\* The step that runs a command finds every timing kept.
CommandKeeps(b) ==
    queue'[b] # queue[b] /\ running' # running =>
        \A d \in BanksOf(ChannelOf(b)) : \A a \in Types :
            since[d][a] >= Timing(a, Head(queue[b]).type, Where(b, d))

LEMMA KeepsTimings ==
    ASSUME TypeOK, RankAges, [Next]_vars, NEW b \in Banks
    PROVE  CommandKeeps(b)
<1> SUFFICES ASSUME queue'[b] # queue[b], running' # running,
                    NEW d \in BanksOf(ChannelOf(b)), NEW a \in Types
             PROVE  since[d][a] >= Timing(a, Head(queue[b]).type, Where(b, d))
  BY DEF CommandKeeps
<1>1. PICK k \in Channels : RunFrontCommand(k)
  BY RunsCommand
<1>2. PICK e, command : FrontEffect(k, e, command)
  BY <1>1, FrontStep
<1>3. /\ e = b /\ command = queue[b][1] /\ queue[b] # <<>>
      /\ command.type \in Types /\ WaitFor(command.type, b) = 0
  BY <1>2 DEF FrontEffect
<1>4. command = Head(queue[b])
  <2> DEFINE C == [type : Types, id : Ids]
  <2>1. queue[b] \in Seq(C)
    BY QueueType
  <2> HIDE DEF C
  <2> QED  BY <1>3, <2>1, TailIndex
<1>5. d \in Banks /\ ChannelOf(d) = ChannelOf(b)
  BY DEF BanksOf
<1> QED  BY <1>3, <1>4, <1>5, RulesCover

\* RunScheduler runs a command only when every command before it, in every bank of
\* the channel, is as far back as the timing matrix asks, although it looks only at
\* the last commands of the bank and of the ranks, and takes a write to another
\* rank for a read.
THEOREM TimingsAreKept == Spec => TimingsKept
<1>1. TypeOK /\ RankAges /\ [Next]_vars =>
        [\A b \in Banks : CommandKeeps(b)]_vars
  BY KeepsTimings
<1>2. Spec => [][\A b \in Banks : CommandKeeps(b)]_vars
  BY <1>1, TypeCorrect, RankAgesAlways, PTL DEF Spec
<1> QED  BY <1>2 DEF TimingsKept, CommandKeeps

-----------------------------------------------------------------------------
(***************************************************************************)
(* BusExclusive: the data of two commands never meet on a channel.         *)
(***************************************************************************)
\* The commands of a queue belong to requests for its bank.
AtHome ==
    \A b \in Banks : \A i \in 1 .. Len(queue[b]) : Home(queue[b][i].id) = b

Data(x) == x.type \in {"read", "write"}

\* The bank remembers a running data command, or a later one of the same type.
Remembered ==
    \A x \in running : Data(x) => since[Home(x.id)][x.type] <= Duration(x.type) - x.left

\* The cycles until the data of a command has left the bus.
DataEnd(x) == IF x.type = "write" THEN x.left - cf.t.wtr ELSE x.left

\* The data of two commands ends at least a burst apart.
BurstsApart ==
    \A x, y \in running :
        x # y /\ Data(x) /\ Data(y) /\ ChannelOf(Home(x.id)) = ChannelOf(Home(y.id)) =>
            \/ DataEnd(x) + cf.t.burst <= DataEnd(y)
            \/ DataEnd(y) + cf.t.burst <= DataEnd(x)

BusInv == AtHome /\ Remembered /\ BurstsApart

\* What a running command says.
LEMMA RunningType ==
    ASSUME TypeOK, NEW x \in running
    PROVE  /\ x \in [type : Types, id : Ids, left : Nat]
           /\ x.type \in Types /\ x.id \in Ids /\ x.left \in Nat
           /\ Home(x.id) \in Banks
           /\ Duration(x.type) \in Nat
           /\ since[Home(x.id)][x.type] \in Nat
           /\ DataEnd(x) \in Int
<1>1. x \in [type : Types, id : Ids, left : Nat] /\ cf \in Configs
  BY DEF TypeOK
<1>2. Home(x.id) \in Banks
  BY <1>1, RequestType DEF Home
<1>3. Duration(x.type) \in Nat
  BY <1>1, DurationType
<1>4. since[Home(x.id)][x.type] \in Nat
  <2>1. AgesOK /\ MaxAge \in Nat
    BY <1>1, Parameters DEF TypeOK, AgesOK
  <2>2. since[Home(x.id)][x.type] \in 0 .. MaxAge
    BY <1>1, <1>2, <2>1, Ages
  <2> QED  BY <2>1, <2>2
<1>5. DataEnd(x) \in Int
  BY <1>1, Parameters DEF DataEnd
<1> QED  BY <1>1, <1>2, <1>3, <1>4, <1>5

\* A data command that need not wait ends its data a burst after the data that is
\* under way.
LEMMA BurstsFollow ==
    ASSUME TypeOK, RankAges, Remembered, NEW x \in running, Data(x),
           NEW b \in Banks, ChannelOf(Home(x.id)) = ChannelOf(b),
           NEW y, y.type \in {"read", "write"}, y.left = Duration(y.type),
           WaitFor(y.type, b) = 0
    PROVE  DataEnd(x) + cf.t.burst <= DataEnd(y)
<1> DEFINE w == Where(b, Home(x.id))
           T == Timing(x.type, y.type, w)
<1>1. /\ cf \in Configs /\ x.type \in Types /\ Home(x.id) \in Banks
      /\ x.left \in Nat /\ y.type \in Types
      /\ since[Home(x.id)][x.type] \in Nat /\ Duration(x.type) \in Nat
  BY RunningType DEF TypeOK, Types
<1>2. since[Home(x.id)][x.type] >= T
  BY <1>1, RulesCover
<1>3. since[Home(x.id)][x.type] <= Duration(x.type) - x.left
  BY DEF Remembered
<1>4. T \in Int
  BY <1>1, TimingType
<1>5. x.left <= Duration(x.type) - T
  <2> HIDE DEF T
  <2> QED  BY <1>1, <1>2, <1>3, <1>4
<1>6. w \in {"same", "other", "rank"}
  BY DEF Where
<1>7. /\ x.type \in {"read", "write"}
      /\ Duration("read") = cf.t.cas + cf.t.burst
      /\ Duration("write") = cf.t.cwd + cf.t.burst + cf.t.wtr
      /\ cf.t.cas \in Nat /\ cf.t.cwd \in Nat /\ cf.t.burst \in Nat /\ cf.t.ccd \in Nat
      /\ cf.t.rtrs \in Nat /\ cf.t.wtr \in Nat /\ cf.t.ost \in Nat
      /\ cf.t.burst <= Larger(cf.t.burst, cf.t.ccd) /\ Larger(cf.t.burst, cf.t.ccd) \in Nat
  BY <1>1, DurationType, Parameters DEF Data, Larger
<1> HIDE DEF w
<1>8. CASE x.type = "read" /\ y.type = "read"
  <2>1. T \in {Larger(cf.t.burst, cf.t.ccd), cf.t.burst + cf.t.rtrs}
    BY <1>6, <1>8, DataTiming
  <2> HIDE DEF T
  <2> QED  BY <1>1, <1>5, <1>7, <1>8, <2>1 DEF DataEnd
<1>9. CASE x.type = "write" /\ y.type = "write"
  <2>1. T \in {Larger(cf.t.burst, cf.t.ccd), cf.t.burst + cf.t.ost}
    BY <1>6, <1>9, DataTiming
  <2> HIDE DEF T
  <2> QED  BY <1>1, <1>5, <1>7, <1>9, <2>1 DEF DataEnd
<1>10. CASE x.type = "write" /\ y.type = "read"
  <2>1. T \in {cf.t.cwd + cf.t.burst + cf.t.wtr,
               cf.t.cwd + cf.t.burst + cf.t.rtrs - cf.t.cas}
    BY <1>6, <1>10, DataTiming
  <2> HIDE DEF T
  <2> QED  BY <1>1, <1>5, <1>7, <1>10, <2>1 DEF DataEnd
<1>11. CASE x.type = "read" /\ y.type = "write"
  <2>1. T = cf.t.cas + cf.t.burst + cf.t.rtrs - cf.t.cwd
    BY <1>6, <1>11, DataTiming
  <2> HIDE DEF T
  <2> QED  BY <1>1, <1>5, <1>7, <1>11, <2>1 DEF DataEnd
<1> QED  BY <1>7, <1>8, <1>9, <1>10, <1>11

\* While no command runs or returns, and no cycle passes.
LEMMA BusSame ==
    ASSUME TypeOK, BusInv, cf' = cf, queue' = queue, since' = since,
           running' \subseteq running, \A id \in Ids : requests'[id] = requests[id]
    PROVE  BusInv'
<1>1. Banks' = Banks
  BY SameGeometry
<1>2. AtHome'
  <2>1. \A b \in Banks : \A i \in 1 .. Len(queue[b]) : queue[b][i].id \in Ids
    BY QueueType
  <2> QED  BY <1>1, <2>1 DEF BusInv, AtHome, Home
<1>3. \A x \in running : /\ Home(x.id)' = Home(x.id) /\ Duration(x.type)' = Duration(x.type)
                         /\ DataEnd(x)' = DataEnd(x) /\ Data(x)' = Data(x)
  BY RunningType DEF Home, Duration, DataEnd, Data
<1>4. Remembered'
  BY <1>3 DEF BusInv, Remembered
<1>5. BurstsApart'
  BY <1>3 DEF BusInv, BurstsApart, ChannelOf
<1> QED  BY <1>2, <1>4, <1>5 DEF BusInv

LEMMA BusProcessor ==
    ASSUME TypeOK, BusInv, NEW c \in Controllers, RunRequestProcessor(c)
    PROVE  BusInv'
<1>a. PICK id : id = Head(incoming[c])
  BY Zenon
<1>b. PICK b : b = requests[id].bank
  BY Zenon
<1>1. id = Head(incoming[c]) /\ b = requests[id].bank
  BY <1>a, <1>b, ZenonT(30)
<1>2. /\ id \in Ids /\ b \in Banks
      /\ queue'[b] = queue[b] \o Commands(id)
      /\ \A e \in Banks : e # b => queue'[e] = queue[e]
  BY <1>1, ProcessorStep
<1>3. cf' = cf /\ since' = since /\ running' = running /\ requests' = requests
  BY DEF RunRequestProcessor
<1>4. Banks' = Banks
  BY <1>3, SameGeometry
<1>5. ASSUME NEW e \in Banks, NEW i \in 1 .. Len(queue'[e])
      PROVE  requests[queue'[e][i].id].bank = e
  <2>1. CASE e # b
    BY <1>2, <1>5, <2>1 DEF BusInv, AtHome, Home
  <2>2. CASE e = b
    <3> DEFINE C == [type : Types, id : Ids]
    <3>1. queue[b] \in Seq(C) /\ Commands(id) \in Seq(C)
      BY <1>2, QueueType, CommandsShape
    <3> HIDE DEF C
    <3>2. /\ Len(queue[b]) \in Nat /\ Len(Commands(id)) \in Nat
          /\ Len(queue'[b]) = Len(queue[b]) + Len(Commands(id))
          /\ \A j \in 1 .. Len(queue[b]) : queue'[b][j] = queue[b][j]
          /\ \A j \in 1 .. Len(Commands(id)) : queue'[b][Len(queue[b]) + j] = Commands(id)[j]
      BY <1>2, <3>1, ConcatIndex
    <3>3. CASE i \in 1 .. Len(queue[b])
      <4>1. queue'[b][i] = queue[b][i]
        BY <3>2, <3>3
      <4>2. Home(queue[b][i].id) = b
        BY <1>2, <3>3 DEF BusInv, AtHome
      <4> QED  BY <2>2, <4>1, <4>2 DEF Home
    <3>4. CASE i \notin 1 .. Len(queue[b])
      <4> DEFINE j == i - Len(queue[b])
      <4>1. j \in 1 .. Len(Commands(id)) /\ i = Len(queue[b]) + j
        BY <2>2, <3>2, <3>4
      <4> HIDE DEF j
      <4>2. Commands(id)[j].id = id
        BY <1>2, <4>1, CommandsShape
      <4>3. queue'[b][i] = Commands(id)[j]
        BY <3>2, <4>1
      <4> QED  BY <1>1, <2>2, <4>2, <4>3
    <3> QED  BY <3>3, <3>4
  <2> QED  BY <2>1, <2>2
<1>6. AtHome'
  BY <1>3, <1>4, <1>5 DEF AtHome, Home
<1>7. Remembered' /\ BurstsApart'
  BY <1>3 DEF BusInv, Remembered, BurstsApart, Home, Duration, DataEnd, Data, ChannelOf
<1> QED  BY <1>6, <1>7 DEF BusInv

LEMMA BusFront ==
    ASSUME TypeOK, RankAges, BusInv, NEW k \in Channels, RunFrontCommand(k)
    PROVE  BusInv'
<1>1. PICK b, command : FrontEffect(k, b, command)
  BY FrontStep
<1>2. PICK new : new = [type |-> command.type, id |-> command.id,
                        left |-> Duration(command.type)]
  OBVIOUS
<1>3. /\ b \in Banks /\ queue[b] # <<>> /\ command = queue[b][1]
      /\ command.type \in Types /\ command.id \in Ids
      /\ WaitFor(command.type, b) = 0
      /\ running' = running \cup {new}
      /\ queue'[b] = Tail(queue[b])
      /\ \A e \in Banks : e # b => queue'[e] = queue[e]
      /\ cf' = cf /\ requests' = requests
  BY <1>1, <1>2 DEF FrontEffect
<1>4. Banks' = Banks
  BY <1>3, SameGeometry
<1>5. new.type = command.type /\ new.id = command.id /\ new.left = Duration(new.type)
  BY <1>2
<1>6. /\ Len(queue[b]) \in Nat \ {0} /\ Len(queue'[b]) = Len(queue[b]) - 1
      /\ \A i \in 1 .. Len(queue'[b]) : queue'[b][i] = queue[b][i + 1]
  <2> DEFINE C == [type : Types, id : Ids]
  <2>1. queue[b] \in Seq(C)
    BY <1>3, QueueType
  <2> HIDE DEF C
  <2> QED  BY <1>3, <2>1, TailIndex
<1>7. Home(new.id) = b
  <2>1. 1 \in 1 .. Len(queue[b])
    BY <1>6
  <2> QED  BY <1>3, <1>5, <2>1 DEF BusInv, AtHome
<1>8. AtHome'
  <2>1. ASSUME NEW e \in Banks, NEW i \in 1 .. Len(queue'[e])
        PROVE  Home(queue'[e][i].id) = e
    <3>1. CASE e # b
      BY <1>3, <2>1, <3>1 DEF BusInv, AtHome
    <3>2. CASE e = b
      <4>1. i + 1 \in 1 .. Len(queue[b])
        BY <1>6, <3>2
      <4>2. queue'[b][i] = queue[b][i + 1]
        BY <1>6, <3>2
      <4> QED  BY <1>3, <3>2, <4>1, <4>2 DEF BusInv, AtHome
    <3> QED  BY <3>1, <3>2
  <2> QED  BY <1>3, <1>4, <2>1 DEF AtHome, Home
<1>9. \A x : /\ Home(x.id)' = Home(x.id) /\ Duration(x.type)' = Duration(x.type)
             /\ DataEnd(x)' = DataEnd(x) /\ Data(x)' = Data(x)
  BY <1>3 DEF Home, Duration, DataEnd, Data
<1>10. \A d \in Banks, a \in Types :
          since'[d][a] = IF d = b /\ a = command.type THEN 0 ELSE since[d][a]
  BY <1>1, FrontAges
<1>11. Remembered'
  <2>1. ASSUME NEW x \in running, Data(x)
        PROVE  since'[Home(x.id)][x.type] <= Duration(x.type) - x.left
    <3>1. /\ x.type \in Types /\ Home(x.id) \in Banks /\ x.left \in Nat
          /\ Duration(x.type) \in Nat /\ since[Home(x.id)][x.type] \in Nat
      BY RunningType
    <3>2. since[Home(x.id)][x.type] <= Duration(x.type) - x.left
      BY <2>1 DEF BusInv, Remembered
    <3>3. \/ since'[Home(x.id)][x.type] = 0
          \/ since'[Home(x.id)][x.type] = since[Home(x.id)][x.type]
      BY <1>10, <3>1
    <3> QED  BY <3>1, <3>2, <3>3
  <2>2. since'[Home(new.id)][new.type] <= Duration(new.type) - new.left
    <3>1. since'[b][new.type] = 0
      BY <1>3, <1>5, <1>10
    <3>2. Duration(new.type) \in Nat
      BY <1>3, <1>5, DurationType DEF TypeOK
    <3> QED  BY <1>5, <1>7, <3>1, <3>2
  <2> QED  BY <1>3, <1>9, <2>1, <2>2 DEF Remembered
<1>12. BurstsApart'
  <2>1. ASSUME NEW x \in running, Data(x), Data(new),
               ChannelOf(Home(x.id)) = ChannelOf(Home(new.id))
        PROVE  DataEnd(x) + cf.t.burst <= DataEnd(new)
    <3>1. /\ new.type \in {"read", "write"} /\ new.left = Duration(new.type)
          /\ WaitFor(new.type, b) = 0 /\ ChannelOf(Home(x.id)) = ChannelOf(b)
          /\ Remembered
      BY <1>3, <1>5, <1>7, <2>1 DEF Data, BusInv
    <3> QED  BY <1>3, <2>1, <3>1, BurstsFollow
  <2>2. ASSUME NEW x \in running \cup {new}, NEW y \in running \cup {new},
               x # y, Data(x), Data(y), ChannelOf(Home(x.id)) = ChannelOf(Home(y.id))
        PROVE  \/ DataEnd(x) + cf.t.burst <= DataEnd(y)
               \/ DataEnd(y) + cf.t.burst <= DataEnd(x)
    <3>1. CASE x \in running /\ y \in running
      BY <2>2, <3>1 DEF BusInv, BurstsApart
    <3>2. CASE x = new
      BY <2>1, <2>2, <3>2
    <3>3. CASE y = new
      BY <2>1, <2>2, <3>3
    <3> QED  BY <2>2, <3>1, <3>2, <3>3
  <2>3. \A d : ChannelOf(d)' = ChannelOf(d)
    BY DEF ChannelOf
  <2> QED  BY <1>3, <1>9, <2>2, <2>3 DEF BurstsApart
<1> QED  BY <1>8, <1>11, <1>12 DEF BusInv

LEMMA BusTick ==
    ASSUME TypeOK, BusInv, Tick
    PROVE  BusInv'
<1>1. /\ cf' = cf /\ queue' = queue /\ requests' = requests
      /\ running' = {[x EXCEPT !.left = @ - 1] : x \in running}
      /\ \A x \in running : x.left # 0
  BY DEF Tick, Quiet
<1>2. Banks' = Banks
  BY <1>1, SameGeometry
<1>3. AtHome'
  BY <1>1, <1>2 DEF BusInv, AtHome, Home
<1>4. ASSUME NEW z \in running'
      PROVE  \E x \in running :
                /\ z.type = x.type /\ z.id = x.id /\ z.left = x.left - 1
                /\ z = [x EXCEPT !.left = @ - 1]
                /\ DataEnd(z)' = DataEnd(x) - 1
  <2>1. PICK x \in running : z = [x EXCEPT !.left = @ - 1]
    BY <1>1, <1>4
  <2>2. x \in [type : Types, id : Ids, left : Nat] /\ cf.t.wtr \in Nat
    BY RunningType, Parameters DEF TypeOK
  <2>3. z.type = x.type /\ z.id = x.id /\ z.left = x.left - 1
    BY <2>1, <2>2
  <2>4. DataEnd(z)' = DataEnd(x) - 1
    BY <1>1, <2>2, <2>3 DEF DataEnd
  <2> QED  BY <2>1, <2>3, <2>4
<1>5. \A x : /\ Home(x.id)' = Home(x.id) /\ Duration(x.type)' = Duration(x.type)
             /\ Data(x)' = Data(x)
  BY <1>1 DEF Home, Duration, Data
<1>6. Remembered'
  <2>1. ASSUME NEW z \in running', Data(z)
        PROVE  since'[Home(z.id)][z.type] <= Duration(z.type) - z.left
    <3>1. PICK x \in running : z.type = x.type /\ z.id = x.id /\ z.left = x.left - 1
      BY <1>4, <2>1
    <3>2. /\ x.type \in Types /\ Home(x.id) \in Banks /\ x.left \in Nat
          /\ Duration(x.type) \in Nat /\ since[Home(x.id)][x.type] \in Nat
      BY RunningType
    <3>3. since[Home(x.id)][x.type] <= Duration(x.type) - x.left
      BY <2>1, <3>1 DEF BusInv, Remembered, Data
    <3>4. since'[Home(x.id)][x.type] = IF since[Home(x.id)][x.type] < MaxAge
                                       THEN since[Home(x.id)][x.type] + 1 ELSE MaxAge
      BY <3>2, TickAges
    <3>5. MaxAge \in Nat
      BY Parameters DEF TypeOK
    <3>6. since'[Home(x.id)][x.type] <= since[Home(x.id)][x.type] + 1
          /\ since'[Home(x.id)][x.type] \in Nat
      BY <3>2, <3>4, <3>5
    <3> QED  BY <3>1, <3>2, <3>3, <3>6
  <2> QED  BY <1>5, <2>1 DEF Remembered
<1>7. BurstsApart'
  <2>1. ASSUME NEW z1 \in running', NEW z2 \in running', z1 # z2, Data(z1), Data(z2),
               ChannelOf(Home(z1.id)) = ChannelOf(Home(z2.id))
        PROVE  \/ DataEnd(z1)' + cf.t.burst <= DataEnd(z2)'
               \/ DataEnd(z2)' + cf.t.burst <= DataEnd(z1)'
    <3>1. PICK x \in running : /\ z1.type = x.type /\ z1.id = x.id
                               /\ z1 = [x EXCEPT !.left = @ - 1]
                               /\ DataEnd(z1)' = DataEnd(x) - 1
      BY <1>4
    <3>2. PICK y \in running : /\ z2.type = y.type /\ z2.id = y.id
                               /\ z2 = [y EXCEPT !.left = @ - 1]
                               /\ DataEnd(z2)' = DataEnd(y) - 1
      BY <1>4
    <3>3. x # y /\ Data(x) /\ Data(y) /\ ChannelOf(Home(x.id)) = ChannelOf(Home(y.id))
      BY <2>1, <3>1, <3>2 DEF Data
    <3>4. \/ DataEnd(x) + cf.t.burst <= DataEnd(y)
          \/ DataEnd(y) + cf.t.burst <= DataEnd(x)
      BY <3>3 DEF BusInv, BurstsApart
    <3>5. DataEnd(x) \in Int /\ DataEnd(y) \in Int /\ cf.t.burst \in Int
      <4>1. DataEnd(x) \in Int /\ DataEnd(y) \in Int
        BY RunningType
      <4>2. cf.t.burst \in Int
        BY Parameters DEF TypeOK
      <4> QED  BY <4>1, <4>2
    <3> QED  BY <3>1, <3>2, <3>4, <3>5
  <2>2. \A d : ChannelOf(d)' = ChannelOf(d)
    BY DEF ChannelOf
  <2> QED  BY <1>1, <1>5, <2>1, <2>2 DEF BurstsApart
<1> QED  BY <1>3, <1>6, <1>7 DEF BusInv

LEMMA BusInductive == TypeOK /\ RankAges /\ BusInv /\ [Next]_vars => BusInv'
<1> SUFFICES ASSUME TypeOK, RankAges, BusInv, [Next]_vars PROVE BusInv'
  OBVIOUS
<1>1. ASSUME NEW type, NEW a \in Nat, AddRequest(type, a) PROVE BusInv'
  <2>1. cf' = cf /\ queue' = queue /\ since' = since /\ running' \subseteq running
    BY <1>1 DEF AddRequest
  <2>2. \A id \in Ids : requests'[id] = requests[id]
    BY <1>1, AddKeeps
  <2> QED  BY <2>1, <2>2, BusSame
<1>2. ASSUME NEW k, PutOff(k) \/ NothingToRun(k) PROVE BusInv'
  <2>1. /\ cf' = cf /\ queue' = queue /\ since' = since /\ running' \subseteq running
        /\ requests' = requests
    BY <1>2 DEF PutOff, NothingToRun
  <2> QED  BY <2>1, BusSame
<1>3. ASSUME NEW x, CommandReturn(x) PROVE BusInv'
  <2>1. /\ cf' = cf /\ queue' = queue /\ since' = since /\ running' \subseteq running
        /\ requests' = requests
    BY <1>3 DEF CommandReturn
  <2> QED  BY <2>1, BusSame
<1>4. ASSUME UNCHANGED vars PROVE BusInv'
  BY <1>4, BusSame DEF vars
<1> QED  BY <1>1, <1>2, <1>3, <1>4, BusProcessor, BusFront, BusTick, NextCases

LEMMA BusInvAlways == Spec => []BusInv
<1>1. Init => BusInv
  <2> SUFFICES ASSUME Init PROVE BusInv
    OBVIOUS
  <2>1. running = {} /\ \A b \in Banks : queue[b] = <<>>
    BY DEF Init
  <2>2. AtHome
    <3>1. \A b \in Banks : Len(queue[b]) = 0
      BY <2>1
    <3> QED  BY <3>1 DEF AtHome
  <2> QED  BY <2>1, <2>2 DEF BusInv, Remembered, BurstsApart
<1> QED  BY <1>1, BusInductive, TypeCorrect, RankAgesAlways, PTL DEF Spec

\* The data of at most one command is on the bus of a channel.
THEOREM BusIsExclusive == Spec => []BusExclusive
<1>1. TypeOK /\ BusInv => BusExclusive
  <2> SUFFICES ASSUME TypeOK, BusInv, NEW x \in running, NEW y \in running,
                      x # y, OnBus(x), OnBus(y),
                      ChannelOf(Home(x.id)) = ChannelOf(Home(y.id))
               PROVE  FALSE
    BY DEF BusExclusive
  <2>1. /\ x.left \in Nat /\ y.left \in Nat /\ cf.t.burst \in Nat /\ cf.t.wtr \in Nat
    BY RunningType, Parameters DEF TypeOK
  <2>2. Data(x) /\ Data(y) /\ DataEnd(x) \in 1 .. cf.t.burst /\ DataEnd(y) \in 1 .. cf.t.burst
    BY <2>1 DEF OnBus, Data, DataEnd
  <2>3. \/ DataEnd(x) + cf.t.burst <= DataEnd(y)
        \/ DataEnd(y) + cf.t.burst <= DataEnd(x)
    BY <2>2 DEF BusInv, BurstsApart
  <2> QED  BY <2>1, <2>2, <2>3
<1> QED  BY <1>1, BusInvAlways, TypeCorrect, PTL
-----------------------------------------------------------------------------
(***************************************************************************)
(* The DRAM system implements Channel, with a lane for every bank: a bank  *)
(* serves its requests once and in the order they were added, although     *)
(* they pass the queue of the controller, are broken down into commands    *)
(* that the scheduler interleaves with those of other banks, and return    *)
(* after latencies that differ for reads and writes.                       *)
(***************************************************************************)
-----------------------------------------------------------------------------
(***************************************************************************)
(* A set of numbers in increasing order.                                   *)
(***************************************************************************)
Choice(T) == CHOOSE n \in T : TRUE

\* The elements of S with i - 1 smaller ones.
Ranked(S, i) == {k \in S : Cardinality({m \in S : m < k}) = i - 1}

LEMMA InOrderIsSeq ==
    ASSUME NEW S, IsFiniteSet(S)
    PROVE  /\ Cardinality(S) \in Nat
           /\ InOrder(S) \in Seq({Choice(Ranked(S, i)) : i \in 1 .. Cardinality(S)})
           /\ Len(InOrder(S)) = Cardinality(S)
           /\ \A i \in 1 .. Cardinality(S) : InOrder(S)[i] = Choice(Ranked(S, i))
<1> DEFINE n == Cardinality(S)
           X == {Choice(Ranked(S, i)) : i \in 1 .. n}
<1>1. n \in Nat
  BY FS_CardinalityType
<1>2. \A i \in 1 .. n : Nth(S, i) = Choice(Ranked(S, i))
  BY DEF Nth, Choice, Ranked
<1>3. InOrder(S) = [i \in 1 .. n |-> Choice(Ranked(S, i))]
  BY <1>2 DEF InOrder
<1> HIDE DEF n
<1>4. InOrder(S) \in [1 .. n -> X]
  BY <1>3
<1>5. InOrder(S) \in Seq(X) /\ Len(InOrder(S)) = n
  <2> HIDE DEF X
  <2> QED  BY <1>1, <1>4
<1>6. \A i \in 1 .. n : InOrder(S)[i] = Choice(Ranked(S, i))
  BY <1>3
<1> QED  BY <1>1, <1>5, <1>6 DEF n

\* A number larger than all others comes last.
LEMMA InOrderAppend ==
    ASSUME NEW S \in SUBSET Int, IsFiniteSet(S), NEW x \in Int, \A m \in S : m < x
    PROVE  InOrder(S \cup {x}) = Append(InOrder(S), x)
<1> DEFINE T == S \cup {x}
           n == Cardinality(S)
<1>1. x \notin S
  OBVIOUS
<1>2. IsFiniteSet(T) /\ Cardinality(T) = n + 1 /\ n \in Nat
  BY <1>1, FS_AddElement, FS_CardinalityType
<1>3. ASSUME NEW k \in S
      PROVE  /\ {m \in T : m < k} = {m \in S : m < k}
             /\ Cardinality({m \in T : m < k}) # n
             /\ Cardinality({m \in S : m < k}) \in Nat
  <2> DEFINE B == {m \in S : m < k}
  <2>1. {m \in T : m < k} = B
    OBVIOUS
  <2>2. B \in SUBSET S /\ B # S
    OBVIOUS
  <2> HIDE DEF B
  <2>3. /\ IsFiniteSet(B) /\ Cardinality(B) <= n /\ n # Cardinality(B)
    BY <2>2, FS_Subset
  <2>4. Cardinality(B) \in Nat
    BY <2>3, FS_CardinalityType
  <2>5. Cardinality(B) # n
    BY <2>3
  <2> QED  BY <2>1, <2>4, <2>5 DEF B
<1>4. {m \in T : m < x} = S
  <2>1. ~ (x < x) /\ \A m \in T : m \in S \/ m = x
    OBVIOUS
  <2>2. \A m \in S : m \in T /\ m < x
    OBVIOUS
  <2> HIDE DEF T
  <2> QED  BY <2>1, <2>2, Zenon
<1> HIDE DEF T
<1>5. \A k \in T : k \in S \/ k = x
  BY DEF T
<1>6. S \subseteq T /\ x \in T
  BY DEF T
<1>7. \A i \in 1 .. n : Ranked(T, i) = Ranked(S, i)
  <2> SUFFICES ASSUME NEW i \in 1 .. n PROVE Ranked(T, i) = Ranked(S, i)
    OBVIOUS
  <2>1. x \notin Ranked(T, i)
    BY <1>2, <1>4 DEF Ranked
  <2>2. \A k \in S : k \in Ranked(T, i) <=> k \in Ranked(S, i)
    BY <1>3, <1>6 DEF Ranked
  <2>3. Ranked(T, i) \subseteq T /\ Ranked(S, i) \subseteq S
    BY DEF Ranked
  <2> QED  BY <1>5, <2>1, <2>2, <2>3
<1>8. Choice(Ranked(T, n + 1)) = x
  <2>0. (n + 1) - 1 = n
    <3> HIDE DEF n
    <3> QED  BY <1>2
  <2>1. x \in Ranked(T, n + 1)
    BY <1>2, <1>4, <1>6, <2>0 DEF Ranked
  <2>2. \A k \in S : k \notin Ranked(T, n + 1)
    BY <1>3, <2>0 DEF Ranked
  <2>3. Ranked(T, n + 1) \subseteq T
    BY DEF Ranked
  <2>4. Ranked(T, n + 1) = {x}
    BY <1>5, <2>1, <2>2, <2>3
  <2> QED  BY <2>4 DEF Choice
<1> DEFINE X == {Choice(Ranked(S, i)) : i \in 1 .. n}
           Y == {Choice(Ranked(T, i)) : i \in 1 .. n + 1}
<1>9. /\ InOrder(S) \in Seq(X) /\ Len(InOrder(S)) = n
      /\ \A i \in 1 .. n : InOrder(S)[i] = Choice(Ranked(S, i))
  BY InOrderIsSeq
<1>10. /\ InOrder(T) \in Seq(Y) /\ Len(InOrder(T)) = n + 1
       /\ \A i \in 1 .. n + 1 : InOrder(T)[i] = Choice(Ranked(T, i))
  BY <1>2, InOrderIsSeq
<1>11. /\ \A i \in 1 .. n : InOrder(T)[i] = InOrder(S)[i]
       /\ InOrder(T)[n + 1] = x
  BY <1>2, <1>7, <1>8, <1>9, <1>10
<1> HIDE DEF X, Y, n
<1> DEFINE s == InOrder(S)
           t == InOrder(T)
           a == Append(s, x)
<1>12. /\ s \in Seq(X) /\ Len(s) = n /\ t \in Seq(Y) /\ Len(t) = n + 1
       /\ \A i \in 1 .. n : t[i] = s[i]
       /\ t[n + 1] = x
  BY <1>9, <1>10, <1>11
<1> HIDE DEF s, t
<1>13. a = t
  <2>1. s \in Seq(X \cup {x}) /\ a \in Seq(X \cup {x}) /\ Len(a) = n + 1
    BY <1>12
  <2>2. \A i \in 1 .. n : a[i] = s[i]
    BY <1>12
  <2>3. a[n + 1] = x
    BY <1>12
  <2>4. \A i \in 1 .. n + 1 : a[i] = t[i]
    BY <1>2, <1>12, <2>2, <2>3
  <2> HIDE DEF a
  <2> QED  BY <1>12, <2>1, <2>4, SeqEqual
<1> QED  BY <1>13 DEF s, t, T

\* The smallest number comes first.
LEMMA InOrderTail ==
    ASSUME NEW S \in SUBSET Int, IsFiniteSet(S), NEW x \in S, \A m \in S : m = x \/ x < m
    PROVE  /\ InOrder(S) # <<>>
           /\ InOrder(S \ {x}) = Tail(InOrder(S))
<1> DEFINE T == S \ {x}
           n == Cardinality(T)
<1>1. IsFiniteSet(T) /\ Cardinality(S) = n + 1 /\ n \in Nat
  <2>1. IsFiniteSet(T) /\ n = Cardinality(S) - 1
    BY FS_RemoveElement
  <2>2. n \in Nat /\ Cardinality(S) \in Nat
    BY <2>1, FS_CardinalityType
  <2> HIDE DEF n
  <2> QED  BY <2>1, <2>2
<1>2. \A k \in S : k \in T \/ k = x
  OBVIOUS
<1>3. ASSUME NEW k \in T
      PROVE  /\ k \in S
             /\ Cardinality({m \in S : m < k}) = Cardinality({m \in T : m < k}) + 1
             /\ Cardinality({m \in T : m < k}) \in Nat
  <2> DEFINE B == {m \in T : m < k}
  <2>1. {m \in S : m < k} = B \cup {x} /\ x \notin B /\ k \in S
    OBVIOUS
  <2>2. B \in SUBSET T
    OBVIOUS
  <2> HIDE DEF B
  <2>3. IsFiniteSet(B)
    BY <1>1, <2>2, FS_Subset
  <2>4. Cardinality(B \cup {x}) = Cardinality(B) + 1 /\ Cardinality(B) \in Nat
    BY <2>1, <2>3, FS_AddElement, FS_CardinalityType
  <2> QED  BY <2>1, <2>4 DEF B
<1>4. {m \in S : m < x} = {}
  <2>1. \A m \in S : ~ (m < x)
    OBVIOUS
  <2> QED  BY <2>1, Zenon
<1> HIDE DEF T
<1>5. \A i \in 1 .. n : Ranked(S, i + 1) = Ranked(T, i)
  <2> SUFFICES ASSUME NEW i \in 1 .. n PROVE Ranked(S, i + 1) = Ranked(T, i)
    OBVIOUS
  <2>1. x \notin Ranked(S, i + 1)
    BY <1>1, <1>4, FS_EmptySet DEF Ranked
  <2>2. \A k \in T : k \in Ranked(S, i + 1) <=> k \in Ranked(T, i)
    BY <1>3 DEF Ranked
  <2>3. Ranked(S, i + 1) \subseteq S /\ Ranked(T, i) \subseteq T
    BY DEF Ranked
  <2> QED  BY <1>2, <2>1, <2>2, <2>3
<1> DEFINE X == {Choice(Ranked(S, i)) : i \in 1 .. n + 1}
           Y == {Choice(Ranked(T, i)) : i \in 1 .. n}
<1>6. /\ InOrder(S) \in Seq(X) /\ Len(InOrder(S)) = n + 1
      /\ \A i \in 1 .. n + 1 : InOrder(S)[i] = Choice(Ranked(S, i))
  BY <1>1, InOrderIsSeq
<1>7. /\ InOrder(T) \in Seq(Y) /\ Len(InOrder(T)) = n
      /\ \A i \in 1 .. n : InOrder(T)[i] = Choice(Ranked(T, i))
  BY <1>1, InOrderIsSeq
<1>8. \A i \in 1 .. n : InOrder(S)[i + 1] = InOrder(T)[i]
  <2> SUFFICES ASSUME NEW i \in 1 .. n PROVE InOrder(S)[i + 1] = InOrder(T)[i]
    OBVIOUS
  <2>1. i + 1 \in 1 .. n + 1
    BY <1>1
  <2> QED  BY <1>5, <1>6, <1>7, <2>1
<1> HIDE DEF X, Y, n
<1> DEFINE s == InOrder(S)
           t == InOrder(T)
           r == Tail(s)
<1>9. /\ s \in Seq(X) /\ Len(s) = n + 1 /\ t \in Seq(Y) /\ Len(t) = n
      /\ \A i \in 1 .. n : s[i + 1] = t[i]
  BY <1>6, <1>7, <1>8
<1> HIDE DEF s, t
<1>10. s # <<>>
  BY <1>1, <1>9
<1>11. r = t
  <2>1. /\ r \in Seq(X) /\ Len(r) = n
        /\ \A i \in 1 .. n : r[i] = s[i + 1]
    BY <1>1, <1>9, <1>10, TailIndex
  <2>2. \A i \in 1 .. n : r[i] = t[i]
    BY <1>9, <2>1
  <2> HIDE DEF r
  <2> QED  BY <1>9, <2>1, <2>2, SeqEqual
<1> QED  BY <1>10, <1>11 DEF s, t, T

-----------------------------------------------------------------------------
(***************************************************************************)
(* Queues of requests and of commands, by the order of the requests.       *)
(***************************************************************************)
Ordered(q) == \A i, j \in DOMAIN q : i < j => q[i] < q[j]

\* The requests whose data command is in a queue of commands.
DataIds(q) == {q[i].id : i \in {j \in DOMAIN q : Data(q[j])}}
DataOrdered(q) == \A i, j \in DOMAIN q : i < j /\ Data(q[i]) /\ Data(q[j]) => q[i].id < q[j].id

LEMMA OrderedTail ==
    ASSUME NEW S, NEW q \in Seq(S), q # <<>>, Ordered(q)
    PROVE  Ordered(Tail(q)) /\ \A n \in Range(Tail(q)) : Head(q) < n
<1>1. /\ Tail(q) \in Seq(S) /\ Head(q) = q[1]
      /\ Len(q) \in Nat \ {0} /\ Len(Tail(q)) = Len(q) - 1
      /\ \A i \in 1 .. Len(Tail(q)) : Tail(q)[i] = q[i + 1]
  BY TailIndex
<1>2. DOMAIN q = 1 .. Len(q) /\ DOMAIN Tail(q) = 1 .. Len(q) - 1
  BY <1>1
<1>3. \A i \in 1 .. Len(q) - 1 : i + 1 \in 1 .. Len(q) /\ 1 < i + 1 /\ Tail(q)[i] = q[i + 1]
  BY <1>1
<1>4. ASSUME NEW i \in 1 .. Len(q) - 1, NEW j \in 1 .. Len(q) - 1, i < j
      PROVE  Tail(q)[i] < Tail(q)[j]
  <2>1. i + 1 < j + 1
    BY <1>1, <1>4
  <2> QED  BY <1>2, <1>3, <2>1 DEF Ordered
<1>5. ASSUME NEW i \in 1 .. Len(q) - 1 PROVE Head(q) < Tail(q)[i]
  <2>1. 1 \in 1 .. Len(q)
    BY <1>1
  <2> QED  BY <1>1, <1>2, <1>3, <2>1 DEF Ordered
<1> QED  BY <1>2, <1>4, <1>5 DEF Ordered, Range

LEMMA OrderedAppend ==
    ASSUME NEW S, NEW q \in Seq(S), NEW x \in S, Ordered(q), \A n \in Range(q) : n < x
    PROVE  Ordered(Append(q, x))
<1> DEFINE r == Append(q, x)
<1>1. /\ r \in Seq(S) /\ Len(r) = Len(q) + 1 /\ Len(q) \in Nat
      /\ \A i \in 1 .. Len(q) : r[i] = q[i]
      /\ r[Len(q) + 1] = x
  OBVIOUS
<1> HIDE DEF r
<1>2. DOMAIN q = 1 .. Len(q) /\ DOMAIN r = 1 .. Len(q) + 1
  BY <1>1
<1>3. \A i \in 1 .. Len(q) : q[i] < x
  BY <1>2 DEF Range
<1>4. ASSUME NEW i \in 1 .. Len(q) + 1, NEW j \in 1 .. Len(q) + 1, i < j
      PROVE  r[i] < r[j]
  <2>1. CASE j = Len(q) + 1
    <3>1. i \in 1 .. Len(q)
      BY <1>1, <1>4, <2>1
    <3> QED  BY <1>1, <1>3, <2>1, <3>1
  <2>2. CASE j # Len(q) + 1
    <3>1. i \in 1 .. Len(q) /\ j \in 1 .. Len(q)
      BY <1>1, <1>4, <2>2
    <3> QED  BY <1>1, <1>2, <1>4, <3>1 DEF Ordered
  <2> QED  BY <2>1, <2>2
<1> QED  BY <1>2, <1>4 DEF Ordered, r

LEMMA DataTail ==
    ASSUME NEW C, NEW q \in Seq(C), q # <<>>, DataOrdered(q)
    PROVE  /\ DataOrdered(Tail(q))
           /\ Data(Head(q)) => /\ DataIds(q) = DataIds(Tail(q)) \cup {Head(q).id}
                               /\ \A n \in DataIds(Tail(q)) : Head(q).id < n
           /\ ~ Data(Head(q)) => DataIds(q) = DataIds(Tail(q))
<1> DEFINE r == Tail(q)
<1>1. /\ r \in Seq(C) /\ Head(q) = q[1]
      /\ Len(q) \in Nat \ {0} /\ Len(r) = Len(q) - 1
      /\ \A i \in 1 .. Len(r) : r[i] = q[i + 1]
  BY TailIndex
<1> HIDE DEF r
<1>2. DOMAIN q = 1 .. Len(q) /\ DOMAIN r = 1 .. Len(q) - 1
  BY <1>1
<1>3. \A i \in 1 .. Len(q) - 1 : i + 1 \in 1 .. Len(q) /\ 1 < i + 1 /\ r[i] = q[i + 1]
  BY <1>1
<1>4. \A i \in 1 .. Len(q) : i = 1 \/ (i - 1 \in 1 .. Len(q) - 1 /\ q[i] = r[i - 1])
  <2> SUFFICES ASSUME NEW i \in 1 .. Len(q), i # 1
               PROVE  i - 1 \in 1 .. Len(q) - 1 /\ q[i] = r[i - 1]
    OBVIOUS
  <2>1. i - 1 \in 1 .. Len(q) - 1 /\ (i - 1) + 1 = i
    BY <1>1
  <2> QED  BY <1>3, <2>1
<1>5. ASSUME NEW i \in 1 .. Len(q) - 1, NEW j \in 1 .. Len(q) - 1, i < j,
             Data(r[i]), Data(r[j])
      PROVE  r[i].id < r[j].id
  <2>1. i + 1 < j + 1
    BY <1>1, <1>5
  <2> QED  BY <1>2, <1>3, <1>5, <2>1 DEF DataOrdered
<1>6. 1 \in 1 .. Len(q)
  BY <1>1
<1>7. ASSUME NEW i \in 1 .. Len(q) - 1, Data(r[i]), Data(Head(q))
      PROVE  Head(q).id < r[i].id
  BY <1>1, <1>2, <1>3, <1>6, <1>7 DEF DataOrdered
<1>8. DataIds(r) \subseteq DataIds(q)
  BY <1>2, <1>3 DEF DataIds
<1>9. Data(Head(q)) => Head(q).id \in DataIds(q)
  BY <1>1, <1>2, <1>6 DEF DataIds
<1>10. \A n \in DataIds(q) : n \in DataIds(r) \/ (Data(Head(q)) /\ n = Head(q).id)
  <2> SUFFICES ASSUME NEW n \in DataIds(q)
               PROVE  n \in DataIds(r) \/ (Data(Head(q)) /\ n = Head(q).id)
    OBVIOUS
  <2>1. PICK i \in 1 .. Len(q) : Data(q[i]) /\ n = q[i].id
    BY <1>2 DEF DataIds
  <2>2. CASE i = 1
    BY <1>1, <2>1, <2>2
  <2>3. CASE i # 1
    <3>1. i - 1 \in DOMAIN r /\ q[i] = r[i - 1]
      BY <1>2, <1>4, <2>3
    <3> QED  BY <2>1, <3>1 DEF DataIds
  <2> QED  BY <2>2, <2>3
<1>11. DataOrdered(r)
  BY <1>2, <1>5 DEF DataOrdered
<1>12. Data(Head(q)) => \A n \in DataIds(r) : Head(q).id < n
  BY <1>2, <1>7 DEF DataIds
<1> QED  BY <1>8, <1>9, <1>10, <1>11, <1>12 DEF r

LEMMA DataConcat ==
    ASSUME NEW C, NEW q \in Seq(C), NEW r \in Seq(C), NEW k \in DOMAIN r, Data(r[k]),
           \A i \in DOMAIN r : Data(r[i]) => i = k
    PROVE  /\ DataIds(q \o r) = DataIds(q) \cup {r[k].id}
           /\ DataOrdered(q) /\ (\A n \in DataIds(q) : n < r[k].id) => DataOrdered(q \o r)
<1> DEFINE c == q \o r
           n == Len(q)
           m == Len(r)
<1>1. /\ c \in Seq(C) /\ Len(c) = n + m /\ n \in Nat /\ m \in Nat
      /\ \A i \in 1 .. n : c[i] = q[i]
      /\ \A i \in 1 .. m : c[n + i] = r[i]
  BY ConcatIndex
<1> HIDE DEF c
<1>2. DOMAIN q = 1 .. n /\ DOMAIN r = 1 .. m /\ DOMAIN c = 1 .. n + m
  BY <1>1
<1> HIDE DEF n, m
<1>3. /\ \A i \in 1 .. n : i \in 1 .. n + m
      /\ n + k \in 1 .. n + m
  BY <1>1, <1>2
<1>4. ASSUME NEW i \in 1 .. n + m, Data(c[i])
      PROVE  (i \in 1 .. n /\ c[i] = q[i]) \/ (i = n + k /\ c[i] = r[k])
  <2>1. CASE i \in 1 .. n
    BY <1>1, <2>1
  <2>2. CASE i \notin 1 .. n
    <3> DEFINE j == i - n
    <3>1. j \in 1 .. m /\ i = n + j
      BY <1>1, <2>2
    <3> HIDE DEF j
    <3>2. c[i] = r[j] /\ j = k
      BY <1>1, <1>2, <1>4, <3>1
    <3> QED  BY <3>1, <3>2
  <2> QED  BY <2>1, <2>2
<1>5. c[n + k] = r[k]
  BY <1>1, <1>2
<1>6. DataIds(c) = DataIds(q) \cup {r[k].id}
  <2>1. DataIds(c) \subseteq DataIds(q) \cup {r[k].id}
    BY <1>2, <1>4 DEF DataIds
  <2>2. DataIds(q) \subseteq DataIds(c)
    BY <1>1, <1>2, <1>3 DEF DataIds
  <2>3. r[k].id \in DataIds(c)
    BY <1>2, <1>3, <1>5 DEF DataIds
  <2> QED  BY <2>1, <2>2, <2>3
<1>7. ASSUME DataOrdered(q), \A x \in DataIds(q) : x < r[k].id,
             NEW i \in 1 .. n + m, NEW j \in 1 .. n + m, i < j, Data(c[i]), Data(c[j])
      PROVE  c[i].id < c[j].id
  <2>1. CASE i \in 1 .. n /\ j \in 1 .. n
    BY <1>1, <1>2, <1>7, <2>1 DEF DataOrdered
  <2>2. CASE i \in 1 .. n /\ j = n + k
    <3>1. c[i] = q[i] /\ c[j] = r[k] /\ q[i].id \in DataIds(q)
      BY <1>1, <1>2, <1>5, <1>7, <2>2 DEF DataIds
    <3> QED  BY <1>7, <3>1
  <2>3. CASE i = n + k
    <3>1. j \notin 1 .. n /\ j # n + k
      BY <1>1, <1>2, <1>7, <2>3
    <3> QED  BY <1>4, <1>7, <3>1
  <2> QED  BY <1>4, <1>7, <2>1, <2>2, <2>3
<1>8. DataOrdered(q) /\ (\A x \in DataIds(q) : x < r[k].id) => DataOrdered(c)
  BY <1>2, <1>7 DEF DataOrdered
<1> QED  BY <1>6, <1>8 DEF c

-----------------------------------------------------------------------------
(***************************************************************************)
(* The invariant.  A request that is not finished waits in the controller, *)
(* in the queue of its bank, or for its data; the requests of a bank that  *)
(* are further on are older, and of two that wait for their data, the      *)
(* older one gets it earlier.                                              *)
(***************************************************************************)
IncomingInv ==
    \A c \in Controllers :
        Ordered(incoming[c]) /\ \A n \in Range(incoming[c]) : Home(n)[1] = c

QueueInv ==
    \A b \in Banks :
        /\ DataOrdered(queue[b])
        /\ \A n \in DataIds(queue[b]) : \A m \in Range(incoming[b[1]]) : n < m

RunningFirst ==
    \A x \in running : Data(x) =>
        /\ \A n \in DataIds(queue[Home(x.id)]) : x.id < n
        /\ \A m \in Range(incoming[Home(x.id)[1]]) : x.id < m

RunningOrdered ==
    \A x, y \in running : x # y /\ Data(x) /\ Data(y) /\ Home(x.id) = Home(y.id) =>
        \/ x.id < y.id /\ x.left < y.left
        \/ y.id < x.id /\ y.left < x.left

Returning == {x.id : x \in {y \in running : Data(y)}}

Pending(id) ==
    \/ id \in Range(incoming[Home(id)[1]])
    \/ id \in DataIds(queue[Home(id)])
    \/ id \in Returning

PendingInv == \A id \in Ids : id \in finished <=> ~ Pending(id)

OrderInv == IncomingInv /\ QueueInv /\ RunningFirst /\ RunningOrdered /\ PendingInv

\* The requests that are about.
LEMMA IdSets ==
    ASSUME TypeOK
    PROVE  /\ Ids = 1 .. Len(requests) /\ Len(requests) \in Nat /\ Ids \subseteq Nat
           /\ \A c \in Controllers : incoming[c] \in Seq(Ids) /\ Range(incoming[c]) \subseteq Ids
           /\ \A b \in Banks : DataIds(queue[b]) \subseteq Ids
           /\ \A x \in running : x.id \in Ids /\ x.left \in Nat
           /\ \A id \in Ids : Home(id) \in Banks /\ Home(id)[1] \in Controllers
           /\ finished \subseteq Ids /\ Returning \subseteq Ids
<1>1. Ids = 1 .. Len(requests) /\ Len(requests) \in Nat /\ Ids \subseteq Nat
  BY DEF Ids, TypeOK
<1>2. \A c \in Controllers : incoming[c] \in Seq(Ids) /\ Range(incoming[c]) \subseteq Ids
  <2>1. \A c \in Controllers : incoming[c] \in Seq(Ids)
    BY DEF TypeOK
  <2> QED  BY <2>1 DEF Range
<1>3. \A b \in Banks : DataIds(queue[b]) \subseteq Ids
  BY QueueType DEF DataIds
<1>4. \A x \in running : x.id \in Ids /\ x.left \in Nat
  BY RunningType
<1>5. \A id \in Ids : Home(id) \in Banks /\ Home(id)[1] \in Controllers
  BY RequestType, BankParts DEF Home
<1>6. finished \subseteq Ids /\ Returning \subseteq Ids
  BY <1>4 DEF TypeOK, Returning
<1> QED  BY <1>1, <1>2, <1>3, <1>4, <1>5, <1>6

\* A request that is added is the youngest of all.
LEMMA OrderAdd ==
    ASSUME TypeOK, OrderInv, NEW type, NEW a \in Nat, AddRequest(type, a)
    PROVE  OrderInv'
<1>1. PICK b, id : b = Bank(a) /\ id = Len(requests) + 1
  OBVIOUS
<1>2. /\ cf' = cf /\ queue' = queue /\ running' = running /\ finished' = finished
      /\ incoming' = [incoming EXCEPT ![b[1]] = Append(@, id)]
  BY <1>1 DEF AddRequest
<1>3. /\ \A n \in Ids : requests'[n] = requests[n]
      /\ Ids' = Ids \cup {id} /\ id \notin Ids
      /\ requests'[id].bank = b
      /\ Ids = 1 .. Len(requests) /\ Len(requests) \in Nat
  <2>1. /\ \A n \in Ids : requests'[n] = requests[n]
        /\ Ids' = Ids \cup {id} /\ id \notin Ids
        /\ requests'[id] = [type |-> type, bank |-> b, row |-> Row(a)]
        /\ Ids = 1 .. Len(requests) /\ Len(requests) \in Nat
    BY <1>1, AddKeeps
  <2> QED  BY <2>1
<1>4. /\ \A n \in Ids : n < id
      /\ \A n \in Ids : Home(n)' = Home(n)
      /\ Home(id)' = b
  BY <1>1, <1>3 DEF Home
<1>5. b \in Banks /\ b[1] \in Controllers /\ Banks' = Banks /\ Controllers' = Controllers
  BY <1>1, <1>2, Decoded, BankParts, SameGeometry DEF TypeOK
<1>6. /\ \A c \in Controllers : incoming[c] \in Seq(Ids') /\ Range(incoming[c]) \subseteq Ids
      /\ \A d \in Banks : DataIds(queue[d]) \subseteq Ids
      /\ \A x \in running : x.id \in Ids /\ x.left \in Nat
      /\ \A n \in Ids : Home(n) \in Banks /\ Home(n)[1] \in Controllers
      /\ finished \subseteq Ids /\ Returning \subseteq Ids /\ id \in Ids'
  BY <1>3, IdSets, SeqWider
<1>7. /\ \A c \in Controllers : c # b[1] => incoming'[c] = incoming[c]
      /\ incoming'[b[1]] = Append(incoming[b[1]], id)
  BY <1>2, <1>5 DEF TypeOK
<1>8. /\ Range(incoming'[b[1]]) = Range(incoming[b[1]]) \cup {id}
      /\ Ordered(incoming'[b[1]])
  <2>1. incoming[b[1]] \in Seq(Ids') /\ id \in Ids' /\ Ordered(incoming[b[1]])
        /\ \A n \in Range(incoming[b[1]]) : n < id
    BY <1>4, <1>5, <1>6 DEF OrderInv, IncomingInv
  <2> QED  BY <1>7, <2>1, AppendRange, OrderedAppend
<1>9. \A c \in Controllers : /\ Range(incoming[c]) \subseteq Range(incoming'[c])
                             /\ Range(incoming'[c]) \subseteq Range(incoming[c]) \cup {id}
  BY <1>7, <1>8
<1>10. IncomingInv'
  <2>1. ASSUME NEW c \in Controllers
        PROVE  Ordered(incoming'[c]) /\ \A n \in Range(incoming'[c]) : Home(n)'[1] = c
    <3>1. CASE c = b[1]
      BY <1>4, <1>5, <1>6, <1>8, <3>1 DEF OrderInv, IncomingInv
    <3>2. CASE c # b[1]
      BY <1>4, <1>6, <1>7, <3>2 DEF OrderInv, IncomingInv
    <3> QED  BY <3>1, <3>2
  <2> QED  BY <1>5, <2>1 DEF IncomingInv
<1>11. QueueInv'
  <2>1. ASSUME NEW d \in Banks, NEW n \in DataIds(queue[d]), NEW m \in Range(incoming'[d[1]])
        PROVE  n < m
    <3>1. d[1] \in Controllers /\ n \in Ids
      BY <1>6, BankParts
    <3> QED  BY <1>4, <1>9, <3>1 DEF OrderInv, QueueInv
  <2> QED  BY <1>2, <1>5, <2>1 DEF OrderInv, QueueInv
<1>12. RunningFirst'
  <2>1. ASSUME NEW x \in running, Data(x)
        PROVE  /\ \A n \in DataIds(queue[Home(x.id)]) : x.id < n
               /\ \A m \in Range(incoming'[Home(x.id)[1]]) : x.id < m
    BY <1>4, <1>6, <1>9, <2>1 DEF OrderInv, RunningFirst
  <2> QED  BY <1>2, <1>4, <1>6, <2>1 DEF RunningFirst
<1>13. RunningOrdered'
  BY <1>2, <1>4, <1>6 DEF OrderInv, RunningOrdered
<1>14. PendingInv'
  <2>1. Returning' = Returning
    BY <1>2 DEF Returning
  <2>2. ASSUME NEW n \in Ids PROVE Pending(n)' = Pending(n)
    <3>1. n # id /\ Home(n)' = Home(n) /\ Home(n)[1] \in Controllers
      BY <1>3, <1>4, <1>6
    <3>2. n \in Range(incoming'[Home(n)[1]]) <=> n \in Range(incoming[Home(n)[1]])
      BY <1>9, <3>1
    <3> QED  BY <1>2, <2>1, <3>1, <3>2 DEF Pending
  <2>3. Pending(id)' /\ id \notin finished
    BY <1>3, <1>4, <1>6, <1>8 DEF Pending
  <2> QED  BY <1>2, <1>3, <2>2, <2>3 DEF OrderInv, PendingInv
<1> QED  BY <1>10, <1>11, <1>12, <1>13, <1>14 DEF OrderInv

\* A step that moves no request.
LEMMA OrderSame ==
    ASSUME OrderInv, cf' = cf, incoming' = incoming, queue' = queue, running' = running,
           requests' = requests, finished' = finished
    PROVE  OrderInv'
<1>1. /\ Controllers' = Controllers /\ Banks' = Banks /\ Ids' = Ids
      /\ Returning' = Returning
      /\ \A n : Home(n)' = Home(n)
  BY SameGeometry DEF Ids, Home, Returning
<1>2. \A n : Pending(n)' = Pending(n)
  BY <1>1 DEF Pending
<1>3. IncomingInv'
  BY <1>1 DEF OrderInv, IncomingInv
<1>4. QueueInv'
  BY <1>1 DEF OrderInv, QueueInv
<1>5. RunningFirst'
  BY <1>1 DEF OrderInv, RunningFirst
<1>6. RunningOrdered'
  BY <1>1 DEF OrderInv, RunningOrdered
<1>7. PendingInv'
  BY <1>1, <1>2 DEF OrderInv, PendingInv
<1> QED  BY <1>3, <1>4, <1>5, <1>6, <1>7 DEF OrderInv

\* A request moves from the controller to the queue of its bank.
LEMMA OrderProcessor ==
    ASSUME TypeOK, OrderInv, NEW c \in Controllers, RunRequestProcessor(c)
    PROVE  OrderInv'
<1>a. PICK id : id = Head(incoming[c])
  BY Zenon
<1>b. PICK b : b = requests[id].bank
  BY Zenon
<1>c. PICK r : r = Commands(id)
  BY Zenon
<1>1. id = Head(incoming[c]) /\ b = requests[id].bank /\ r = Commands(id)
  BY <1>a, <1>b, <1>c, ZenonT(30)
<1>2. /\ id \in Ids /\ b \in Banks
      /\ queue'[b] = queue[b] \o r
      /\ \A d \in Banks : d # b => queue'[d] = queue[d]
      /\ incoming' = [incoming EXCEPT ![c] = Tail(@)]
      /\ incoming[c] # <<>> /\ incoming[c] \in Seq(Ids)
  BY <1>1, ProcessorStep, Zenon
<1>3. cf' = cf /\ running' = running /\ requests' = requests /\ finished' = finished
  BY DEF RunRequestProcessor
<1>4. /\ Controllers' = Controllers /\ Banks' = Banks /\ Ids' = Ids
      /\ Returning' = Returning
      /\ \A n : Home(n)' = Home(n)
  BY <1>3, SameGeometry DEF Ids, Home, Returning
<1>5. /\ incoming'[c] = Tail(incoming[c])
      /\ \A e \in Controllers : e # c => incoming'[e] = incoming[e]
  BY <1>2 DEF TypeOK
<1>6. /\ Range(incoming[c]) = Range(incoming'[c]) \cup {id}
      /\ Ordered(incoming'[c])
      /\ \A n \in Range(incoming'[c]) : id < n
  <2>1. Ordered(incoming[c])
    BY DEF OrderInv, IncomingInv
  <2>2. Range(incoming[c]) = Range(Tail(incoming[c])) \cup {Head(incoming[c])}
    BY <1>2, TailRange
  <2>3. /\ Ordered(Tail(incoming[c]))
        /\ \A n \in Range(Tail(incoming[c])) : Head(incoming[c]) < n
    BY <1>2, <2>1, OrderedTail
  <2> QED  BY <1>1, <1>5, <2>2, <2>3
<1>7. b = Home(id) /\ b[1] = c
  <2>1. b = Home(id)
    BY <1>1 DEF Home
  <2> QED  BY <1>6, <2>1 DEF OrderInv, IncomingInv
<1>8. /\ \A e \in Controllers : incoming[e] \in Seq(Ids) /\ Range(incoming[e]) \subseteq Ids
      /\ \A d \in Banks : DataIds(queue[d]) \subseteq Ids /\ d[1] \in Controllers
      /\ \A x \in running : x.id \in Ids
      /\ \A n \in Ids : Home(n) \in Banks /\ Home(n)[1] \in Controllers
      /\ Ids \subseteq Nat
  BY IdSets, BankParts
<1>9. \A e \in Controllers : Range(incoming'[e]) \subseteq Range(incoming[e])
  BY <1>5, <1>6
\* The data of the request comes behind that of the others.
<1>10. /\ DataIds(queue'[b]) = DataIds(queue[b]) \cup {id}
       /\ DataOrdered(queue'[b])
  <2> DEFINE C == [type : Types, id : Ids]
             k == Before(id) + 1
  <2>1. /\ queue[b] \in Seq(C) /\ r \in Seq(C)
        /\ Len(r) = Before(id) + 1 + After
        /\ \A i \in 1 .. Len(r) : r[i].id = id
        /\ Before(id) = 1 => r[1].type = "activate"
        /\ Before(id) = 2 => r[1].type = "precharge" /\ r[2].type = "activate"
        /\ r[k].type = requests[id].type
        /\ After = 1 => r[Before(id) + 2].type = "precharge"
    BY <1>1, <1>2, QueueType, CommandsShape, Zenon
  <2>2. Before(id) \in 0 .. 2 /\ After \in 0 .. 1
    BY DEF Before, After
  <2> HIDE DEF C
  <2>3. DOMAIN r = 1 .. Before(id) + 1 + After
    BY <2>1
  <2>4. k \in DOMAIN r /\ r[k].id = id /\ Data(r[k])
    <3>1. k \in DOMAIN r /\ k \in 1 .. Len(r)
      BY <2>1, <2>2, <2>3
    <3>2. requests[id].type \in {"read", "write"}
      BY <1>2, RequestType
    <3> QED  BY <2>1, <3>1, <3>2 DEF Data
  <2>5. \A i \in DOMAIN r : Data(r[i]) => i = k
    <3> SUFFICES ASSUME NEW i \in DOMAIN r, i # k PROVE ~ Data(r[i])
      OBVIOUS
    <3>1. \/ Before(id) = 1 /\ i = 1
          \/ Before(id) = 2 /\ i = 1
          \/ Before(id) = 2 /\ i = 2
          \/ After = 1 /\ i = Before(id) + 2
      BY <2>2, <2>3
    <3>2. r[i].type \in {"activate", "precharge"}
      BY <2>1, <3>1
    <3> QED  BY <3>2 DEF Data
  <2>6. DataOrdered(queue[b]) /\ \A n \in DataIds(queue[b]) : n < id
    BY <1>2, <1>6, <1>7 DEF OrderInv, QueueInv
  <2> HIDE DEF k
  <2>7. /\ DataIds(queue[b] \o r) = DataIds(queue[b]) \cup {r[k].id}
        /\ DataOrdered(queue[b]) /\ (\A n \in DataIds(queue[b]) : n < r[k].id)
              => DataOrdered(queue[b] \o r)
    BY <2>1, <2>4, <2>5, DataConcat
  <2>8. DataOrdered(queue[b] \o r) /\ DataIds(queue[b] \o r) = DataIds(queue[b]) \cup {id}
    BY <2>4, <2>6, <2>7, Zenon
  <2>9. queue'[b] = queue[b] \o r
    BY <1>2
  <2> QED  BY <2>8, <2>9, ZenonT(30)
<1>11. IncomingInv'
  <2>1. ASSUME NEW e \in Controllers
        PROVE  Ordered(incoming'[e]) /\ \A n \in Range(incoming'[e]) : Home(n)[1] = e
    BY <1>5, <1>6, <1>9 DEF OrderInv, IncomingInv
  <2> QED  BY <1>4, <2>1 DEF IncomingInv
<1>12. QueueInv'
  <2>1. ASSUME NEW d \in Banks
        PROVE  DataOrdered(queue'[d])
    BY <1>2, <1>10 DEF OrderInv, QueueInv
  <2>2. ASSUME NEW d \in Banks, NEW n \in DataIds(queue'[d]), NEW m \in Range(incoming'[d[1]])
        PROVE  n < m
    <3>1. CASE n \in DataIds(queue[d])
      BY <1>8, <1>9, <3>1 DEF OrderInv, QueueInv
    <3>2. CASE n \notin DataIds(queue[d])
      <4>1. d = b /\ n = id
        BY <1>2, <1>10, <3>2
      <4> QED  BY <1>6, <1>7, <4>1
    <3> QED  BY <3>1, <3>2
  <2> QED  BY <1>4, <2>1, <2>2 DEF QueueInv
<1>13. RunningFirst'
  <2>1. ASSUME NEW x \in running, Data(x), NEW n \in DataIds(queue'[Home(x.id)])
        PROVE  x.id < n
    <3>1. CASE n \in DataIds(queue[Home(x.id)])
      BY <2>1, <3>1 DEF OrderInv, RunningFirst
    <3>2. CASE n \notin DataIds(queue[Home(x.id)])
      <4>1. Home(x.id) = b /\ n = id
        BY <1>2, <1>8, <1>10, <3>2
      <4> QED  BY <1>6, <1>7, <2>1, <4>1 DEF OrderInv, RunningFirst
    <3> QED  BY <3>1, <3>2
  <2>2. ASSUME NEW x \in running, Data(x), NEW m \in Range(incoming'[Home(x.id)[1]])
        PROVE  x.id < m
    BY <1>8, <1>9, <2>2 DEF OrderInv, RunningFirst
  <2> QED  BY <1>3, <1>4, <2>1, <2>2 DEF RunningFirst
<1>14. RunningOrdered'
  BY <1>3, <1>4 DEF OrderInv, RunningOrdered
<1>15. PendingInv'
  <2>1. ASSUME NEW n \in Ids PROVE Pending(n)' = Pending(n)
    <3> DEFINE h == Home(n)
    <3>1. h \in Banks /\ h[1] \in Controllers
      BY <1>8
    <3>2. (n \in Range(incoming'[h[1]]) \/ n \in DataIds(queue'[h]))
            <=> (n \in Range(incoming[h[1]]) \/ n \in DataIds(queue[h]))
      <4>1. CASE n = id
        BY <1>6, <1>7, <1>10, <4>1
      <4>2. CASE n # id
        <5>1. n \in Range(incoming'[h[1]]) <=> n \in Range(incoming[h[1]])
          BY <1>5, <1>6, <3>1, <4>2
        <5>2. n \in DataIds(queue'[h]) <=> n \in DataIds(queue[h])
          BY <1>2, <1>10, <3>1, <4>2
        <5> QED  BY <5>1, <5>2
      <4> QED  BY <4>1, <4>2
    <3>3. h = Home(n)'
      BY <1>4
    <3> QED  BY <1>4, <3>2, <3>3 DEF Pending
  <2> QED  BY <1>3, <1>4, <2>1 DEF OrderInv, PendingInv
<1> QED  BY <1>11, <1>12, <1>13, <1>14, <1>15 DEF OrderInv

\* A data command that need not wait returns after those of its bank that run.
LEMMA LeftFollows ==
    ASSUME TypeOK, RankAges, Remembered, NEW x \in running, Data(x),
           NEW type \in {"read", "write"}, WaitFor(type, Home(x.id)) = 0
    PROVE  x.left < Duration(type)
<1> DEFINE b == Home(x.id)
           T == Timing(x.type, type, "same")
<1>1. /\ cf \in Configs /\ x.type \in Types /\ b \in Banks /\ x.left \in Nat
      /\ type \in Types /\ since[b][x.type] \in Nat /\ Duration(x.type) \in Nat
  BY RunningType DEF TypeOK, Types
<1>2. since[b][x.type] >= T
  <2>1. Where(b, b) = "same"
    BY DEF Where
  <2>2. since[b][x.type] >= Timing(x.type, type, Where(b, b))
    BY <1>1, RulesCover
  <2> QED  BY <2>1, <2>2
<1>3. since[b][x.type] <= Duration(x.type) - x.left
  BY DEF Remembered
<1>4. T \in Int
  BY <1>1, TimingType
<1>5. x.left <= Duration(x.type) - T
  <2> HIDE DEF T, b
  <2> QED  BY <1>1, <1>2, <1>3, <1>4
<1>6. /\ x.type \in {"read", "write"}
      /\ Duration("read") = cf.t.cas + cf.t.burst
      /\ Duration("write") = cf.t.cwd + cf.t.burst + cf.t.wtr
      /\ cf.t.cas \in Nat /\ cf.t.cwd \in Nat /\ cf.t.burst \in Nat /\ cf.t.ccd \in Nat
      /\ cf.t.rtrs \in Nat /\ cf.t.wtr \in Nat /\ cf.t.burst > 0
      /\ cf.t.burst <= Larger(cf.t.burst, cf.t.ccd) /\ Larger(cf.t.burst, cf.t.ccd) \in Nat
  BY <1>1, DurationType, Parameters, BurstAssumption DEF Data, Larger
<1>7. /\ x.type = type => T = Larger(cf.t.burst, cf.t.ccd)
      /\ x.type = "write" /\ type = "read" => T = cf.t.cwd + cf.t.burst + cf.t.wtr
      /\ x.type = "read" /\ type = "write" =>
            T = cf.t.cas + cf.t.burst + cf.t.rtrs - cf.t.cwd
  BY <1>6, DataTiming
<1> HIDE DEF T, b
<1>8. CASE x.type = "read" /\ type = "read"
  BY <1>1, <1>5, <1>6, <1>7, <1>8
<1>9. CASE x.type = "write" /\ type = "write"
  BY <1>1, <1>5, <1>6, <1>7, <1>9
<1>10. CASE x.type = "write" /\ type = "read"
  BY <1>1, <1>5, <1>6, <1>7, <1>10
<1>11. CASE x.type = "read" /\ type = "write"
  BY <1>1, <1>5, <1>6, <1>7, <1>11
<1> QED  BY <1>6, <1>8, <1>9, <1>10, <1>11

\* The scheduler runs the first command of a queue: its request is younger than
\* those of the bank that wait for their data, and older than those in the queue.
LEMMA OrderFront ==
    ASSUME TypeOK, RankAges, BusInv, OrderInv, NEW k \in Channels, RunFrontCommand(k)
    PROVE  OrderInv'
<1>1. PICK b, command : FrontEffect(k, b, command)
  BY FrontStep
<1>2. PICK new : new = [type |-> command.type, id |-> command.id,
                        left |-> Duration(command.type)]
  OBVIOUS
<1>3. /\ b \in Banks /\ queue[b] # <<>> /\ command = queue[b][1]
      /\ command.type \in Types /\ command.id \in Ids
      /\ WaitFor(command.type, b) = 0
      /\ running' = running \cup {new}
      /\ queue'[b] = Tail(queue[b])
      /\ \A e \in Banks : e # b => queue'[e] = queue[e]
      /\ cf' = cf /\ requests' = requests /\ incoming' = incoming /\ finished' = finished
  BY <1>1, <1>2 DEF FrontEffect
<1>4. /\ Controllers' = Controllers /\ Banks' = Banks /\ Ids' = Ids
      /\ \A n : Home(n)' = Home(n)
  BY <1>3, SameGeometry DEF Ids, Home
<1>5. /\ new.type = command.type /\ new.id = command.id /\ new.left = Duration(new.type)
      /\ Data(new) <=> Data(command)
  BY <1>2 DEF Data
<1>6. /\ Head(queue[b]) = command /\ Len(queue[b]) \in Nat \ {0}
      /\ DataOrdered(queue'[b])
      /\ Data(new) => /\ DataIds(queue[b]) = DataIds(queue'[b]) \cup {new.id}
                      /\ \A n \in DataIds(queue'[b]) : new.id < n
      /\ ~ Data(new) => DataIds(queue[b]) = DataIds(queue'[b])
  <2> DEFINE C == [type : Types, id : Ids]
  <2>1. queue[b] \in Seq(C)
    BY <1>3, QueueType
  <2> HIDE DEF C
  <2>2. Head(queue[b]) = command /\ Len(queue[b]) \in Nat \ {0}
    BY <1>3, <2>1, TailIndex
  <2>3. DataOrdered(queue[b])
    BY <1>3 DEF OrderInv, QueueInv
  <2>4. /\ DataOrdered(Tail(queue[b]))
        /\ Data(command) =>
              /\ DataIds(queue[b]) = DataIds(Tail(queue[b])) \cup {command.id}
              /\ \A n \in DataIds(Tail(queue[b])) : command.id < n
        /\ ~ Data(command) => DataIds(queue[b]) = DataIds(Tail(queue[b]))
    BY <1>3, <2>1, <2>2, <2>3, DataTail
  <2> QED  BY <1>3, <1>5, <2>2, <2>4
<1>7. Home(new.id) = b
  <2>1. 1 \in 1 .. Len(queue[b])
    BY <1>6
  <2> QED  BY <1>3, <1>5, <2>1 DEF BusInv, AtHome
<1>8. /\ \A d \in Banks : DataIds(queue[d]) \subseteq Ids /\ d[1] \in Controllers
      /\ \A x \in running : x.id \in Ids
      /\ \A n \in Ids : Home(n) \in Banks
  BY IdSets, BankParts
<1>9. \A d \in Banks : DataIds(queue'[d]) \subseteq DataIds(queue[d])
  BY <1>3, <1>6
\* The command and those that run.
<1>10. ASSUME NEW x \in running, Data(x), Data(new), Home(x.id) = b
       PROVE  x.id < new.id /\ x.left < new.left
  <2>1. new.id \in DataIds(queue[b])
    BY <1>6, <1>10
  <2>2. x.id < new.id
    BY <1>10, <2>1 DEF OrderInv, RunningFirst
  <2>3. /\ command.type \in {"read", "write"} /\ WaitFor(command.type, Home(x.id)) = 0
        /\ Remembered
    BY <1>3, <1>5, <1>10 DEF Data, BusInv
  <2>4. x.left < Duration(command.type)
    BY <1>10, <2>3, LeftFollows
  <2> QED  BY <1>5, <2>2, <2>4
<1>11. IncomingInv'
  BY <1>3, <1>4 DEF OrderInv, IncomingInv
<1>12. QueueInv'
  <2>1. ASSUME NEW d \in Banks
        PROVE  /\ DataOrdered(queue'[d])
               /\ \A n \in DataIds(queue'[d]) : \A m \in Range(incoming[d[1]]) : n < m
    BY <1>3, <1>6, <1>9 DEF OrderInv, QueueInv
  <2> QED  BY <1>3, <1>4, <2>1 DEF QueueInv
<1>13. RunningFirst'
  <2>1. ASSUME NEW x \in running, Data(x)
        PROVE  /\ \A n \in DataIds(queue'[Home(x.id)]) : x.id < n
               /\ \A m \in Range(incoming[Home(x.id)[1]]) : x.id < m
    BY <1>8, <1>9, <2>1 DEF OrderInv, RunningFirst
  <2>2. ASSUME Data(new)
        PROVE  /\ \A n \in DataIds(queue'[Home(new.id)]) : new.id < n
               /\ \A m \in Range(incoming[Home(new.id)[1]]) : new.id < m
    BY <1>3, <1>6, <1>7, <2>2 DEF OrderInv, QueueInv
  <2> QED  BY <1>3, <1>4, <2>1, <2>2 DEF RunningFirst
<1>14. RunningOrdered'
  <2>1. ASSUME NEW x \in running \cup {new}, NEW y \in running \cup {new},
               x # y, Data(x), Data(y), Home(x.id) = Home(y.id)
        PROVE  \/ x.id < y.id /\ x.left < y.left
               \/ y.id < x.id /\ y.left < x.left
    <3>1. CASE x \in running /\ y \in running
      BY <2>1, <3>1 DEF OrderInv, RunningOrdered
    <3>2. CASE x = new
      BY <1>7, <1>10, <2>1, <3>2
    <3>3. CASE y = new
      BY <1>7, <1>10, <2>1, <3>3
    <3> QED  BY <2>1, <3>1, <3>2, <3>3
  <2> QED  BY <1>3, <1>4, <2>1 DEF RunningOrdered
<1>15. PendingInv'
  <2>1. /\ Data(new) => Returning' = Returning \cup {new.id}
        /\ ~ Data(new) => Returning' = Returning
    BY <1>3 DEF Returning
  <2>2. ASSUME NEW n \in Ids PROVE Pending(n)' = Pending(n)
    <3> DEFINE h == Home(n)
    <3>1. h \in Banks
      BY <1>8
    <3>2. (n \in DataIds(queue'[h]) \/ n \in Returning')
            <=> (n \in DataIds(queue[h]) \/ n \in Returning)
      <4>1. CASE Data(new)
        BY <1>3, <1>6, <1>7, <2>1, <3>1, <4>1
      <4>2. CASE ~ Data(new)
        BY <1>3, <1>6, <2>1, <3>1, <4>2
      <4> QED  BY <4>1, <4>2
    <3>3. h = Home(n)'
      BY <1>4
    <3> QED  BY <1>3, <3>2, <3>3 DEF Pending
  <2> QED  BY <1>3, <1>4, <2>2 DEF OrderInv, PendingInv
<1> QED  BY <1>11, <1>12, <1>13, <1>14, <1>15 DEF OrderInv

\* A command returns.
LEMMA OrderReturn ==
    ASSUME TypeOK, OrderInv, NEW x \in running, CommandReturn(x)
    PROVE  OrderInv'
<1>1. /\ cf' = cf /\ requests' = requests /\ incoming' = incoming /\ queue' = queue
      /\ running' = running \ {x} /\ x.left = 0
      /\ Data(x) => finished' = finished \cup {x.id}
      /\ ~ Data(x) => finished' = finished
  BY DEF CommandReturn, Data
<1>2. /\ Controllers' = Controllers /\ Banks' = Banks /\ Ids' = Ids
      /\ \A n : Home(n)' = Home(n)
  BY <1>1, SameGeometry DEF Ids, Home
<1>3. /\ \A d \in Banks : DataIds(queue[d]) \subseteq Ids /\ d[1] \in Controllers
      /\ \A y \in running : y.id \in Ids /\ y.left \in Nat
      /\ \A n \in Ids : Home(n) \in Banks
      /\ Ids \subseteq Nat
  BY IdSets, BankParts
<1>4. IncomingInv'
  BY <1>1, <1>2 DEF OrderInv, IncomingInv
<1>5. QueueInv'
  BY <1>1, <1>2 DEF OrderInv, QueueInv
<1>6. RunningFirst'
  BY <1>1, <1>2 DEF OrderInv, RunningFirst
<1>7. RunningOrdered'
  BY <1>1, <1>2 DEF OrderInv, RunningOrdered
<1>8. PendingInv'
  <2>1. CASE ~ Data(x)
    <3>1. Returning' = Returning
      BY <1>1, <2>1 DEF Returning
    <3>2. \A n : Pending(n)' = Pending(n)
      BY <1>1, <1>2, <3>1 DEF Pending
    <3> QED  BY <1>1, <1>2, <2>1, <3>2 DEF OrderInv, PendingInv
  <2>2. CASE Data(x)
    <3>0. ~ (x.id < x.id)
      <4>1. x.id \in Nat
        BY <1>3
      <4> QED  BY <4>1
    <3>1. ASSUME NEW n \in Ids, n # x.id PROVE Pending(n)' = Pending(n)
      <4>1. n \in Returning' <=> n \in Returning
        BY <1>1, <3>1 DEF Returning
      <4> QED  BY <1>1, <1>2, <4>1 DEF Pending
    <3>2. ~ Pending(x.id)'
      <4>1. x.id \notin Returning'
        <5>1. ASSUME NEW y \in running, y # x, Data(y), y.id = x.id PROVE FALSE
          <6>1. x.id < y.id \/ y.id < x.id
            BY <2>2, <5>1 DEF OrderInv, RunningOrdered
          <6> QED  BY <3>0, <5>1, <6>1
        <5> QED  BY <1>1, <5>1 DEF Returning
      <4>2. x.id \notin Range(incoming[Home(x.id)[1]]) /\ x.id \notin DataIds(queue[Home(x.id)])
        <5>1. /\ \A n \in DataIds(queue[Home(x.id)]) : x.id < n
              /\ \A m \in Range(incoming[Home(x.id)[1]]) : x.id < m
          BY <2>2 DEF OrderInv, RunningFirst
        <5> QED  BY <3>0, <5>1
      <4> QED  BY <1>1, <1>2, <4>1, <4>2 DEF Pending
    <3> QED  BY <1>1, <1>2, <2>2, <3>1, <3>2 DEF OrderInv, PendingInv
  <2> QED  BY <2>1, <2>2
<1> QED  BY <1>4, <1>5, <1>6, <1>7, <1>8 DEF OrderInv

\* A cycle passes.
LEMMA OrderTick ==
    ASSUME TypeOK, OrderInv, Tick
    PROVE  OrderInv'
<1>1. /\ cf' = cf /\ requests' = requests /\ incoming' = incoming /\ queue' = queue
      /\ running' = {[x EXCEPT !.left = @ - 1] : x \in running}
      /\ finished' = finished
  BY DEF Tick
<1>2. /\ Controllers' = Controllers /\ Banks' = Banks /\ Ids' = Ids
      /\ \A n : Home(n)' = Home(n)
  BY <1>1, SameGeometry DEF Ids, Home
<1>3. \A x \in running :
          LET z == [x EXCEPT !.left = @ - 1]
          IN  z \in running' /\ z.type = x.type /\ z.id = x.id /\ z.left = x.left - 1
  BY <1>1, RunningType
<1>4. \A z \in running' : \E x \in running :
          /\ z = [x EXCEPT !.left = @ - 1]
          /\ z.type = x.type /\ z.id = x.id /\ z.left = x.left - 1 /\ x.left \in Nat
  BY <1>1, RunningType
<1>5. IncomingInv'
  BY <1>1, <1>2 DEF OrderInv, IncomingInv
<1>6. QueueInv'
  BY <1>1, <1>2 DEF OrderInv, QueueInv
<1>7. RunningFirst'
  <2>1. ASSUME NEW z \in running', Data(z)
        PROVE  /\ \A n \in DataIds(queue[Home(z.id)]) : z.id < n
               /\ \A m \in Range(incoming[Home(z.id)[1]]) : z.id < m
    <3>1. PICK x \in running : z.type = x.type /\ z.id = x.id
      BY <1>4
    <3>2. Data(x)
      BY <2>1, <3>1 DEF Data
    <3> QED  BY <3>1, <3>2 DEF OrderInv, RunningFirst
  <2> QED  BY <1>1, <1>2, <2>1 DEF RunningFirst
<1>8. RunningOrdered'
  <2>1. ASSUME NEW z1 \in running', NEW z2 \in running', z1 # z2, Data(z1), Data(z2),
               Home(z1.id) = Home(z2.id)
        PROVE  \/ z1.id < z2.id /\ z1.left < z2.left
               \/ z2.id < z1.id /\ z2.left < z1.left
    <3>1. PICK x \in running :
            /\ z1 = [x EXCEPT !.left = @ - 1]
            /\ z1.type = x.type /\ z1.id = x.id /\ z1.left = x.left - 1 /\ x.left \in Nat
      BY <1>4
    <3>2. PICK y \in running :
            /\ z2 = [y EXCEPT !.left = @ - 1]
            /\ z2.type = y.type /\ z2.id = y.id /\ z2.left = y.left - 1 /\ y.left \in Nat
      BY <1>4
    <3>3. x # y /\ Data(x) /\ Data(y) /\ Home(x.id) = Home(y.id)
      BY <2>1, <3>1, <3>2 DEF Data
    <3>4. \/ x.id < y.id /\ x.left < y.left
          \/ y.id < x.id /\ y.left < x.left
      BY <3>3 DEF OrderInv, RunningOrdered
    <3>5. z1.id = x.id /\ z2.id = y.id
      BY <3>1, <3>2
    <3>6. x.left < y.left => z1.left < z2.left
      BY <3>1, <3>2
    <3>7. y.left < x.left => z2.left < z1.left
      BY <3>1, <3>2
    <3> QED  BY <3>4, <3>5, <3>6, <3>7
  <2> QED  BY <1>2, <2>1 DEF RunningOrdered
<1>9. PendingInv'
  <2>1. Returning' = Returning
    <3>1. ASSUME NEW n \in Returning PROVE n \in Returning'
      <4>1. PICK x \in running : Data(x) /\ n = x.id
        BY <3>1 DEF Returning
      <4>2. PICK z \in running' : z.type = x.type /\ z.id = x.id
        BY <1>3
      <4> QED  BY <4>1, <4>2 DEF Returning, Data
    <3>2. ASSUME NEW n \in Returning' PROVE n \in Returning
      <4>1. PICK z \in running' : Data(z) /\ n = z.id
        BY <3>2 DEF Returning
      <4>2. PICK x \in running : z.type = x.type /\ z.id = x.id
        BY <1>4
      <4> QED  BY <4>1, <4>2 DEF Returning, Data
    <3> QED  BY <3>1, <3>2
  <2>2. \A n : Pending(n)' = Pending(n)
    BY <1>1, <1>2, <2>1 DEF Pending
  <2> QED  BY <1>1, <1>2, <2>2 DEF OrderInv, PendingInv
<1> QED  BY <1>5, <1>6, <1>7, <1>8, <1>9 DEF OrderInv

LEMMA OrderInductive == TypeOK /\ RankAges /\ BusInv /\ OrderInv /\ [Next]_vars => OrderInv'
<1> SUFFICES ASSUME TypeOK, RankAges, BusInv, OrderInv, [Next]_vars PROVE OrderInv'
  OBVIOUS
<1>1. ASSUME NEW k, PutOff(k) \/ NothingToRun(k) PROVE OrderInv'
  <2>1. /\ cf' = cf /\ incoming' = incoming /\ queue' = queue /\ running' = running
        /\ requests' = requests /\ finished' = finished
    BY <1>1 DEF PutOff, NothingToRun
  <2> QED  BY <2>1, OrderSame
<1>2. ASSUME UNCHANGED vars PROVE OrderInv'
  BY <1>2, OrderSame DEF vars
<1> QED  BY <1>1, <1>2, OrderAdd, OrderProcessor, OrderFront, OrderReturn, OrderTick, NextCases

LEMMA OrderAlways == Spec => []OrderInv
<1>1. Init => OrderInv
  <2> SUFFICES ASSUME Init PROVE OrderInv
    OBVIOUS
  <2>1. /\ running = {} /\ Ids = {}
        /\ \A c \in Controllers : DOMAIN incoming[c] = {}
        /\ \A b \in Banks : DOMAIN queue[b] = {}
    BY DEF Init, Ids
  <2>2. IncomingInv
    BY <2>1 DEF IncomingInv, Ordered, Range
  <2>3. QueueInv
    BY <2>1 DEF QueueInv, DataOrdered, DataIds
  <2>4. RunningFirst /\ RunningOrdered /\ PendingInv
    BY <2>1 DEF RunningFirst, RunningOrdered, PendingInv
  <2> QED  BY <2>2, <2>3, <2>4 DEF OrderInv
<1> QED  BY <1>1, OrderInductive, TypeCorrect, RankAgesAlways, BusInvAlways, PTL DEF Spec

-----------------------------------------------------------------------------
(***************************************************************************)
(* The refinement.                                                         *)
(***************************************************************************)
LEMMA UnfinishedType ==
    ASSUME TypeOK, NEW b
    PROVE  Unfinished(b) \in SUBSET Int /\ IsFiniteSet(Unfinished(b)) /\ Unfinished(b) \subseteq Ids
<1>1. Ids = 1 .. Len(requests) /\ Len(requests) \in Nat
  BY IdSets
<1>2. IsFiniteSet(Ids) /\ Ids \subseteq Int
  BY <1>1, FS_Interval
<1>3. Unfinished(b) \subseteq Ids
  BY DEF Unfinished
<1> QED  BY <1>2, <1>3, FS_Subset

\* The requests of a bank that is not concerned.
LEMMA OtherLanes ==
    ASSUME NEW b, NEW s, NEW t, \A d \in BankIds : d # b => Unfinished(d)' = Unfinished(d),
           InOrder(Unfinished(b)) = s, InOrder(Unfinished(b)') = t
    PROVE  [d \in BankIds |-> InOrder(Unfinished(d))]'
              = [[d \in BankIds |-> InOrder(Unfinished(d))] EXCEPT ![b] = t]
<1>1. \A d \in BankIds : InOrder(Unfinished(d)') =
          [[e \in BankIds |-> InOrder(Unfinished(e))] EXCEPT ![b] = t][d]
  OBVIOUS
<1> QED  BY <1>1

LEMMA SendStep ==
    ASSUME TypeOK, Len(requests) < Len(cf.work), NEW type, NEW a \in Nat, AddRequest(type, a)
    PROVE  Ch!ChannelNext
<1>1. PICK b, id : b = Bank(a) /\ id = Len(requests) + 1
  OBVIOUS
<1>2. cf' = cf /\ finished' = finished
  BY DEF AddRequest
<1>3. /\ \A n \in Ids : requests'[n] = requests[n]
      /\ Ids' = Ids \cup {id} /\ id \notin Ids
      /\ requests'[id].bank = b
      /\ Ids = 1 .. Len(requests) /\ Len(requests) \in Nat
  <2>1. /\ \A n \in Ids : requests'[n] = requests[n]
        /\ Ids' = Ids \cup {id} /\ id \notin Ids
        /\ requests'[id] = [type |-> type, bank |-> b, row |-> Row(a)]
        /\ Ids = 1 .. Len(requests) /\ Len(requests) \in Nat
    BY <1>1, AddKeeps
  <2> QED  BY <2>1
<1>4. b \in BankIds
  <2>1. b \in Banks /\ cf \in Configs
    BY <1>1, Decoded DEF TypeOK
  <2> QED  BY <2>1, LanesAssumption DEF Banks, Controllers
<1>5. id \in RequestIds
  <2> DEFINE W == SUBSET [type : {"read", "write"}, address : Nat]
  <2>1. cf.work \in Seq(W) /\ DOMAIN cf.work \subseteq RequestIds
    BY WorkAssumption, LanesAssumption DEF TypeOK
  <2> HIDE DEF W
  <2>2. id \in DOMAIN cf.work
    BY <1>1, <1>3, <2>1
  <2> QED  BY <2>1, <2>2
<1>6. id \notin finished
  BY <1>3, IdSets
<1>7. Unfinished(b)' = Unfinished(b) \cup {id}
  BY <1>2, <1>3, <1>6 DEF Unfinished, Home
<1>8. \A d \in BankIds : d # b => Unfinished(d)' = Unfinished(d)
  BY <1>2, <1>3 DEF Unfinished, Home
<1>9. InOrder(Unfinished(b)') = Append(InOrder(Unfinished(b)), id)
  <2>1. /\ Unfinished(b) \in SUBSET Int /\ IsFiniteSet(Unfinished(b)) /\ id \in Int
        /\ \A m \in Unfinished(b) : m < id
    BY <1>1, <1>3, UnfinishedType
  <2> QED  BY <1>7, <2>1, InOrderAppend
<1>10. [d \in BankIds |-> InOrder(Unfinished(d))]'
          = [[d \in BankIds |-> InOrder(Unfinished(d))]
                EXCEPT ![b] = Append(InOrder(Unfinished(b)), id)]
  BY <1>8, <1>9, OtherLanes
<1>11. Ch!Send(b, id)
  BY <1>3, <1>4, <1>10 DEF Ch!Send
<1> QED  BY <1>4, <1>5, <1>11 DEF Ch!ChannelNext

LEMMA DeliverStep ==
    ASSUME TypeOK, OrderInv, NEW x \in running, CommandReturn(x), Data(x)
    PROVE  Ch!ChannelNext
<1>1. /\ cf' = cf /\ requests' = requests /\ finished' = finished \cup {x.id} /\ x.left = 0
  BY DEF CommandReturn, Data
<1>2. PICK id, b : id = x.id /\ b = Home(id)
  OBVIOUS
<1>3. id \in Ids /\ b \in Banks /\ Ids \subseteq Int
  BY <1>2, IdSets
<1>4. b \in BankIds
  BY <1>3, LanesAssumption DEF TypeOK, Banks, Controllers
<1>5. id \in Unfinished(b)
  <2>1. id \in Returning
    BY <1>2 DEF Returning
  <2> QED  BY <1>2, <1>3, <2>1 DEF OrderInv, PendingInv, Pending, Unfinished
\* It is the oldest.
<1>6. ASSUME NEW m \in Unfinished(b), m # id PROVE id < m
  <2>1. m \in Ids /\ Home(m) = b /\ Pending(m)
    BY <1>6 DEF Unfinished, OrderInv, PendingInv
  <2>2. CASE m \in Range(incoming[b[1]]) \/ m \in DataIds(queue[b])
    BY <1>2, <2>2 DEF OrderInv, RunningFirst
  <2>3. CASE m \in Returning
    <3>1. PICK y \in running : Data(y) /\ m = y.id
      BY <2>3 DEF Returning
    <3>2. \/ x.id < y.id /\ x.left < y.left
          \/ y.id < x.id /\ y.left < x.left
      BY <1>2, <1>6, <2>1, <3>1 DEF OrderInv, RunningOrdered
    <3>3. y.left \in Nat
      BY RunningType
    <3> QED  BY <1>1, <1>2, <3>1, <3>2, <3>3
  <2> QED  BY <2>1, <2>2, <2>3 DEF Pending
<1>7. Unfinished(b)' = Unfinished(b) \ {id}
  BY <1>1, <1>2 DEF Unfinished, Home, Ids
<1>8. \A d \in BankIds : d # b => Unfinished(d)' = Unfinished(d)
  BY <1>1, <1>2 DEF Unfinished, Home, Ids
<1>9. /\ InOrder(Unfinished(b)) # <<>>
      /\ InOrder(Unfinished(b)') = Tail(InOrder(Unfinished(b)))
  <2>1. Unfinished(b) \in SUBSET Int /\ IsFiniteSet(Unfinished(b))
    BY UnfinishedType
  <2> QED  BY <1>5, <1>6, <1>7, <2>1, InOrderTail
<1>10. [d \in BankIds |-> InOrder(Unfinished(d))]'
          = [[d \in BankIds |-> InOrder(Unfinished(d))]
                EXCEPT ![b] = Tail(InOrder(Unfinished(b)))]
  BY <1>8, <1>9, OtherLanes
<1>11. Ch!Deliver(b)
  BY <1>1, <1>4, <1>9, <1>10 DEF Ch!Deliver, Ids
<1> QED  BY <1>4, <1>11 DEF Ch!ChannelNext

\* Steps that neither add nor finish a request.
LEMMA LanesSame ==
    ASSUME requests' = requests, finished' = finished
    PROVE  UNCHANGED <<[b \in BankIds |-> InOrder(Unfinished(b))], Ids>>
<1>1. Ids' = Ids /\ \A b : Unfinished(b)' = Unfinished(b)
  BY DEF Ids, Unfinished, Home
<1> QED  BY <1>1

LEMMA ChannelStep ==
    TypeOK /\ OrderInv /\ [Next]_vars
        => [Ch!ChannelNext]_<<[b \in BankIds |-> InOrder(Unfinished(b))], Ids>>
<1> SUFFICES ASSUME TypeOK, OrderInv, [Next]_vars
             PROVE  \/ Ch!ChannelNext
                    \/ UNCHANGED <<[b \in BankIds |-> InOrder(Unfinished(b))], Ids>>
  OBVIOUS
<1>1. CASE Client
  <2>1. PICK type \in {"read", "write"}, a \in Nat : AddRequest(type, a)
    BY <1>1, ClientStep
  <2>2. Len(requests) < Len(cf.work)
    BY <1>1 DEF Client
  <2> QED  BY <2>1, <2>2, SendStep
<1>2. ASSUME NEW x \in running, CommandReturn(x)
      PROVE  Ch!ChannelNext \/ (requests' = requests /\ finished' = finished)
  <2>1. CASE Data(x)
    BY <1>2, <2>1, DeliverStep
  <2>2. CASE ~ Data(x)
    BY <1>2, <2>2, ZenonT(30) DEF CommandReturn, Data
  <2> QED  BY <2>1, <2>2
<1>3. ASSUME Step \/ UNCHANGED vars
      PROVE  \/ \E x \in running : CommandReturn(x)
             \/ requests' = requests /\ finished' = finished
  BY <1>3, Zenon DEF Step, RunRequestProcessor, RunFrontCommand, PutOff, NothingToRun, Tick, vars
<1>4. Client \/ Step \/ UNCHANGED vars
  BY DEF Next
<1> QED  BY <1>1, <1>2, <1>3, <1>4, LanesSame

\* The DRAM system is a channel with a lane for every bank.
THEOREM BanksServeInOrder == Spec => BanksInOrder
<1>1. Init => Ch!ChannelInit
  <2> SUFFICES ASSUME Init PROVE Ch!ChannelInit
    OBVIOUS
  <2>1. Ids = {} /\ \A b : Unfinished(b) = {}
    BY DEF Init, Ids, Unfinished
  <2>2. InOrder({}) = <<>>
    <3>1. Cardinality({}) = 0 /\ IsFiniteSet({})
      BY FS_EmptySet
    <3>2. InOrder({}) \in Seq({Choice(Ranked({}, i)) : i \in 1 .. 0}) /\ Len(InOrder({})) = 0
      BY <3>1, InOrderIsSeq
    <3> QED  BY <3>2
  <2> QED  BY <2>1, <2>2 DEF Ch!ChannelInit
<1> QED  BY <1>1, ChannelStep, TypeCorrect, OrderAlways, PTL DEF Spec, BanksInOrder, Ch!ChannelSpec
=============================================================================
