------------------------------ MODULE Network -------------------------------
(***************************************************************************)
(* The traffic of a configured network (network/Network.cc,                *)
(* SystemEvents.cc, Link.cc, Bus.cc, Switch.cc, Buffer.cc, Message.cc).    *)
(* RoutingTable configures the network; clients then send messages, which  *)
(* travel as packets from buffer to buffer.  Every handler is an action    *)
(* and every early return of a handler a disjunct of it.                   *)
(*                                                                         *)
(* Time.  A busy field of the code holds the last cycle in which something *)
(* is busy; busy[r] counts the cycles that are left of it, 0 when it is    *)
(* free.  agenda is the engine's heap: the pending events in the order in  *)
(* which they were scheduled, each with the cycles left until it is due.   *)
(* The engine runs the events of a cycle in that order, and Tick starts    *)
(* the next cycle when none is due.                                        *)
(*                                                                         *)
(* A frame is <<m, i>> for packet i of message m and <<m, 0>> for the      *)
(* client of message m.  The client is external: it calls TrySend at any   *)
(* time, with itself as the event to retry, and when it has passed a       *)
(* receive event it calls Receive as soon as that event runs.              *)
(*                                                                         *)
(* Further fields of a network nw: msgs (the messages [src, dst, size,     *)
(* auto] that clients send, auto when no receive event is passed), packet  *)
(* (DefaultPacketSize), room (size of every buffer), bandwidth (of every   *)
(* connection), crossbar (the bandwidth of every switch), lanes (of every  *)
(* bus) and fix (FixLatency, 0 when the topology counts).                  *)
(***************************************************************************)
EXTENDS RoutingTable

CONSTANTS NodeIds, MessageIds     \* supersets of the clients and messages of Nets

\* Nodes are numbered as they are added.  The connections join nodes of the
\* network and a link has as many buffers at each end; messages, bandwidths and
\* the route steps are as the configuration demands.  (That a route step leads to
\* another node is not checked.)
ASSUME NetAssumption ==
    \A n \in Nets :
        /\ n.nodes = 1 .. Dimension(n) /\ Dimension(n) \in Nat \ {0}
        /\ n.ends \subseteq n.nodes
        /\ n.conns \in Seq([link : BOOLEAN, src : Seq(n.nodes), dst : Seq(n.nodes)])
        /\ \A c \in DOMAIN n.conns :
                n.conns[c].link => Len(n.conns[c].src) = Len(n.conns[c].dst)
        /\ n.steps \in Seq([from : n.nodes, to : n.nodes, next : n.nodes, vc : Nat])
        /\ \A i \in DOMAIN n.steps : n.steps[i].next # n.steps[i].from
        /\ n.msgs \in Seq([src : n.nodes, dst : n.nodes, size : Nat \ {0}, auto : BOOLEAN])
        /\ n.packet \in Nat /\ n.room \in Nat /\ n.fix \in Nat
        /\ n.bandwidth \in Nat \ {0} /\ n.crossbar \in Nat \ {0}

VARIABLES
    agenda,     \* sequence of [frame, ev, t]
    queue,      \* for every buffer the suspended [frame, ev], oldest first
    content,    \* the packets of every buffer, oldest first
    at,         \* the buffer that a packet points to
    busy,       \* cycles for which a resource is still busy
    grant,      \* decision of every arbiter: [fresh, buffer]
    last,       \* last scheduled index of every connection
    status,     \* of every message
    assembled,  \* the packets of every message that have been assembled
    order       \* history: the messages in the order they were sent

traffic == <<agenda, queue, content, at, busy, grant, last, status, assembled, order>>
vars == <<routingVars, traffic>>

Buffers == OutBuffers(nw) \cup InBuffers(nw)
Msgs == DOMAIN nw.msgs

\* Message::Packetize.  Every packet has the full packet size.
NumPackets(m) ==
    IF nw.packet = 0 THEN 1 ELSE ((nw.msgs[m].size - 1) \div nw.packet) + 1
PacketSize(m) == IF nw.packet = 0 THEN nw.msgs[m].size ELSE nw.packet
PacketsOf(m) == {<<m, i>> : i \in 1 .. NumPackets(m)}
Packets == UNION {PacketsOf(m) : m \in Msgs}

Read(b) == <<"read", b>>
Write(b) == <<"write", b>>
LinkOf(c) == <<"link", c>>
LaneOf(c, l) == <<"lane", c, l>>
PacketBusy(p) == <<"packet", p>>
Arbiters ==
    {LinkOf(c) : c \in DOMAIN nw.conns}
        \cup {LaneOf(c, l) : c \in DOMAIN nw.conns, l \in 1 .. nw.lanes}
Resources ==
    {Read(b) : b \in Buffers} \cup {Write(b) : b \in Buffers} \cup Arbiters
        \cup {PacketBusy(p) : p \in Packets}

TrafficInit ==
    /\ agenda = <<>>
    /\ queue = [b \in Buffers |-> <<>>]
    /\ content = [b \in Buffers |-> <<>>]
    /\ at = [p \in Packets |-> NoBuffer]
    /\ busy = [r \in Resources |-> 0]
    /\ grant = [a \in Arbiters \cup OutBuffers(nw) |->
                    [fresh |-> FALSE, buffer |-> NoBuffer]]
    /\ last = [c \in DOMAIN nw.conns |-> 0]
    /\ status = [m \in Msgs |-> "idle"]
    /\ assembled = [m \in Msgs |-> {}]
    /\ order = <<>>

Init == RoutingInit /\ TrafficInit
-----------------------------------------------------------------------------
(***************************************************************************)
(* The engine: the event that runs next, scheduling, and buffer queues.    *)
(***************************************************************************)
Due == {i \in DOMAIN agenda : agenda[i].t = 0}
LatestIndex == CHOOSE i \in Due : \A j \in Due : j <= i     \* mutant: last in, first out
Index == CHOOSE i \in Due : \A j \in Due : i <= j
Current == agenda[Index]
Others == RemoveAt(agenda, Index)

\* The handler of event ev runs for frame f.
Runs(f, ev) ==
    phase = "ready" /\ Due # {} /\ Current.ev = ev /\ Current.frame = f

Post(ag, f, ev, d) == Append(ag, [frame |-> f, ev |-> ev, t |-> d])

\* The entries at the positions S of some sequences qs, one sequence after the
\* other; <<i, j>> is the position of entry j of qs[i].
Turn(S, x) == Cardinality({y \in S : y[1] < x[1] \/ (y[1] = x[1] /\ y[2] < x[2])})
Position(S, k) == CHOOSE x \in S : Turn(S, x) = k - 1
Picked(qs, S) ==
    [k \in 1 .. Cardinality(S) |-> qs[Position(S, k)[1]][Position(S, k)[2]]]

\* The waiters of the buffers bs are woken up, one buffer after the other.  A
\* buffer that comes again has no waiters left.
Waiting(bs) ==
    UNION {{<<i, j>> : j \in DOMAIN queue[bs[i]]} :
                i \in {k \in DOMAIN bs : \A h \in 1 .. k - 1 : bs[h] # bs[k]}}
Woken(ag, bs) ==
    LET w == Picked([i \in DOMAIN bs |-> queue[bs[i]]], Waiting(bs))
    IN  ag \o [k \in DOMAIN w |-> [frame |-> w[k].frame, ev |-> w[k].ev, t |-> 0]]

\* esim Next: the current event runs again after d cycles.
Again(d) == agenda' = Post(Others, Current.frame, Current.ev, d)

\* Mutant: the event is suspended and scheduled as well.
WaitAndRetry(b) ==
    /\ queue' = [queue EXCEPT ![b] =
                    Append(@, [frame |-> Current.frame, ev |-> Current.ev])]
    /\ Again(1)

\* Buffer::Wait: the current event is suspended until the buffer is read.
WaitOn(b) ==
    /\ queue' = [queue EXCEPT ![b] =
                    Append(@, [frame |-> Current.frame, ev |-> Current.ev])]
    /\ agenda' = Others

\* The bytes of the packets in a buffer.
Bytes(b) ==
    Cardinality(UNION {{<<i, k>> : k \in 1 .. PacketSize(content[b][i][1])} :
                            i \in DOMAIN content[b]})
FitsOffByOne(b, bytes) == Bytes(b) + bytes <= nw.room + 1     \* mutant
Fits(b, bytes) == Bytes(b) + bytes <= nw.room
IsHead(p, b) == content[b] # <<>> /\ Head(content[b]) = p

unchangedNet == UNCHANGED routingVars
unchangedMsgs == UNCHANGED <<status, assembled, order>> /\ unchangedNet

Panics(why) == Fail(why) /\ UNCHANGED <<nw, table, steps, walk, dfs, warned, traffic>>
-----------------------------------------------------------------------------
(***************************************************************************)
(* Network::TrySend for message m: CanSend, then Send, which runs the send *)
(* handler of every packet at once.  ag is the agenda without the retry    *)
(* event, if that is what called it.                                       *)
(***************************************************************************)
Required(m) == NumPackets(m) * PacketSize(m)

Sent(m, b, ag) ==
    LET ps == [i \in 1 .. NumPackets(m) |-> <<m, i>>]
        direct == nw.fix > 0
    IN  /\ status' = [status EXCEPT ![m] = "sent"]
        /\ order' = Append(order, m)
        /\ agenda' = ag \o [i \in DOMAIN ps |->
                        [frame |-> ps[i],
                         ev |-> IF direct THEN "receive" ELSE "output",
                         t |-> IF direct THEN nw.fix ELSE 1]]
        /\ IF direct
           THEN UNCHANGED <<content, at, busy>>
           ELSE /\ content' = [content EXCEPT ![b] = @ \o ps]
                /\ at' = [p \in Packets |-> IF p[1] = m THEN b ELSE at[p]]
                /\ busy' = [r \in Resources |->
                                IF r = Write(b) \/ \E p \in PacketsOf(m) :
                                                        r = PacketBusy(p)
                                THEN 1 ELSE busy[r]]
        /\ UNCHANGED queue

TrySend(m, ag) ==
    LET b == table[nw.msgs[m].src][nw.msgs[m].dst].buffer
        me == [frame |-> <<m, 0>>, ev |-> "retry"]
    IN  \/ /\ b = NoBuffer
           /\ Panics("no_route")
        \/ /\ b # NoBuffer
           /\ busy[Write(b)] > 0
           /\ agenda' = Post(ag, me.frame, me.ev, busy[Write(b)])
           /\ status' = [status EXCEPT ![m] = "trying"]
           /\ UNCHANGED <<queue, content, at, busy, order>>
           /\ UNCHANGED <<grant, last, assembled>> /\ unchangedNet
        \/ /\ b # NoBuffer
           /\ busy[Write(b)] = 0
           /\ Required(m) > nw.room
           /\ Panics("message_too_big")
        \/ /\ b # NoBuffer
           /\ busy[Write(b)] = 0
           /\ Required(m) <= nw.room
           /\ ~ Fits(b, Required(m))
           /\ queue' = [queue EXCEPT ![b] = Append(@, me)]
           /\ agenda' = ag
           /\ status' = [status EXCEPT ![m] = "trying"]
           /\ UNCHANGED <<content, at, busy, order>>
           /\ UNCHANGED <<grant, last, assembled>> /\ unchangedNet
        \/ /\ b # NoBuffer
           /\ busy[Write(b)] = 0
           /\ Fits(b, Required(m))
           /\ Sent(m, b, ag)
           /\ UNCHANGED <<grant, last, assembled>> /\ unchangedNet

\* A client sends message m.
ClientSends(m) == phase = "ready" /\ status[m] = "idle" /\ TrySend(m, agenda)

\* The retry event of a client that could not send before.
ClientRetries(m) == Runs(<<m, 0>>, "retry") /\ TrySend(m, Others)
-----------------------------------------------------------------------------
(***************************************************************************)
(* Moving packet p from the head of buffer b to buffer d.  resources are   *)
(* busy for the latency, and event ev of the packet runs after it.  width  *)
(* is the bandwidth of the link, lane or switch.                           *)
(***************************************************************************)
Latency(p, width) == ((PacketSize(p[1]) - 1) \div width) + 1

\* Mutant: only the first waiter of the buffer is woken up.
MoveWakesOne(p, b, d, resources, ev, width) ==
    /\ content' = [content EXCEPT ![b] = Tail(@), ![d] = Append(@, p)]
    /\ at' = [at EXCEPT ![p] = d]
    /\ busy' = [r \in Resources |->
                    IF r \in resources \cup {Read(b), Write(d), PacketBusy(p)}
                    THEN Latency(p, width) ELSE busy[r]]
    /\ queue' = [queue EXCEPT ![b] = IF @ = <<>> THEN @ ELSE Tail(@)]
    /\ agenda' = Post(IF queue[b] = <<>> THEN Others
                      ELSE Append(Others, [frame |-> Head(queue[b]).frame,
                                           ev |-> Head(queue[b]).ev, t |-> 0]),
                      p, ev, Latency(p, width))

Move(p, b, d, resources, ev, width) ==
    /\ content' = [content EXCEPT ![b] = Tail(@), ![d] = Append(@, p)]
    /\ at' = [at EXCEPT ![p] = d]
    /\ busy' = [r \in Resources |->
                    IF r \in resources \cup {Read(b), Write(d), PacketBusy(p)}
                    THEN Latency(p, width) ELSE busy[r]]
    /\ queue' = [queue EXCEPT ![b] = <<>>]
    /\ agenda' = Post(Woken(Others, <<b>>), p, ev, Latency(p, width))

\* Round robin: the first of the indices s in 1 .. n after index i.
NextIndex(n, i, s) ==
    CHOOSE x \in s : \A y \in s : (x + n - i - 1) % n <= (y + n - i - 1) % n

\* The source buffers of connection c whose head may leave in this cycle.
ReadyIndices(c) ==
    {i \in DOMAIN nw.conns[c].src :
        LET b == <<"out", c, i>>
        IN  /\ content[b] # <<>>
            /\ busy[PacketBusy(Head(content[b]))] = 0
            /\ busy[Read(b)] = 0}

(***************************************************************************)
(* Link::VirtualChannelArbitration and Bus::LaneArbitration: a decision is *)
(* made once in a cycle.  g and l are the decisions and the last indices   *)
(* so far; the result has the new ones.                                    *)
(***************************************************************************)
Decide(g, l, a) ==
    LET c == a[2]
        ready == IF busy[a] > 0 THEN {} ELSE ReadyIndices(c)
        i == NextIndex(Len(nw.conns[c].src), l[c], ready)
    IN  IF g[a].fresh THEN [grant |-> g, last |-> l]
        ELSE IF ready = {}
        THEN [grant |-> [g EXCEPT ![a] = [fresh |-> TRUE, buffer |-> NoBuffer]],
              last |-> l]
        ELSE [grant |-> [g EXCEPT ![a] = [fresh |-> TRUE, buffer |-> <<"out", c, i>>]],
              last |-> [l EXCEPT ![c] = i]]

\* Bus::Arbitration: the lanes decide in order until one of them chooses b.
BusArbitration(c, b) ==
    FoldLeft(LAMBDA x, l :
                IF x.lane # 0 THEN x
                ELSE LET d == Decide(x.grant, x.last, LaneOf(c, l))
                     IN  [grant |-> d.grant, last |-> d.last,
                          lane |-> IF d.grant[LaneOf(c, l)].buffer = b THEN l ELSE 0],
             [grant |-> grant, last |-> last, lane |-> 0],
             [l \in 1 .. nw.lanes |-> l])

\* Link::TransferPacket for the head p of source buffer b.
LinkTransfer(p, b) ==
    LET c == b[2]
        d == <<"in", c, b[3]>>
        arb == Decide(grant, last, LinkOf(c))
        chosen == arb.grant[LinkOf(c)].buffer = b
        decided == grant' = arb.grant /\ last' = arb.last
    IN  \/ /\ busy[LinkOf(c)] > 0
           /\ Again(busy[LinkOf(c)])
           /\ UNCHANGED <<queue, content, at, busy, grant, last>> /\ unchangedMsgs
        \/ /\ busy[LinkOf(c)] = 0
           /\ ~ chosen
           /\ decided
           /\ Again(1)
           /\ UNCHANGED <<queue, content, at, busy>> /\ unchangedMsgs
        \/ /\ busy[LinkOf(c)] = 0
           /\ chosen
           /\ decided
           /\ busy[Write(d)] > 0
           /\ Again(busy[Write(d)])
           /\ UNCHANGED <<queue, content, at, busy>> /\ unchangedMsgs
        \/ /\ busy[LinkOf(c)] = 0
           /\ chosen
           /\ decided
           /\ busy[Write(d)] = 0
           /\ ~ Fits(d, PacketSize(p[1]))
           /\ WaitOn(d)
           /\ UNCHANGED <<content, at, busy>> /\ unchangedMsgs
        \/ /\ busy[LinkOf(c)] = 0
           /\ chosen
           /\ decided
           /\ busy[Write(d)] = 0
           /\ Fits(d, PacketSize(p[1]))
           /\ Move(p, b, d, {LinkOf(c)}, "input", nw.bandwidth)
           /\ unchangedMsgs

\* Bus::TransferPacket for the head p of source buffer b.
BusTransfer(p, b) ==
    LET c == b[2]
        next == table[BufferNode(nw, b)][nw.msgs[p[1]].dst].next
        ds == {x \in InBuffers(nw) : x[2] = c /\ BufferNode(nw, x) = next}
        d == FirstBuffer(ds)
        arb == BusArbitration(c, b)
        decided == grant' = arb.grant /\ last' = arb.last
    IN  \/ /\ ds = {}
           /\ Panics("next_node_not_on_the_bus")
        \/ /\ ds # {}
           /\ busy[Write(d)] > 0
           /\ Again(busy[Write(d)])
           /\ UNCHANGED <<queue, content, at, busy, grant, last>> /\ unchangedMsgs
        \/ /\ ds # {}
           /\ busy[Write(d)] = 0
           /\ ~ Fits(d, PacketSize(p[1]))
           /\ WaitOn(d)
           /\ UNCHANGED <<content, at, busy, grant, last>> /\ unchangedMsgs
        \/ /\ ds # {}
           /\ busy[Write(d)] = 0
           /\ Fits(d, PacketSize(p[1]))
           /\ arb.lane = 0
           /\ decided
           /\ Again(1)
           /\ UNCHANGED <<queue, content, at, busy>> /\ unchangedMsgs
        \/ /\ ds # {}
           /\ busy[Write(d)] = 0
           /\ Fits(d, PacketSize(p[1]))
           /\ arb.lane # 0
           /\ decided
           /\ Move(p, b, d, {LaneOf(c, arb.lane)}, "input", nw.bandwidth)
           /\ unchangedMsgs

\* The output_buffer handler and the TransferPacket of its connection.
OutputBuffer(p) ==
    /\ Runs(p, "output")
    /\ LET b == at[p]
       IN  \/ /\ b[1] # "out"
              /\ Panics("not_a_source_buffer")
           \/ /\ b[1] = "out"
              /\ ~ IsHead(p, b)
              /\ WaitOn(b)
              /\ UNCHANGED <<content, at, busy, grant, last>>
              /\ unchangedMsgs
           \/ /\ b[1] = "out"
              /\ IsHead(p, b)
              /\ IF Conn(nw, b).link THEN LinkTransfer(p, b) ELSE BusTransfer(p, b)
-----------------------------------------------------------------------------
(***************************************************************************)
(* Switch::Schedule: the input buffer of the switch that may use output    *)
(* buffer o in this cycle.                                                 *)
(***************************************************************************)
InBuffersOf(i) == {x \in InBuffers(nw) : BufferNode(nw, x) = i}
Rank(b, bs) == Cardinality({x \in bs : Before(x, b)}) + 1

Candidates(o) ==
    LET node == BufferNode(nw, o)
    IN  {x \in InBuffersOf(node) :
            /\ content[x] # <<>>
            /\ busy[Read(x)] = 0
            /\ LET m == Head(content[x])[1]
               IN  /\ table[node][nw.msgs[m].dst].buffer = o
                   /\ Fits(o, PacketSize(m))}

Schedule(o) ==
    LET all == InBuffersOf(BufferNode(nw, o))
        previous == IF grant[o].buffer = NoBuffer THEN 1
                    ELSE Rank(grant[o].buffer, all)
        i == NextIndex(Cardinality(all), previous, {Rank(x, all) : x \in Candidates(o)})
    IN  IF grant[o].fresh THEN grant[o]
        ELSE [fresh |-> TRUE,
              buffer |-> IF Candidates(o) = {} THEN NoBuffer
                         ELSE CHOOSE x \in Candidates(o) : Rank(x, all) = i]

\* Switch::Forward for the head p of input buffer b.
Forward(p, b) ==
    LET node == BufferNode(nw, b)
        o == table[node][nw.msgs[p[1]].dst].buffer
        decision == Schedule(o)
    IN  \/ /\ busy[Read(b)] > 0
           /\ Again(busy[Read(b)])
           /\ UNCHANGED <<queue, content, at, busy, grant>> /\ unchangedMsgs
        \/ /\ busy[Read(b)] = 0
           /\ o = NoBuffer
           /\ Panics("null_output_buffer")
        \/ /\ busy[Read(b)] = 0
           /\ o # NoBuffer
           /\ busy[Write(o)] > 0
           /\ Again(busy[Write(o)])
           /\ UNCHANGED <<queue, content, at, busy, grant>> /\ unchangedMsgs
        \/ /\ busy[Read(b)] = 0
           /\ o # NoBuffer
           /\ busy[Write(o)] = 0
           /\ ~ Fits(o, PacketSize(p[1]))
           /\ WaitOn(o)
           /\ UNCHANGED <<content, at, busy, grant>> /\ unchangedMsgs
        \/ /\ busy[Read(b)] = 0
           /\ o # NoBuffer
           /\ busy[Write(o)] = 0
           /\ Fits(o, PacketSize(p[1]))
           /\ grant' = [grant EXCEPT ![o] = decision]
           /\ decision.buffer # b
           /\ Again(1)
           /\ UNCHANGED <<queue, content, at, busy>> /\ unchangedMsgs
        \/ /\ busy[Read(b)] = 0
           /\ o # NoBuffer
           /\ busy[Write(o)] = 0
           /\ Fits(o, PacketSize(p[1]))
           /\ grant' = [grant EXCEPT ![o] = decision]
           /\ decision.buffer = b
           /\ Move(p, b, o, {}, "output", nw.crossbar)
           /\ unchangedMsgs

\* The input_buffer handler.
InputBuffer(p) ==
    /\ Runs(p, "input")
    /\ LET b == at[p]
           node == BufferNode(nw, b)
           ends == node = nw.msgs[p[1]].dst
       IN  \/ /\ ends
              /\ agenda' = Post(Others, p, "receive", 0)
              /\ UNCHANGED <<queue, content, at, busy, grant, last>>
              /\ unchangedMsgs
           \/ /\ ~ ends
              /\ ~ IsHead(p, b)
              /\ WaitOn(b)
              /\ UNCHANGED <<content, at, busy, grant, last>>
              /\ unchangedMsgs
           \/ /\ ~ ends
              /\ IsHead(p, b)
              /\ node \in nw.ends
              /\ Panics("through_an_end_node")
           \/ /\ ~ ends
              /\ IsHead(p, b)
              /\ node \notin nw.ends
              /\ Forward(p, b)
              /\ UNCHANGED last
-----------------------------------------------------------------------------
\* Buffer b without the packets of message m.
Without(m, b) ==
    Picked(<<content[b]>>, {<<1, i>> : i \in {j \in DOMAIN content[b] : content[b][j][1] # m}})

(***************************************************************************)
(* Network::Receive for message m: its packets leave their buffers from    *)
(* wherever they are, and each removal wakes up the waiters of the buffer. *)
(* packets are the ones that Assemble has counted.                         *)
(***************************************************************************)
Receive(m, packets) ==
    LET homes == [i \in 1 .. NumPackets(m) |-> at[<<m, i>>]]
        direct == nw.fix > 0
        arrived == direct \/ \A i \in DOMAIN homes :
                        /\ homes[i] # NoBuffer
                        /\ BufferNode(nw, homes[i]) = nw.msgs[m].dst
                        /\ Contains(content[homes[i]], <<m, i>>)
    IN  \/ /\ ~ arrived
           /\ Panics("packet_has_not_arrived")
        \/ /\ arrived
           /\ status' = [status EXCEPT ![m] = "received"]
           /\ assembled' = [assembled EXCEPT ![m] = packets]
           /\ IF direct THEN /\ agenda' = Others
                             /\ UNCHANGED <<content, at, queue>>
              ELSE /\ content' = [b \in Buffers |->
                                    IF b \in Range(homes) THEN Without(m, b) ELSE content[b]]
                   /\ at' = [p \in Packets |-> IF p[1] = m THEN NoBuffer ELSE at[p]]
                   /\ agenda' = Woken(Others, homes)
                   /\ queue' = [b \in Buffers |->
                                    IF b \in Range(homes) THEN <<>> ELSE queue[b]]
           /\ UNCHANGED <<busy, grant, last, order>> /\ unchangedNet

\* Message::Assemble: packet p makes its message complete.
Assemble(p) == Cardinality(assembled[p[1]] \cup {p}) = NumPackets(p[1])

\* The receive handler: Message::Assemble, then Receive or the client's event.
ReceivePacket(p) ==
    /\ Runs(p, "receive")
    /\ LET m == p[1]
           complete == Assemble(p)
       IN  \/ /\ p \in assembled[m]
              /\ Panics("assembled_twice")
           \/ /\ p \notin assembled[m]
              /\ complete /\ nw.msgs[m].auto
              /\ Receive(m, assembled[m] \cup {p})
           \/ /\ p \notin assembled[m]
              /\ ~ (complete /\ nw.msgs[m].auto)
              /\ assembled' = [assembled EXCEPT ![m] = @ \cup {p}]
              /\ agenda' = IF complete THEN Post(Others, <<m, 0>>, "arrived", 0)
                                       ELSE Others
              /\ UNCHANGED <<queue, content, at, busy, grant, last>>
              /\ UNCHANGED <<status, order>> /\ unchangedNet

\* The receive event of the client.
ClientReceives(m) ==
    /\ Runs(<<m, 0>>, "arrived")
    /\ Receive(m, assembled[m])

\* Nothing is scheduled and no resource is busy: time makes no difference.
Idle ==
    /\ agenda = <<>>
    /\ \A r \in Resources : busy[r] = 0
    /\ \A a \in DOMAIN grant : ~ grant[a].fresh

\* Mutant: a decision of an arbiter is kept for ever.
StuckTick ==
    /\ phase = "ready"
    /\ Due = {}
    /\ ~ Idle
    /\ agenda' = [i \in DOMAIN agenda |-> [agenda[i] EXCEPT !.t = @ - 1]]
    /\ busy' = [r \in Resources |-> IF busy[r] = 0 THEN 0 ELSE busy[r] - 1]
    /\ UNCHANGED <<queue, content, at, grant, last, status, assembled, order>>
    /\ unchangedNet

\* The next cycle, when no event is due in this one.
Tick ==
    /\ phase = "ready"
    /\ Due = {}
    /\ ~ Idle
    /\ agenda' = [i \in DOMAIN agenda |-> [agenda[i] EXCEPT !.t = @ - 1]]
    /\ busy' = [r \in Resources |-> IF busy[r] = 0 THEN 0 ELSE busy[r] - 1]
    /\ grant' = [a \in DOMAIN grant |-> [grant[a] EXCEPT !.fresh = FALSE]]
    /\ UNCHANGED <<queue, content, at, last, status, assembled, order>>
    /\ unchangedNet

\* Every message has been received.
Finished ==
    /\ phase = "ready"
    /\ \A m \in Msgs : status[m] = "received"
    /\ UNCHANGED vars

Step ==
    \/ \E p \in Packets : OutputBuffer(p) \/ InputBuffer(p) \/ ReceivePacket(p)
    \/ \E m \in Msgs : ClientRetries(m) \/ ClientReceives(m)
    \/ Tick

Configure == RoutingNext /\ UNCHANGED traffic

Next == Configure \/ Step \/ (\E m \in Msgs : ClientSends(m)) \/ Finished

Spec == Init /\ [][Next]_vars

\* The engine goes on as long as there is something to do; clients need not send.
FairSpec == Spec /\ WF_vars(Configure) /\ WF_vars(Step)
-----------------------------------------------------------------------------
(***************************************************************************)
(* Properties.                                                             *)
(***************************************************************************)
Frames == Packets \cup {<<m, 0>> : m \in Msgs}
Waiters == [frame : Frames, ev : {"retry", "output", "input"}]

\* Types, and no buffer holds more than its size.
TypeOK ==
    /\ phase \in {"start", "hops", "cost", "search", "ready", "error"}
    /\ \A i \in DOMAIN agenda :
            /\ agenda[i].frame \in Frames
            /\ agenda[i].ev \in {"retry", "output", "input", "receive", "arrived"}
            /\ agenda[i].t \in Nat
    /\ \A b \in Buffers :
            /\ Range(queue[b]) \subseteq Waiters
            /\ Range(content[b]) \subseteq Packets
            /\ Bytes(b) <= nw.room
    /\ at \in [Packets -> Buffers \cup {NoBuffer}]
    /\ busy \in [Resources -> Nat]
    /\ status \in [Msgs -> {"idle", "trying", "sent", "received"}]
    /\ \A m \in Msgs : assembled[m] \subseteq PacketsOf(m)

\* No handler reports an error or panics: a route exists wherever a packet goes,
\* no packet passes through an end node, no buffer overflows, and a message is
\* received only when all of its packets have arrived, each of them once.
NoPanic == failed = {}

\* The pending events of frame f, in the engine's heap and in buffer queues.
Pending(f) ==
    {<<<<"agenda">>, i>> : i \in {j \in DOMAIN agenda : agenda[j].frame = f}}
        \cup UNION {{<<b, i>> : i \in {j \in DOMAIN queue[b] : queue[b][j].frame = f}} :
                        b \in Buffers}

\* Where packet p is stored.
Places(p) ==
    UNION {{<<b, i>> : i \in {j \in DOMAIN content[b] : content[b][j] = p}} :
                b \in Buffers}

\* From the time a message is sent until it is received, each of its packets is
\* in exactly one buffer, the one the packet points to, and has exactly one
\* pending event until it is assembled; a client that retries has one, too.
\* Nothing of a message is left behind when it has been received.
PacketsConserved ==
    phase = "ready" =>
    \A m \in Msgs :
        /\ \A p \in PacketsOf(m) :
            /\ {x[1] : x \in Places(p)} =
                    (IF status[m] = "sent" /\ nw.fix = 0 THEN {at[p]} ELSE {})
            /\ Cardinality(Places(p)) <= 1
            /\ Cardinality(Pending(p)) =
                    (IF status[m] = "sent" /\ p \notin assembled[m] THEN 1 ELSE 0)
        /\ Cardinality(Pending(<<m, 0>>)) =
                IF \/ status[m] = "trying"
                   \/ status[m] = "sent" /\ assembled[m] = PacketsOf(m)
                THEN 1 ELSE 0

\* An event sleeps in the queue of a buffer only as long as the reason it was
\* put there holds: its packet is behind another one in the buffer, or the
\* buffer has no room for the packet or the message.  No wakeup is lost.
SleepersBlocked ==
    \A b \in Buffers : \A i \in DOMAIN queue[b] :
        LET f == queue[b][i].frame
        IN  IF f[2] = 0 THEN ~ Fits(b, Required(f[1]))
            ELSE IF at[f] = b THEN ~ IsHead(f, b)
            ELSE ~ Fits(b, PacketSize(f[1]))

\* The network implements a reliable first-in first-out channel between every
\* pair of end nodes: a message is on its way from the moment TrySend succeeds
\* until Receive destroys it.
Flight(pair) ==
    SelectSeq(order, LAMBDA m : /\ status[m] = "sent"
                                /\ <<nw.msgs[m].src, nw.msgs[m].dst>> = pair)

Ch == INSTANCE Channel WITH
        Lanes <- NodeIds \X NodeIds, Messages <- MessageIds,
        flight <- [pair \in NodeIds \X NodeIds |-> Flight(pair)],
        used <- Range(order)

IsChannel == Ch!ChannelSpec

\* Every message that a client tries to send is received: the network always
\* comes back to a state where no message is under way.  (Messages are finitely
\* many, so this is the same for every single one of them.)
MessagesArrive ==
    []<>(phase = "ready" /\ \A m \in Msgs : status[m] \in {"idle", "received"})
=============================================================================
