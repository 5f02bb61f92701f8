---------------------------- MODULE RoutingTable ----------------------------
(***************************************************************************)
(* The configuration of a network's routes (network/RoutingTable.cc and    *)
(* Network::ParseConfiguration): the table is initialised with the one-hop *)
(* connections, completed by Floyd-Warshall or, when the configuration has *)
(* a Routes section, by the route steps listed there, and then searched    *)
(* for cycles by the depth-first traversal of lib/cpp/Graph.               *)
(*                                                                         *)
(* A network nw is a record:                                               *)
(*   nodes   1 .. n, the node indices                                      *)
(*   ends    the end nodes; the other nodes are switches                   *)
(*   conns   the connections.  A link has the same source and the same     *)
(*           destination node in every virtual channel; a bus has one      *)
(*           buffer for every port.  src[i] is the node that owns the i-th *)
(*           source buffer, dst[i] the node of the i-th destination buffer *)
(*   manual  whether there is a Routes section, and steps its route steps  *)
(* The output buffers of a node are ordered as they were created: by       *)
(* connection, links before buses, and by index in the connection.         *)
(***************************************************************************)
EXTENDS Naturals, Sequences, FiniteSets, SequencesExt

CONSTANT Nets        \* the networks to configure

VARIABLES nw, phase, table, steps, walk, dfs, warned, failed

routingVars == <<nw, phase, table, steps, walk, dfs, warned, failed>>

Null == 0            \* a null node pointer
NoBuffer == <<>>     \* a null buffer pointer

(***************************************************************************)
(* Buffers are <<"out", connection, index>> or <<"in", connection, index>>.*)
(***************************************************************************)
OutBuffers(n) ==
    UNION {{<<"out", c, i>> : i \in DOMAIN n.conns[c].src} : c \in DOMAIN n.conns}
InBuffers(n) ==
    UNION {{<<"in", c, i>> : i \in DOMAIN n.conns[c].dst} : c \in DOMAIN n.conns}
Conn(n, b) == n.conns[b[2]]
BufferNode(n, b) == IF b[1] = "out" THEN Conn(n, b).src[b[3]]
                                    ELSE Conn(n, b).dst[b[3]]
OutBuffersOf(n, i) == {b \in OutBuffers(n) : BufferNode(n, b) = i}
Leads(n, b, j) == j \in Range(Conn(n, b).dst)

Before(b, d) == b[2] < d[2] \/ (b[2] = d[2] /\ b[3] < d[3])
FirstBuffer(bs) == CHOOSE b \in bs : \A d \in bs \ {b} : Before(b, d)
LastBuffer(bs) == CHOOSE b \in bs : \A d \in bs \ {b} : Before(d, b)

(***************************************************************************)
(* RoutingTable::Initialize.  The cost of an unknown route is the number   *)
(* of nodes; of several buffers that lead to a neighbour the last one is   *)
(* kept.                                                                   *)
(***************************************************************************)
Dimension(n) == Cardinality(n.nodes)

OneHop(n, i, j) ==
    LET via == {b \in OutBuffersOf(n, i) : Leads(n, b, j)}
    IN  IF i # j /\ via # {}
        THEN [cost |-> 1, next |-> j, buffer |-> LastBuffer(via)]
        ELSE [cost |-> IF i = j THEN 0 ELSE Dimension(n),
              next |-> Null, buffer |-> NoBuffer]

InitialTable(n) == [i \in n.nodes |-> [j \in n.nodes |-> OneHop(n, i, j)]]

(***************************************************************************)
(* RoutingTable::FloydWarshall, first part: one round of the costs, with   *)
(* an intermediate node of every route that is not a single hop.  The      *)
(* entries of row k and column k do not change in round k, so the order of *)
(* the two inner loops does not matter.                                    *)
(***************************************************************************)
\* Mutant: a route that is no shorter replaces the one found before.
RelaxedTies(t, i, j, k) ==
    LET through == t[i][k].cost + t[k][j].cost
    IN  IF t[i][j].cost >= through
        THEN [cost |-> through, next |-> k, buffer |-> t[i][j].buffer]
        ELSE t[i][j]

Relaxed(t, i, j, k) ==
    LET through == t[i][k].cost + t[k][j].cost
    IN  IF t[i][j].cost > through
        THEN [cost |-> through, next |-> k, buffer |-> t[i][j].buffer]
        ELSE t[i][j]

RelaxAll(n, t, k) ==
    [i \in n.nodes |-> [j \in n.nodes |-> Relaxed(t, i, j, k)]]

(***************************************************************************)
(* Second part: the intermediate nodes are followed back to the immediate  *)
(* next hop, and the first output buffer that leads there is the route's.  *)
(***************************************************************************)
NextHopNotFollowed(n, t, i, j) == t[i][j].next     \* mutant

NextHop(n, t, i, j) ==
    LET hop[x \in 0 .. Dimension(n)] ==
            IF x = 0 THEN t[i][j].next
            ELSE LET h == hop[x - 1]
                 IN  IF t[i][h].cost <= 1 THEN h ELSE t[i][h].next
    IN  hop[Dimension(n)]

SetHop(n, t, i, j) ==
    LET h == NextHop(n, t, i, j)
        via == {b \in OutBuffersOf(n, i) : Leads(n, b, h)}
    IN  IF t[i][j].next = Null THEN [t EXCEPT ![i][j].buffer = NoBuffer]
        ELSE IF via = {} THEN t
        ELSE [t EXCEPT ![i][j].next = h, ![i][j].buffer = FirstBuffer(via)]

\* The entries of the table in the order of the code's loops.
Pairs(n) ==
    LET d == Dimension(n)
    IN  [x \in 1 .. d * d |-> <<((x - 1) \div d) + 1, ((x - 1) % d) + 1>>]

(***************************************************************************)
(* RoutingTable::UpdateRoute for the route step [from, to, next, vc]: the  *)
(* connections of the source node are tried in their order.  A bus refuses *)
(* a virtual channel wherever it leads.  On a bus the entry is given the   *)
(* buffer at the far end, where the code reads Output buffer.              *)
(***************************************************************************)
Tried(n, r) ==
    {c \in DOMAIN n.conns :
        /\ r.from \in Range(n.conns[c].src)
        /\ \/ r.next \in Range(n.conns[c].dst)
           \/ ~ n.conns[c].link /\ r.vc # 0}

RouteBuffer(n, r, c) ==
    IF n.conns[c].link THEN <<"out", c, r.vc + 1>>
    ELSE FirstBuffer({b \in InBuffers(n) : b[2] = c /\ BufferNode(n, b) = r.next})

RouteRefused(n, r) ==
    \/ r.from = r.to
    \/ Tried(n, r) = {}
    \/ LET c == CHOOSE c \in Tried(n, r) : \A d \in Tried(n, r) : c <= d
       IN  IF n.conns[c].link THEN r.vc >= Len(n.conns[c].src) ELSE r.vc # 0

Routed(n, t, r) ==
    LET c == CHOOSE c \in Tried(n, r) : \A d \in Tried(n, r) : c <= d
    IN  [t EXCEPT ![r.from][r.to].next = r.next,
                  ![r.from][r.to].buffer = RouteBuffer(n, r, c)]

(***************************************************************************)
(* The graph of RoutingTable::hasCycle: its vertices are the output        *)
(* buffers that the table uses, and an edge leads from the buffer of a     *)
(* route to the buffer of the same route at the next node.                 *)
(***************************************************************************)
Vertices(n, t) ==
    {b \in OutBuffers(n) : \E j \in n.nodes : t[BufferNode(n, b)][j].buffer = b}

Edges(n, t) ==
    {<<t[r[1]][r[2]].buffer, t[t[r[1]][r[2]].next][r[2]].buffer>> :
        r \in {ij \in n.nodes \X n.nodes :
            /\ ij[1] # ij[2]
            /\ t[ij[1]][ij[2]].buffer # NoBuffer
            /\ t[t[ij[1]][ij[2]].next][ij[2]].buffer # NoBuffer}}

Successors(n, t, v) == {e[2] : e \in {d \in Edges(n, t) : d[1] = v}}
-----------------------------------------------------------------------------
(***************************************************************************)
(* Actions.  phase is the point that Network::ParseConfiguration has       *)
(* reached; an error of the configuration ends the program.                *)
(***************************************************************************)
NoWalk == [at |-> 1, next |-> Null]
NoSearch == [visited |-> {}, stack |-> <<>>]

RoutingInit ==
    /\ nw \in Nets
    /\ phase = "start"
    /\ table = InitialTable(nw)
    /\ steps = nw.steps
    /\ walk = NoWalk
    /\ dfs = NoSearch
    /\ warned = FALSE
    /\ failed = {}

Fail(why) == failed' = failed \cup {why} /\ phase' = "error"

\* RoutingTable::FloydWarshall, without a Routes section: a round of the outer
\* loop, and then the next hop of one entry after the other.
FloydWarshallCosts ==
    /\ phase = "start"
    /\ ~ nw.manual
    /\ table' = RelaxAll(nw, table, walk.at)
    /\ IF walk.at = Dimension(nw)
       THEN phase' = "hops" /\ walk' = NoWalk
       ELSE walk' = [walk EXCEPT !.at = @ + 1] /\ UNCHANGED phase
    /\ UNCHANGED <<nw, steps, dfs, warned, failed>>

\* One route step of the Routes section.
UpdateRoute ==
    /\ phase = "start"
    /\ nw.manual
    /\ steps # <<>>
    /\ steps' = Tail(steps)
    /\ \/ /\ RouteRefused(nw, Head(steps))
          /\ Fail("route_refused")
          /\ UNCHANGED table
       \/ /\ ~ RouteRefused(nw, Head(steps))
          /\ table' = Routed(nw, table, Head(steps))
          /\ UNCHANGED <<phase, failed>>
    /\ UNCHANGED <<nw, walk, dfs, warned>>

(***************************************************************************)
(* RoutingTable::UpdateManualRoutingCost: the entries are visited in order *)
(* and the route of each one is followed to its end.  walk.at counts the   *)
(* entries; walk.next is the node reached on the route of this one.        *)
(***************************************************************************)
Source == Pairs(nw)[walk.at][1]
Destination == Pairs(nw)[walk.at][2]

NextEntry ==
    IF walk.at = Dimension(nw) * Dimension(nw)
    THEN phase' = "search" /\ walk' = NoWalk
    ELSE walk' = [at |-> walk.at + 1, next |-> Null] /\ UNCHANGED phase

FloydWarshallHops ==
    /\ phase = "hops"
    /\ table' = SetHop(nw, table, Source, Destination)
    /\ NextEntry
    /\ UNCHANGED <<nw, steps, dfs, warned, failed>>

CostStart ==
    /\ phase = "start"
    /\ nw.manual
    /\ steps = <<>>
    /\ phase' = "cost"
    /\ UNCHANGED <<nw, table, steps, walk, dfs, warned, failed>>

UpdateCost ==
    /\ phase = "cost"
    /\ LET first == table[Source][Destination].next
           onward == table[walk.next][Destination].next
       IN  \/ /\ walk.next = Null /\ first = Null
              /\ NextEntry
              /\ UNCHANGED table
           \/ /\ walk.next = Null /\ first # Null
              /\ table' = [table EXCEPT ![Source][Destination].cost =
                                            table[Source][first].cost]
              /\ walk' = [walk EXCEPT !.next = first]
              /\ UNCHANGED phase
           \/ /\ walk.next # Null
              /\ walk.next = Destination \/ onward = Null
              /\ NextEntry
              /\ UNCHANGED table
           \/ /\ walk.next # Null /\ walk.next # Destination /\ onward # Null
              /\ table' = [table EXCEPT ![Source][Destination].cost =
                                            @ + table[walk.next][onward].cost]
              /\ walk' = [walk EXCEPT !.next = onward]
              /\ UNCHANGED phase
    /\ UNCHANGED <<nw, steps, dfs, warned, failed>>

(***************************************************************************)
(* Graph::hasCycle and CycleDetectionDepthFirstTraverse.  The stack holds  *)
(* the vertices being traversed, each with the successors still to try.    *)
(***************************************************************************)
Found == phase' = "ready" /\ warned' = TRUE /\ dfs' = NoSearch

Visit(v) ==
    dfs' = [visited |-> dfs.visited \cup {v},
            stack |-> Append(dfs.stack,
                             [vertex |-> v, todo |-> Successors(nw, table, v)])]

StackTop == {Last(dfs.stack).vertex}     \* mutant: only loops of length one
Stacked == {dfs.stack[i].vertex : i \in DOMAIN dfs.stack}

Search ==
    /\ phase = "search"
    /\ \/ /\ dfs.stack = <<>>
          /\ \E e \in Edges(nw, table) : ~ {e[1], e[2]} \subseteq Vertices(nw, table)
          /\ Fail("no_vertex")
          /\ UNCHANGED <<dfs, warned>>
       \/ /\ dfs.stack = <<>>
          /\ \A e \in Edges(nw, table) : {e[1], e[2]} \subseteq Vertices(nw, table)
          /\ LET left == Vertices(nw, table) \ dfs.visited
             IN  IF left = {}
                 THEN phase' = "ready" /\ dfs' = NoSearch
                 ELSE Visit(FirstBuffer(left)) /\ UNCHANGED phase
          /\ UNCHANGED <<warned, failed>>
       \/ /\ dfs.stack # <<>>
          /\ Last(dfs.stack).todo = {}
          /\ dfs' = [dfs EXCEPT !.stack = Front(@)]
          /\ UNCHANGED <<phase, warned, failed>>
       \/ /\ dfs.stack # <<>>
          /\ Last(dfs.stack).todo # {}
          /\ LET v == FirstBuffer(Last(dfs.stack).todo)
                 rest == [dfs EXCEPT !.stack[Len(dfs.stack)].todo = @ \ {v}]
             IN  CASE v \in Stacked -> Found
                   [] v \in dfs.visited \ Stacked ->
                        dfs' = rest /\ UNCHANGED <<phase, warned>>
                   [] OTHER ->
                        /\ dfs' = [visited |-> dfs.visited \cup {v},
                                   stack |-> Append(rest.stack,
                                        [vertex |-> v,
                                         todo |-> Successors(nw, table, v)])]
                        /\ UNCHANGED <<phase, warned>>
          /\ UNCHANGED failed
    /\ UNCHANGED <<nw, table, steps, walk>>

RoutingNext ==
    FloydWarshallCosts \/ FloydWarshallHops \/ UpdateRoute \/ CostStart \/ UpdateCost \/ Search
-----------------------------------------------------------------------------
(***************************************************************************)
(* Properties of the finished table.                                       *)
(***************************************************************************)
\* The nodes that can be reached from i in at most x hops.
Reached(n, i) ==
    LET within[x \in 0 .. Dimension(n)] ==
            IF x = 0 THEN {i}
            ELSE LET w == within[x - 1]
                 IN  w \cup UNION {Range(Conn(n, b).dst) :
                        b \in {d \in OutBuffers(n) : BufferNode(n, d) \in w}}
    IN  within

\* The route from i to j as the table gives it, node by node; it ends where
\* the table has no next node, or after as many hops as there are nodes.
Path(n, t, i, j) ==
    LET node[x \in 0 .. Dimension(n)] ==
            IF x = 0 THEN i
            ELSE LET k == node[x - 1]
                 IN  IF k = j \/ t[k][j].next = Null THEN k ELSE t[k][j].next
    IN  node

Shortest(n, t) ==
    \A i, j \in n.nodes :
        LET within == Reached(n, i)
            e == t[i][j]
        IN  IF j \notin within[Dimension(n)]
            THEN e.next = Null /\ e.buffer = NoBuffer
            ELSE /\ j \in within[e.cost]
                 /\ \A x \in 0 .. e.cost - 1 : j \notin within[x]
                 /\ Path(n, t, i, j)[e.cost] = j
                 /\ i # j => /\ BufferNode(n, e.buffer) = i
                             /\ Leads(n, e.buffer, e.next)

\* Without a Routes section, the finished table leads from every node to every
\* node that can be reached, in as many hops as the cost says, which is the
\* least number of hops; the buffer of each entry belongs to the node and leads
\* to the next one.
RoutesShortest ==
    [][phase = "hops" /\ phase' = "search" => Shortest(nw, table')]_routingVars

\* The buffers that a packet from one end node to another holds one after
\* the other.
Dependencies(n, t) ==
    LET hops == UNION {{<<Path(n, t, r[1], r[2])[x], r[2]>> : x \in 0 .. Dimension(n)} :
                            r \in {ij \in n.ends \X n.ends : ij[1] # ij[2]}}
    IN  {<<t[h[1]][h[2]].buffer, t[t[h[1]][h[2]].next][h[2]].buffer>> :
            h \in {g \in hops : /\ t[g[1]][g[2]].buffer # NoBuffer
                                /\ t[t[g[1]][g[2]].next][g[2]].buffer # NoBuffer}}

\* A relation has a cycle when some set of elements is never left.
Cyclic(r) ==
    \E s \in SUBSET {e[1] : e \in r} :
        s # {} /\ \A v \in s : \E w \in s : <<v, w>> \in r

\* The warning of ParseConfiguration is given when packets of end nodes could
\* wait for each other's buffers in a circle, and only when the table has one.
CycleWarned ==
    [][phase # "ready" /\ phase' = "ready" =>
        /\ Cyclic(Dependencies(nw, table)) => warned'
        /\ warned' => Cyclic(Edges(nw, table))]_routingVars
=============================================================================
