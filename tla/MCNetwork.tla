----------------------------- MODULE MCNetwork ------------------------------
(***************************************************************************)
(* Networks for TLC.  Nodes are numbered, the end nodes first.  The        *)
(* messages of a pair of nodes are either all received automatically or    *)
(* all by an event of the client, which Receive calls a little later.      *)
(***************************************************************************)
EXTENDS Network

CONSTANTS MaxEnds, MaxMessages

MCNodeIds == 1 .. MaxEnds
MCMessageIds == 1 .. MaxMessages

\* A unidirectional link with vcs virtual channels, and a bus.
LinkWith(a, b, vcs) ==
    [link |-> TRUE, src |-> [v \in 1 .. vcs |-> a], dst |-> [v \in 1 .. vcs |-> b]]
Both(a, b) == <<LinkWith(a, b, 1), LinkWith(b, a, 1)>>
BusOf(s) == [link |-> FALSE, src |-> s, dst |-> s]

Message(src, dst, size, auto) ==
    [src |-> src, dst |-> dst, size |-> size, auto |-> auto]
Route(from, to, next, vc) == [from |-> from, to |-> to, next |-> next, vc |-> vc]

Base == [nodes |-> 1 .. 3, ends |-> 1 .. 2, conns |-> <<>>, manual |-> FALSE,
         steps |-> <<>>, msgs |-> <<>>, packet |-> 1, room |-> 2,
         bandwidth |-> 1, crossbar |-> 1, lanes |-> 1, fix |-> 0]

\* Three end nodes around a switch; two of them send to the third.
Star == [Base EXCEPT !.nodes = 1 .. 4, !.ends = 1 .. 3,
            !.conns = Both(1, 4) \o Both(2, 4) \o Both(3, 4),
            !.msgs = <<Message(1, 3, 1, TRUE), Message(2, 3, 1, FALSE),
                       Message(1, 3, 1, TRUE)>>]

\* The same with buffers for one packet, and links slower than the switch.
TightStar == [Star EXCEPT !.packet = 2, !.room = 2, !.crossbar = 2,
                !.msgs = <<Message(1, 3, 2, FALSE), Message(2, 3, 2, FALSE),
                           Message(1, 3, 1, FALSE)>>]

\* Messages of three and of two packets through two switches.
Line == [Base EXCEPT !.nodes = 1 .. 4,
            !.conns = Both(1, 3) \o Both(3, 4) \o Both(4, 2),
            !.room = 6, !.packet = 2,
            !.msgs = <<Message(1, 2, 5, FALSE), Message(1, 2, 4, FALSE),
                       Message(2, 1, 2, TRUE)>>]

\* Three end nodes on a bus with one and with two lanes.
OneLane == [Base EXCEPT !.ends = 1 .. 3, !.conns = <<BusOf(<<1, 2, 3>>)>>,
            !.packet = 0, !.room = 3,
            !.msgs = <<Message(1, 3, 2, TRUE), Message(2, 3, 3, FALSE),
                       Message(1, 2, 1, TRUE)>>]
TwoLanes == [OneLane EXCEPT !.lanes = 2]

\* A link with two virtual channels, one for each destination.
Channels == [Base EXCEPT !.nodes = 1 .. 4, !.ends = 1 .. 3, !.manual = TRUE,
            !.conns = <<LinkWith(1, 4, 2), LinkWith(4, 1, 1)>>
                        \o Both(2, 4) \o Both(3, 4),
            !.steps = <<Route(1, 4, 4, 0), Route(4, 1, 1, 0), Route(2, 4, 4, 0),
                        Route(3, 4, 4, 0), Route(1, 2, 4, 0), Route(1, 3, 4, 1),
                        Route(2, 1, 4, 0), Route(4, 2, 2, 0), Route(4, 3, 3, 0)>>,
            !.room = 1,
            !.msgs = <<Message(1, 2, 1, FALSE), Message(1, 3, 1, TRUE),
                       Message(1, 2, 1, FALSE)>>]

\* A bus between two links.
Mixed == [Base EXCEPT !.nodes = 1 .. 4,
            !.conns = Both(1, 3) \o Both(2, 4) \o <<BusOf(<<3, 4>>)>>,
            !.msgs = <<Message(1, 2, 2, TRUE), Message(2, 1, 1, FALSE),
                       Message(1, 2, 1, TRUE)>>]

\* Messages that go around the network.
Fixed == [Line EXCEPT !.fix = 2]

\* Topologies that are only configured: every set of links between switches
\* and one end node at each of the first two switches.
SwitchPairs == {<<3, 4>>, <<4, 3>>, <<4, 5>>, <<5, 4>>, <<5, 3>>, <<3, 5>>}
Links(s) == LET q == SetToSeq(s)
            IN  [i \in DOMAIN q |-> LinkWith(q[i][1], q[i][2], 1)]
Topology(s) == [Base EXCEPT !.nodes = 1 .. 5,
                    !.conns = Both(1, 3) \o Both(2, 4) \o Links(s)]

\* A ring of four switches with an end node each, one way around.
Ring == [Base EXCEPT !.nodes = 1 .. 8, !.ends = 1 .. 4,
            !.conns = Both(1, 5) \o Both(2, 6) \o Both(3, 7) \o Both(4, 8)
                        \o Links({<<5, 6>>, <<6, 7>>, <<7, 8>>, <<8, 5>>})]

Traffic == {Star, TightStar, Line, OneLane, TwoLanes, Channels, Mixed, Fixed}
Topologies == {Topology(s) : s \in SUBSET SwitchPairs}
MCNets == Traffic \cup Topologies \cup {Ring}
=============================================================================
