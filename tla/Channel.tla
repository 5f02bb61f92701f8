------------------------------- MODULE Channel -------------------------------
(***************************************************************************)
(* A set of reliable first-in first-out lanes.  No message is lost,        *)
(* invented, delivered twice or overtaken by a later message of the same   *)
(* lane; messages of different lanes may overtake each other.  This is     *)
(* what the memory system may assume of a network, where every pair of end *)
(* nodes is a lane, and of a DRAM system, where every bank is one.         *)
(***************************************************************************)
EXTENDS Sequences

CONSTANTS Lanes, Messages

VARIABLES flight,     \* the messages under way in every lane, oldest first
          used        \* the messages that have been sent

ChannelInit ==
    /\ flight = [l \in Lanes |-> <<>>]
    /\ used = {}

Send(l, m) ==
    /\ m \notin used
    /\ used' = used \cup {m}
    /\ flight' = [flight EXCEPT ![l] = Append(@, m)]

Deliver(l) ==
    /\ UNCHANGED used
    /\ flight[l] # <<>>
    /\ flight' = [flight EXCEPT ![l] = Tail(@)]

ChannelNext ==
    \E l \in Lanes : Deliver(l) \/ \E m \in Messages : Send(l, m)

ChannelSpec == ChannelInit /\ [][ChannelNext]_<<flight, used>>
=============================================================================
