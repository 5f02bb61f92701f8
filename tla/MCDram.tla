------------------------------- MODULE MCDram -------------------------------
(***************************************************************************)
(* DRAM systems for TLC.                                                   *)
(***************************************************************************)
EXTENDS Dram

\* Short timings that keep the order of the defaults.
Timings ==
    [rc |-> 4, rrd |-> 2, rp |-> 1, ccd |-> 1, rtrs |-> 1, cwd |-> 1, wtr |-> 1,
     cas |-> 2, rcd |-> 1, ost |-> 1, ras |-> 3, wr |-> 1, rtp |-> 2, burst |-> 2]

Access(addresses) == [type : {"read", "write"}, address : addresses]

\* One channel of two ranks of two banks of two rows.  Locations are alike up to
\* their order, so that the first request is to the first row of the first bank
\* and the second to the same row, another row, another bank or another rank.
Base == [controllers |-> 1, channels |-> 1, ranks |-> 2, banks |-> 2, rows |-> 2,
         columns |-> 1, closed |-> FALSE, roundrobin |-> FALSE, t |-> Timings,
         work |-> <<Access({0}), Access({0, 1, 2, 4}), Access({1, 4})>>]

\* Two controllers of two channels of one bank each.
Wide == [Base EXCEPT !.controllers = 2, !.channels = 2, !.ranks = 1, !.banks = 1,
                     !.work = <<Access({0}), Access({0, 2, 4}), Access({1, 2, 4})>>]

MCConfigs == {[Base EXCEPT !.closed = c, !.roundrobin = r] : c, r \in BOOLEAN} \cup {Wide}
MCRequestIds == 1 .. 3
MCBankIds == (0 .. 1) \X (0 .. 1) \X (0 .. 1) \X (0 .. 1)
=============================================================================
