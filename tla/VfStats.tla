-------------------------------- MODULE VfStats --------------------------------
(***************************************************************************)
(* The ethtool statistics layout of src/ixgbevf_ethtool.c: the count       *)
(* get_sset_count(ETH_SS_STATS) returns (IXGBEVF_STATS_LEN), the names     *)
(* get_strings(ETH_SS_STATS) writes and the values get_ethtool_stats       *)
(* writes.  The ethtool core sizes both buffers from the count, then fills *)
(* them with the other two calls, under one rtnl_lock hold.                *)
(*                                                                         *)
(* An entry is abstracted to the statistic it is about: a global counter   *)
(* of ixgbe_gstrings_stats[], or <<ring kind, queue, field>>.  A value     *)
(* read from a ring that is not there is Zero.  A name's text is not       *)
(* modelled, only which statistic it names.                                *)
(***************************************************************************)
EXTENDS Naturals, Sequences
LOCAL INSTANCE SequencesExt

\* ixgbe_gstrings_stats[]: the netdev and adapter counters, in table order.
GStats == <<"rx_packets", "tx_packets", "rx_bytes", "tx_bytes", "tx_busy",
            "tx_restart_queue", "tx_timeout_count", "multicast",
            "rx_csum_offload_errors", "alloc_rx_page", "alloc_rx_page_failed",
            "alloc_rx_buff_failed">>

\* The fields of struct ixgbevf_stats (ixgbevf.h, outside this repository):
\* packets and bytes, and the three busy-poll counters in builds that
\* define BP_EXTENDED_STATS.
StatFields(bp) ==
  IF bp THEN <<"packets", "bytes", "yields", "misses", "cleaned">>
        ELSE <<"packets", "bytes">>

\* The fields the Tx and Rx loops report, and the two the XDP loop reports.
RingFields(kind, bp) == IF kind = "xdp" THEN <<"packets", "bytes">> ELSE StatFields(bp)

Global(k) == [kind |-> "global", q |-> 0, f |-> GStats[k]]
QStat(kind, q, f) == [kind |-> kind, q |-> q, f |-> f]

\* The constant 0 written for a statistic that is not read.
Zero == [kind |-> "none", q |-> 0, f |-> "zero"]

\* Mutant of StatsLen: the XDP queues left out of the count.
StatsLenNoXdp(nq, bp) ==
  Len(GStats) + (nq.tx + nq.rx) * Len(StatFields(bp))

\* IXGBEVF_STATS_LEN: the global table, plus sizeof(struct ixgbevf_stats)
\* / sizeof(u64) per Tx, XDP and Rx queue.
StatsLen(nq, bp) ==
  Len(GStats) + (nq.tx + nq.xdp + nq.rx) * Len(StatFields(bp))

\* The names get_strings writes for queue q of one loop.
QueueNames(kind, bp, q) ==
  [k \in DOMAIN RingFields(kind, bp) |-> QStat(kind, q, RingFields(kind, bp)[k])]

\* The values get_ethtool_stats writes for queue q of one loop: its ring's
\* counters, or as many zeros when adapter->xx_ring[q] is NULL; `null`
\* gives, per kind, the queues whose ring pointer is NULL.
QueueValues(kind, bp, null, q) ==
  IF q \in null[kind]
    THEN [k \in DOMAIN RingFields(kind, bp) |-> Zero]
    ELSE QueueNames(kind, bp, q)

\* One loop "for (j = 0; j < n; j++)" over the queues of a kind.
NamesLoop(kind, n, bp) == FlattenSeq([j \in 1..n |-> QueueNames(kind, bp, j - 1)])
ValuesLoop(kind, n, bp, null) ==
  FlattenSeq([j \in 1..n |-> QueueValues(kind, bp, null, j - 1)])

GlobalEntries == [k \in DOMAIN GStats |-> Global(k)]

\* Mutant of GetStrings: the Rx names written before the XDP names.
GetStringsRxFirst(nq, bp) ==
  GlobalEntries \o NamesLoop("tx", nq.tx, bp) \o NamesLoop("rx", nq.rx, bp)
    \o NamesLoop("xdp", nq.xdp, bp)

\* get_strings(ETH_SS_STATS): the table's names, then per Tx queue, per
\* XDP queue and per Rx queue the names of the fields its loop reports.
GetStrings(nq, bp) ==
  GlobalEntries \o NamesLoop("tx", nq.tx, bp) \o NamesLoop("xdp", nq.xdp, bp)
    \o NamesLoop("rx", nq.rx, bp)

\* get_ethtool_stats: the table's counters (both of its types are read
\* through their offset, so entry i is the counter name i names), then the
\* three ring loops in the order get_strings writes them.
GetEthtoolStats(nq, bp, null) ==
  GlobalEntries \o ValuesLoop("tx", nq.tx, bp, null)
    \o ValuesLoop("xdp", nq.xdp, bp, null) \o ValuesLoop("rx", nq.rx, bp, null)

====
