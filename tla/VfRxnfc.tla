-------------------------------- MODULE VfRxnfc --------------------------------
(***************************************************************************)
(* The RSS hash-field options and the private flags                        *)
(* (src/ixgbevf_ethtool.c): ixgbevf_set_rxnfc / ixgbevf_set_rss_hash_opt,  *)
(* ixgbevf_get_rxnfc / ixgbevf_get_rss_hash_opts, ixgbevf_set_priv_flags / *)
(* ixgbevf_get_priv_flags.  The adapter flags that matter here are the two *)
(* UDP RSS fields and LEGACY_RX; VFMRQC is the VF's RSS field register     *)
(* (X550 and later).  A request's data is the set of RXH_ bits it holds;   *)
(* "OTHER" stands for any bit outside the four the driver knows.           *)
(***************************************************************************)
EXTENDS Naturals, FiniteSets

CONSTANTS Flows   \* ethtool flow types tried

Fields == {"IP_SRC", "IP_DST", "L4_B_0_1", "L4_B_2_3"}
IP == {"IP_SRC", "IP_DST"}
L4 == {"L4_B_0_1", "L4_B_2_3"}
Datas == SUBSET (Fields \cup {"OTHER"})

\* The fields VFMRQC always hashes on, and the UDP field of each flag.
BaseMrqc == {"MRQC_IPV4", "MRQC_IPV4_TCP", "MRQC_IPV6", "MRQC_IPV6_TCP"}
UdpMrqc == [IPV4_UDP |-> "MRQC_IPV4_UDP", IPV6_UDP |-> "MRQC_IPV6_UDP"]

\* A flow never set, and a refused request: neither a set of fields nor
\* a set of flags.
NoData == {"unset"}
EINVAL == {"EINVAL"}

VARIABLES
  x550,         \* hw->mac.type >= ixgbe_mac_X550
  flags,        \* the adapter flags modelled, a subset of
                \* {"IPV4_UDP", "IPV6_UDP", "LEGACY_RX"}
  vfmrqc,       \* the fields set in VFMRQC
  running,      \* netif_running
  ringsLegacy,  \* the Rx mode the running queues were populated for
  asked         \* per flow, the data of the last accepted SRXFH, or NoData

vars == <<x550, flags, vfmrqc, running, ringsLegacy, asked>>

Init ==
  /\ x550 \in BOOLEAN
  /\ flags = {} /\ vfmrqc = BaseMrqc
  /\ running = FALSE /\ ringsLegacy = FALSE
  /\ asked = [f \in Flows |-> NoData]

-----------------------------------------------------------------------------
(* ixgbevf_set_rss_hash_opt *)

\* The flags a request leaves, or EINVAL: TCP must hash on all four
\* fields, UDP on both IPs and on both or neither port halves (which sets
\* or clears the flow's UDP flag), the IP-only flows on the IPs alone;
\* other flow types are refused.
HashOptFlags(flow, data, fl) ==
  LET udp(flag) == CASE data \cap L4 = {} -> fl \ {flag}
                     [] data \cap L4 = L4 -> fl \cup {flag}
                     [] OTHER -> EINVAL
  IN CASE "OTHER" \in data -> EINVAL
       [] flow \in {"TCP_V4", "TCP_V6"} -> IF data = Fields THEN fl ELSE EINVAL
       [] flow = "UDP_V4" -> IF IP \subseteq data THEN udp("IPV4_UDP") ELSE EINVAL
       [] flow = "UDP_V6" -> IF IP \subseteq data THEN udp("IPV6_UDP") ELSE EINVAL
       [] flow \in {"AH_ESP_V4", "AH_V4", "ESP_V4", "SCTP_V4",
                    "AH_ESP_V6", "AH_V6", "ESP_V6", "SCTP_V6"} ->
            IF data = IP THEN fl ELSE EINVAL
       [] OTHER -> EINVAL

\* VFMRQC as rewritten for flags fl: read, the base fields set, the UDP
\* fields cleared and set again from fl.
MrqcFor(old, fl) ==
  ((old \cup BaseMrqc) \ {UdpMrqc[u] : u \in DOMAIN UdpMrqc})
    \cup {UdpMrqc[u] : u \in fl \cap DOMAIN UdpMrqc}

\* Mutant of SetRssHashOpt: VFMRQC is computed from adapter->flags before
\* the new flags are stored.
SetRssHashOptStale(flow, data) ==
  LET fl == HashOptFlags(flow, data, flags)
  IN /\ x550 /\ fl # EINVAL
     /\ IF fl # flags THEN flags' = fl /\ vfmrqc' = MrqcFor(vfmrqc, flags)
                      ELSE UNCHANGED <<flags, vfmrqc>>
     /\ asked' = [asked EXCEPT ![flow] = data]
     /\ UNCHANGED <<x550, running, ringsLegacy>>

\* A MAC before X550 is -EOPNOTSUPP and a refused request -EINVAL, neither
\* changing anything (no step).  A changed flag set is stored and VFMRQC
\* rewritten.
SetRssHashOpt(flow, data) ==
  LET fl == HashOptFlags(flow, data, flags)
  IN /\ x550 /\ fl # EINVAL
     /\ IF fl # flags THEN flags' = fl /\ vfmrqc' = MrqcFor(vfmrqc, fl)
                      ELSE UNCHANGED <<flags, vfmrqc>>
     /\ asked' = [asked EXCEPT ![flow] = data]
     /\ UNCHANGED <<x550, running, ringsLegacy>>

\* ixgbevf_set_rxnfc: only ETHTOOL_SRXFH does anything.
SetRxnfc(cmd, flow, data) == cmd = "SRXFH" /\ SetRssHashOpt(flow, data)

\* Mutant of GetRssHashOpts: UDP_V6 tests the IPv4 UDP flag.
GetRssHashOptsV6Slip(flow) ==
  CASE flow \in {"TCP_V4", "TCP_V6"} -> Fields
    [] flow = "UDP_V4" -> IF "IPV4_UDP" \in flags THEN Fields ELSE IP
    [] flow = "UDP_V6" -> IF "IPV4_UDP" \in flags THEN Fields ELSE IP
    [] flow \in {"SCTP_V4", "AH_ESP_V4", "AH_V4", "ESP_V4", "IPV4",
                 "SCTP_V6", "AH_ESP_V6", "AH_V6", "ESP_V6", "IPV6"} -> IP
    [] OTHER -> EINVAL

\* ixgbevf_get_rss_hash_opts (ETHTOOL_GRXFH of get_rxnfc): the data
\* reported for a flow.  TCP falls through into UDP and both into the IP
\* flows.
GetRssHashOpts(flow) ==
  CASE flow \in {"TCP_V4", "TCP_V6"} -> Fields
    [] flow = "UDP_V4" -> IF "IPV4_UDP" \in flags THEN Fields ELSE IP
    [] flow = "UDP_V6" -> IF "IPV6_UDP" \in flags THEN Fields ELSE IP
    [] flow \in {"SCTP_V4", "AH_ESP_V4", "AH_V4", "ESP_V4", "IPV4",
                 "SCTP_V6", "AH_ESP_V6", "AH_V6", "ESP_V6", "IPV6"} -> IP
    [] OTHER -> EINVAL

-----------------------------------------------------------------------------
(* Private flags *)

\* ixgbevf_get_priv_flags.
GetPrivFlags == IF "LEGACY_RX" \in flags THEN {"LEGACY_RX"} ELSE {}

\* Mutant of PrivFlags: the ethtool priv-flag bit is set in adapter->flags
\* in place of IXGBEVF_FLAGS_LEGACY_RX.
PrivFlagsWrongBit(legacy) ==
  (flags \ {"LEGACY_RX"}) \cup (IF legacy THEN {"PRIV_LEGACY_RX"} ELSE {})

\* The flags after set_priv_flags: LEGACY_RX cleared, then set if asked.
PrivFlags(legacy) == (flags \ {"LEGACY_RX"}) \cup (IF legacy THEN {"LEGACY_RX"} ELSE {})

\* Mutant of SetPrivFlags: the change test is made after adapter->flags is
\* updated, so the queues are never repopulated.
SetPrivFlagsNoReinit(legacy) ==
  /\ PrivFlags(legacy) # flags
  /\ flags' = PrivFlags(legacy)
  /\ UNCHANGED <<x550, vfmrqc, running, ringsLegacy, asked>>

\* ixgbevf_set_priv_flags: a changed flag is stored and, on a running
\* interface, ixgbevf_reinit_locked repopulates the queues in that mode.
\* An unchanged flag does nothing (no step).
SetPrivFlags(legacy) ==
  /\ PrivFlags(legacy) # flags
  /\ flags' = PrivFlags(legacy)
  /\ IF running THEN ringsLegacy' = legacy ELSE UNCHANGED ringsLegacy
  /\ UNCHANGED <<x550, vfmrqc, running, asked>>

\* ndo_open: the queues are populated for the current mode and VFMRQC is
\* programmed from the flags (X550 and later).
Open ==
  /\ ~running
  /\ running' = TRUE /\ ringsLegacy' = ("LEGACY_RX" \in flags)
  /\ vfmrqc' = IF x550 THEN MrqcFor(vfmrqc, flags) ELSE vfmrqc
  /\ UNCHANGED <<x550, flags, asked>>

Close ==
  /\ running /\ running' = FALSE
  /\ UNCHANGED <<x550, flags, vfmrqc, ringsLegacy, asked>>

Next ==
  \/ \E cmd \in {"SRXFH", "SRXCLSRLINS"}, flow \in Flows, data \in Datas :
       SetRxnfc(cmd, flow, data)
  \/ \E legacy \in BOOLEAN : SetPrivFlags(legacy)
  \/ Open \/ Close

Spec == Init /\ [][Next]_vars

-----------------------------------------------------------------------------
(* Properties. *)

\* The adapter flags hold only the driver flags set_rss_hash_opt and
\* set_priv_flags own, and VFMRQC only RSS field bits.
RxnfcTypeOK ==
  /\ x550 \in BOOLEAN /\ running \in BOOLEAN /\ ringsLegacy \in BOOLEAN
  /\ flags \subseteq {"IPV4_UDP", "IPV6_UDP", "LEGACY_RX"}
  /\ vfmrqc \subseteq BaseMrqc \cup {UdpMrqc[u] : u \in DOMAIN UdpMrqc}
  /\ asked \in [Flows -> Datas \cup {NoData}]

\* ETHTOOL_GRXFH reports, for every flow, exactly the fields the last
\* accepted ETHTOOL_SRXFH for that flow asked for, whatever was set for
\* the other flows since.
HashOptsRoundTrip ==
  \A f \in Flows : asked[f] # NoData => GetRssHashOpts(f) = asked[f]

\* On X550, VFMRQC hashes on the IPv4/IPv6 and TCP fields and on the UDP
\* field of a family exactly when the adapter flag for it is set.
MrqcMatchesFlags ==
  x550 =>
    /\ BaseMrqc \subseteq vfmrqc
    /\ \A u \in DOMAIN UdpMrqc : UdpMrqc[u] \in vfmrqc <=> u \in flags

\* The queues of a running interface are populated in the Rx mode
\* get_priv_flags reports.
LegacyRxApplied ==
  running => (ringsLegacy <=> GetPrivFlags = {"LEGACY_RX"})
====
