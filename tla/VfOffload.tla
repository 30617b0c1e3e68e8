------------------------------- MODULE VfOffload -------------------------------
(***************************************************************************)
(* The offload setters of src/ixgbevf_ethtool.c built on kernels without   *)
(* ndo_set_features: ixgbevf_set_rx_csum (the adapter flag, applied by a   *)
(* reinit of a running interface), ixgbevf_set_tx_csum and ixgbevf_set_tso *)
(* (netdev feature bits; turning TSO off also strips it from every VLAN    *)
(* device of adapter->vlgrp, the path without HAVE_NETDEV_VLAN_FEATURES).  *)
(* Their getters read the same bits back.  Open, close and                *)
(* adapter->dev_closed belong to the driver core outside this repository.  *)
(***************************************************************************)
CONSTANTS
  VlanSlots     \* the VLAN ids of the group that may hold a device

Features == {"IP_CSUM", "IPV6_CSUM", "TSO", "TSO6"}
CsumBits == {"IP_CSUM", "IPV6_CSUM"}
TsoBits == {"TSO", "TSO6"}

VARIABLES
  rxCsum,       \* IXGBE_FLAG_RX_CSUM_ENABLED in adapter->flags
  features,     \* netdev->features, the offload bits
  vlans,        \* i |-> vlan_group_get_device(vlgrp, i)->features, for the
                \* slots that hold a device
  running,      \* netif_running(netdev)
  devClosed,    \* adapter->dev_closed
  hwCsum        \* the Rx checksum setting the running queues were set up with

offVars == <<rxCsum, features, vlans, running, devClosed, hwCsum>>

\* A VLAN device is created with the real device's offloads, or not at all.
Init ==
  /\ rxCsum \in BOOLEAN /\ features \in SUBSET Features
  /\ \E present \in SUBSET VlanSlots : vlans = [i \in present |-> features]
  /\ running \in BOOLEAN /\ devClosed \in BOOLEAN
  /\ hwCsum = rxCsum

\* ixgbevf_reinit_locked (down + up) sets the queues up from the flags;
\* ixgbevf_reset of a stopped interface leaves no queues running.
Reinit == hwCsum' = rxCsum'

\* Mutant of SetRxCsum: the flag is changed but the queues are not
\* reinitialised.
SetRxCsumNoReinit(data) ==
  /\ rxCsum' = data
  /\ UNCHANGED <<features, vlans, running, devClosed, hwCsum>>

\* ixgbevf_set_rx_csum: set or clear the flag; reinit a running interface
\* unless dev_closed, reset a stopped one.
SetRxCsum(data) ==
  /\ rxCsum' = data
  /\ IF running /\ ~devClosed THEN Reinit ELSE UNCHANGED hwCsum
  /\ UNCHANGED <<features, vlans, running, devClosed>>

\* ixgbevf_set_tx_csum: IP and IPv6 checksum offload together.
SetTxCsum(data) ==
  /\ features' = IF data THEN features \cup CsumBits ELSE features \ CsumBits
  /\ UNCHANGED <<rxCsum, vlans, running, devClosed, hwCsum>>

\* Mutant of SetTso: the VLAN devices keep their TSO bits.
SetTsoNoVlans(data) ==
  /\ features' = IF data THEN features \cup TsoBits ELSE features \ TsoBits
  /\ UNCHANGED <<rxCsum, vlans, running, devClosed, hwCsum>>

\* ixgbevf_set_tso: turning TSO on touches the real device only; turning it
\* off (with the Tx queues stopped around it) also clears TSO and TSO6 on
\* every VLAN device present in the group.
SetTso(data) ==
  /\ features' = IF data THEN features \cup TsoBits ELSE features \ TsoBits
  /\ vlans' = IF data THEN vlans
              ELSE [i \in DOMAIN vlans |-> vlans[i] \ TsoBits]
  /\ UNCHANGED <<rxCsum, running, devClosed, hwCsum>>

\* The driver core: ixgbevf_open sets the queues up from the flags,
\* ixgbevf_close takes them down; a VLAN device registered on the real
\* device takes its features.
Open ==
  /\ ~running /\ running' = TRUE /\ hwCsum' = rxCsum
  /\ UNCHANGED <<rxCsum, features, vlans, devClosed>>

Close ==
  /\ running /\ running' = FALSE
  /\ UNCHANGED <<rxCsum, features, vlans, devClosed, hwCsum>>

AddVlan ==
  /\ \E i \in VlanSlots \ DOMAIN vlans :
        vlans' = [j \in DOMAIN vlans \cup {i} |-> IF j = i THEN features ELSE vlans[j]]
  /\ UNCHANGED <<rxCsum, features, running, devClosed, hwCsum>>

OffNext ==
  \/ \E d \in BOOLEAN : SetRxCsum(d) \/ SetTxCsum(d) \/ SetTso(d)
  \/ Open \/ Close \/ AddVlan

-----------------------------------------------------------------------------
(* Properties. *)

\* The queues of a running interface check Rx checksums exactly when
\* get_rx_csum says so, across set_rx_csum, close and open, unless the
\* driver core marked the device closed.
RxCsumApplied == running /\ ~devClosed => hwCsum = rxCsum

\* No VLAN device segments (TSO or TSO6) while the real device under it has
\* that offload off: set_tso strips it from the whole group.
VlanTsoWithinReal ==
  \A i \in DOMAIN vlans : vlans[i] \cap TsoBits \subseteq features
====
