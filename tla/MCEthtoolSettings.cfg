\* Coalescing: all three vector layouts; usecs 0 (off), 1 (dynamic), rates,
\* the largest accepted value (IXGBE_MAX_EITR >> 2) and one above it.
\* Rxnfc: both MAC generations, every combination of RXH bits (and one
\* unknown bit) on TCP, both UDP families, an IP-only flow and a flow set
\* refuses.  Link: every VFLINKS pattern check_mac_link can tell apart,
\* with and without the reset indication.  Offload: two VLAN slots, so
\* set_tso meets an empty slot and a present device.  Rings:
\* set_ringparam, diag_test and nway_reset with every allocation able to
\* fail, the reopen of diag_test included; requests below, inside and above
\* the descriptor range, aligned and not.
CONSTANTS
  MaxEitr = 4088
  Itr20K = 200
  Itr12K = 336
  Usecs = {0, 1, 2, 3, 500, 1022, 1023}
  VlanSlots = {1, 2}
  Flows = {"TCP_V4", "UDP_V4", "UDP_V6", "ESP_V4", "IPV4"}
  NumTx = 2
  NumXdp = 1
  NumRx = 2
  MinDesc = 64
  MaxDesc = 4096
  TxMultiple = 8
  RxMultiple = 8
  InitTxd = 1024
  InitRxd = 512
  Pendings = {63, 100, 512, 1024, 4097}
  OpenCanFail = TRUE
  MaxCalls = 3
SPECIFICATION Spec
INVARIANTS
  CoalesceTypeOK
  CoalesceRoundTrip
  VectorsFollowRequest
  RxnfcTypeOK
  HashOptsRoundTrip
  MrqcMatchesFlags
  LegacyRxApplied
  LinkTypeOK
  SpeedNotCarriedAcrossReset
  RxCsumApplied
  VlanTsoWithinReal
  RingTypeOK
  RingsConsistent
  NoLeak
PROPERTIES
  LinkReportSettles
  ErrorKeepsConfig
  RingCallReturns
