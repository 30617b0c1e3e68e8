\* Every filter type (and one invalid) with every value of address bytes
\* 4 and 5, multicast lists on both sides of the 30-entry cap,
\* every 4-entry RETA dword, one and two RX queues.  Parameters: every
\* entry class around the ITR range and the special values, every array
\* length, boards inside and at IXGBE_MAX_NIC.  Statistics: up to two Tx
\* and Rx queues and one XDP queue, every set of NULL rings, with and
\* without BP_EXTENDED_STATS.
CONSTANTS
  RetaEntriesPerDword = 4
  Bytes <- AllBytes
  McLens = {0, 1, 2, 29, 30, 31, 33}
  RxQueues = {1, 2}
  UcIndexes = {0, 1, 2, 255}
  MaxNic = 8
  MinItr = 956
  MaxItr = 488281
  Boards = {0, 1, 8}
  TxQueues = {0, 1, 2}
  XdpQueues = {0, 1}

SPECIFICATION Spec

\* Each behaviour is one call, which returns and stops.
CHECK_DEADLOCK FALSE

INVARIANTS
  MtaVectorMatchesReference
  McRequestRoundTrip
  RetaDecodeSound
  StatsFitCount
  StatsAligned
  ParamTypeOK
  ItrAsDescribed
