\* diag_test whose ixgbevf_open fails, followed by nway_reset or set_ringparam.
CONSTANTS
  NumTx = 2
  NumXdp = 1
  NumRx = 2
  MinDesc = 64
  MaxDesc = 4096
  TxMultiple = 8
  RxMultiple = 8
  InitTxd = 1024
  InitRxd = 512
  Pendings = {63, 100, 512, 1024, 4097}
  OpenCanFail = TRUE
  MaxCalls = 3
SPECIFICATION Spec
INVARIANT
  UpRingsBacked
