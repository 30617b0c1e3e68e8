\* Every parameter value class around the ITR range and the special values,
\* every array length, boards inside and at IXGBE_MAX_NIC.  Each probe is
\* one step; the state after it has nothing left to do.
CONSTANTS
  MaxNic = 8
  MinItr = 956
  MaxItr = 488281
  Values <- TriedValues
  Boards = {0, 1, 8}
SPECIFICATION Spec
CHECK_DEADLOCK FALSE
INVARIANT
  RxBufModeDefault
