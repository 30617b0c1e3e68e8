CONSTANTS
  Faults <- TriedFaults
  Befores <- TriedBefores
  Running = {TRUE, FALSE}
  MaxRxQueues = 1   \* ixgbe_init_ops_vf (ixgbe_vf.c:76)
SPECIFICATION Spec
\* The real table and masks, with one register fault or none (TriedFaults),
\* two register contents, the interface up or down, removal at any step.
\* ixgbevf_diag_test runs once and returns: its end state is final.
CHECK_DEADLOCK FALSE
INVARIANTS
  RegTypeOK
  RemovalNeverPasses
  QueuesQuiescedAfterTest
PROPERTIES
  RegTestRefines
  DiagTestReturns
