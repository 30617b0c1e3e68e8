\* A PF that keeps the reset indication up past reset_hw's bounded poll:
\* is the failure reported as a reset timeout?
CONSTANTS
  m1 = m1
  m2 = m2
  Macs <- MCMacs
  PFPerm <- MCPFPerm
  Zero = Zero
  NoMsg = NoMsg
  PFMcType = 1
  RssData = 5
  Timeouts = FALSE
  MaxPFResets = 0
  InitTimeout = 2
  MaxOps = 1
  ApiVersions = {"api_13"}

SPECIFICATION Spec

PROPERTIES
  ResetTimeoutReported
