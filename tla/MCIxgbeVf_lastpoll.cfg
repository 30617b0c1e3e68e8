\* A PF that ends its reset as reset_hw's poll counter reaches zero:
\* does the last check_for_rst count?
CONSTANTS
  m1 = m1
  m2 = m2
  Macs <- MCMacs
  PFPerm <- MCPFPerm
  Zero = Zero
  NoMsg = NoMsg
  PFMcType = 1
  RssData = 5
  Timeouts = FALSE
  MaxPFResets = 0
  InitTimeout = 2
  MaxOps = 1
  ApiVersions = {"api_13"}

SPECIFICATION Spec

PROPERTIES
  ResetGivesUpOnlyWhileResetting
