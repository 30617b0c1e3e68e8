\* A PF that always answers: no mailbox poll times out.  Checks that every
\* reply the VF acts on answers its request and that every operation returns.
CONSTANTS
  m1 = m1
  m2 = m2
  Macs <- MCMacs
  PFPerm <- MCPFPerm
  Zero = Zero
  NoMsg = NoMsg
  PFMcType = 1
  RssData = 5
  Timeouts = FALSE
  MaxPFResets = 2
  InitTimeout = 2
  MaxOps = 5
  ApiVersions = {"api_11", "api_13"}

SPECIFICATION Spec

PROPERTIES
  AcceptedRepliesCorrelated
  OpsComplete
  HwControlRefined
