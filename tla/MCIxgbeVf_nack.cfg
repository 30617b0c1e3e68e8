\* A PF that always answers: no mailbox poll times out.
\* Checks that a SET_MAC_ADDR the PF refuses is reported as an error.
CONSTANTS
  m1 = m1
  m2 = m2
  Macs <- MCMacs
  PFPerm <- MCPFPerm
  Zero = Zero
  NoMsg = NoMsg
  PFMcType = 1
  RssData = 5
  Timeouts = FALSE
  MaxPFResets = 1
  InitTimeout = 2
  MaxOps = 4
  ApiVersions = {"api_11", "api_13"}

SPECIFICATION Spec

PROPERTIES
  NackReported
