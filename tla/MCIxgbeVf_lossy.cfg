\* Polls may give up before the PF answers; its answer may then arrive late.
CONSTANTS
  m1 = m1
  m2 = m2
  Macs <- MCMacs
  PFPerm <- MCPFPerm
  Zero = Zero
  NoMsg = NoMsg
  PFMcType = 1
  RssData = 5
  Timeouts = TRUE
  MaxPFResets = 2
  InitTimeout = 2
  MaxOps = 5
  ApiVersions = {"api_11", "api_13"}

SPECIFICATION Spec

INVARIANTS
  TypeOK
  ResetHandshakeAgreed
  RssQueryTruthful
