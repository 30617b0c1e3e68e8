\* Polls may give up before the PF answers; its answer may then arrive late.
\* Checks that every reply the VF acts on answers its last request.
CONSTANTS
  m1 = m1
  m2 = m2
  Macs <- MCMacs
  PFPerm <- MCPFPerm
  Zero = Zero
  NoMsg = NoMsg
  PFMcType = 1
  RssData = 5
  Timeouts = TRUE
  MaxPFResets = 1
  InitTimeout = 2
  MaxOps = 3
  ApiVersions = {"api_11", "api_13"}

SPECIFICATION Spec

PROPERTIES
  AcceptedRepliesCorrelated
