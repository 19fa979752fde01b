SPECIFICATION CISpec
CONSTANTS
  Rule = {"unknown-network"}
  RootPid = {1, 2}
  Sev = {2, 3}
  TTL = 2
  MaxTime = 3
  HasPolicy = FALSE
  AllowedDests = {}
  Produce <- MCProduce
  ProcFiles <- MCProcFiles
  RingCap = 2
  ExitCodes <- MCExitCodes
  MinSev = "high"
  MaxEvents = 2
INVARIANTS TriggeredAlertFails
CHECK_DEADLOCK FALSE
