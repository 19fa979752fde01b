SPECIFICATION MSpec
CONSTANTS
  Rule = {"unknown-network", "memfd-create", "exec-from-temp"}
  RootPid = {1, 3}
  Sev = {2, 3}
  TTL = 1
  MaxTime = 1
  HasPolicy = FALSE
  AllowedDests = {}
  Produce <- MCProduce
  ProcFiles <- MCProcFiles
  FlagSets <- MCFlagSets
  RingCap = 1
  MaxEvents = 2
  MaxRuns = 2
INVARIANTS
  ChainIsAncestry
  MetricsAgree
  ContextIsOfItsPid
  BaselineRoundTrip
  EnforcesAWholeProfile
  ExitLeavesFiles
  ReportIsAPrefix
PROPERTIES
  SignalEndsRun
  LossIsReported
CHECK_DEADLOCK FALSE
