SPECIFICATION CSpec
CONSTANTS
  Pid = {p1, p2}
  Tid = {t1}
  InitPid = init
  Base = {"pip", "gcc", "sh"}
  ExecArgs <- MCExecArgs
  Paths = {}
  Dests = {"registry"}
  Modes = {}
  MaxProc = 2
  MaxSaved = 1
  RingCap = 1
  DropMod = 1
  HasPolicy = FALSE
  AllowedDests = {}
SYMMETRY MCSymmetry
INVARIANTS PhaseFromBasename
