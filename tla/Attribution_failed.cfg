SPECIFICATION ASpec
CONSTANTS
  Pid = {p1, p2}
  Tid = {t1}
  InitPid = init
  Base = {"pip", "sh"}
  ExecArgs <- MCExecArgs
  Paths = {}
  Dests = {}
  Modes = {}
  MaxProc = 2
  MaxSaved = 2
  RingCap = 0
  DropMod = 1
SYMMETRY MCSymmetry
PROPERTIES FailedExecRestores
