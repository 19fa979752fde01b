SPECIFICATION ASpec
CONSTANTS
  Pid = {p1, p2}
  Tid = {t1}
  InitPid = init
  Base = {"pip", "sh"}
  ExecArgs <- MCExecArgs
  Paths = {}
  Dests = {}
  Modes = {}
  MaxProc = 2
  MaxSaved = 1
  RingCap = 1
  DropMod = 1
SYMMETRY MCSymmetry
INVARIANTS
  AttributedToAnAttempt
  RecordedUnderItsImage
  ChainsAreClassified
PROPERTIES
  RecordedExecRestores
