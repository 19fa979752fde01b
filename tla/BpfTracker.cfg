SPECIFICATION Spec
CONSTANTS
  Pid = {p1, p2}
  Tid = {t1, t2}
  InitPid = init
  Base = {"pip", "gcc", "sh"}
  ExecArgs <- MCExecArgs
  Paths = {}
  Dests = {}
  Modes = {}
  MaxProc = 1
  MaxSaved = 1
  RingCap = 0
  DropMod = 1
SYMMETRY MCSymmetry
INVARIANTS
  EntriesAreLive
  SavedOnlyInExec
  RecordedUnderItsImage
