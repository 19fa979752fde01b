SPECIFICATION Spec
CONSTANTS
  Pid = {p1, p2}
  Tid = {t1}
  InitPid = init
  Base = {"gcc", "postinst", "sh"}
  ExecArgs <- MCExecArgs
  Paths = {"/usr/bin/x", "/usr/lib/x", "/home/u/.ssh/id_rsa"}
  Dests = {"registry", "elsewhere"}
  Modes = {{"exec"}, {"suid"}}
  MaxProc = 1
  MaxSaved = 1
  RingCap = 1
  DropMod = 2
  HasPolicy = TRUE
  AllowedDests = {"registry"}
SYMMETRY MCSymmetry
INVARIANTS
  TypeOK
  ChainsAreClassified
  SeverityAgreement
  CompilerNetworkIsCritical
