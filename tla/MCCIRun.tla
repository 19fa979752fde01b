------------------------------- MODULE MCCIRun -------------------------------
(* Bounded instances of CIRun.                                               *)
EXTENDS CIRun

MCEvent(type, phase, root, arg) ==
  [type |-> type, phase |-> phase, sev |-> SEV_INFO, pid |-> root, ppid |-> 0,
   root_pid |-> root, comm |-> "npm", root_comm |-> "npm", path |-> "", arg |-> arg]

\* The same rule at MEDIUM and at HIGH, a second invocation, and an exec that
\* raises nothing.
MCProduce ==
  {MCEvent("net_connect", PHASE_DOWNLOAD, 1, {"elsewhere"}),
   MCEvent("net_connect", PHASE_BUILD, 1, {"elsewhere"}),
   MCEvent("net_connect", PHASE_BUILD, 2, {"elsewhere"}),
   MCEvent("exec", PHASE_DOWNLOAD, 1, {})}

MCProcFiles == [p \in {1, 2} |-> {}]

MCExitCodes == {0, -1}

==============================================================================
