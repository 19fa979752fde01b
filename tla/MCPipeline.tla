------------------------------ MODULE MCPipeline ------------------------------
(* Bounded instances of Pipeline.                                            *)
EXTENDS Pipeline, TLC

MCExecArgs ==
  {[path |-> "/usr/bin/x", pipe |-> FALSE, env |-> {}],
   [path |-> "/tmp/x", pipe |-> TRUE, env |-> {"LD_PRELOAD", "MY_SECRET"}]}

MCSymmetry == Permutations(Pid)

===============================================================================
