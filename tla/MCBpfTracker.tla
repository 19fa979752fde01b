---------------------------- MODULE MCBpfTracker ----------------------------
(* Bounded instances of BpfTracker.                                          *)
EXTENDS BpfTracker, TLC

MCExecArgs == {[path |-> "/usr/bin/x", pipe |-> FALSE, env |-> {}]}

MCSymmetry == Permutations(Pid) \cup Permutations(Tid)

=============================================================================
