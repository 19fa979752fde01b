---------------------------- MODULE MCAttribution ----------------------------
(* Bounded instances of Attribution.                                         *)
EXTENDS Attribution, TLC

MCExecArgs == {[path |-> "/usr/bin/x", pipe |-> FALSE, env |-> {}]}

MCSymmetry == Permutations(Pid) \cup Permutations(Tid)

==============================================================================
