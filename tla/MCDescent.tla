------------------------------ MODULE MCDescent ------------------------------
(* Bounded instances of Descent.                                             *)
EXTENDS Descent, TLC

MCExecArgs == {[path |-> "/usr/bin/x", pipe |-> FALSE, env |-> {}]}

MCSymmetry == Permutations(Pid) \cup Permutations(Tid)

==============================================================================
