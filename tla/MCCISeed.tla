------------------------------ MODULE MCCISeed ------------------------------
(* Bounded instances of CISeed.                                              *)
EXTENDS CISeed, TLC

MCExecArgs == {[path |-> "/usr/bin/x", pipe |-> FALSE, env |-> {}]}

MCSymmetry == Permutations(Pid)

=============================================================================
