------------------------------- MODULE Descent -------------------------------
(***************************************************************************)
(* Attribution with two more history variables: the program runs that took *)
(* place, and the processes that descend from a known tool.  Both go by    *)
(* execve, the call that the programs follow; what execveat starts counts  *)
(* for neither.                                                            *)
(***************************************************************************)
EXTENDS Attribution

VARIABLES
  ran,  \* <<pid, base>> of the execve calls that succeeded
  kin   \* kin[p]: p ran a tool, or was forked below a process that did

gvars == <<avars, ran, kin>>

Successes == {r \in Pid \X Base :
                \E t \in Tid : exec[r[1]][t] = r[2] /\ ExecveSuccess(r[1], t)}

KinAfter(p) ==
  CASE threads'[p] = {} -> FALSE
    [] threads[p] = {} /\ threads'[p] # {} -> parent'[p] \in Pid /\ kin[parent'[p]]
    [] OTHER -> kin[p] \/ \E b \in Base : IsTool(b) /\ <<p, b>> \in Successes

GInit ==
  /\ AInit
  /\ ran = {}
  /\ kin = [p \in Pid |-> FALSE]

GNext ==
  /\ ANext
  /\ ran' = ran \cup Successes
  /\ kin' = [p \in Pid |-> KinAfter(p)]

GSpec == GInit /\ [][GNext]_gvars

-------------------------------------------------------------------------------

\* README: "Every event is attributed to the originating package manager
\* invocation".  When nothing is in flight, that invocation took place.
AttributedToARun ==
  (\A p \in Pid : Quiet(p)) =>
    \A p \in DOMAIN proc_tree : RootRun(proc_tree[p]) \in ran

\* README: chainscope "tracks every process spawned by a package manager
\* (...) and its build-tool descendants".
DescendantsTracked ==
  [][\A p \in Pid, t \in Tid :
       ExecveSuccess(p, t) /\ kin'[p] => Tracked(p)']_gvars

==============================================================================
