------------------------------ MODULE MCMonitor ------------------------------
(* Bounded instances of Monitor.                                             *)
EXTENDS Monitor

MCEvent(type, pid, ppid, root, comm, path, arg) ==
  [type |-> type, phase |-> PHASE_BUILD, sev |-> SEV_INFO, pid |-> pid,
   ppid |-> ppid, root_pid |-> root, comm |-> comm, root_comm |-> "npm",
   path |-> path, arg |-> arg]

\* One behaviour under two pids; an event without a key; a name that is not
\* UTF-8; and two execs that makeKey cannot tell apart and whose parent links
\* form a cycle: pid 2 was reused below its former child 3.
MCProduce ==
  {MCEvent("net_connect", 2, 1, 1, "make", "", {"elsewhere"}),
   MCEvent("net_connect", 3, 1, 3, "make", "", {"elsewhere"}),
   MCEvent("memfd_create", 2, 1, 1, "make", "", {}),
   MCEvent("dns_lookup", 2, 1, 1, "mak<C3>", "host", {}),
   MCEvent("exec", 3, 2, 1, "c|e", "/tmp/c|e", {"TEMP_PATH"}),
   MCEvent("exec", 2, 3, 1, "c", "e|/tmp/c", {})}

Line(re, id, kube) == [re |-> re, id |-> id, kube |-> kube, crio |-> FALSE]

Env(pod) == <<[key |-> "HOSTNAME", value |-> pod]>>

\* Pid 2 is a host process; pid 3 runs in a pod.
MCProcFiles ==
  [p \in {2, 3} |->
     IF p = 2 THEN {[cgroup |-> <<Line("none", "", FALSE)>>, environ |-> Env("host")]}
     ELSE {[cgroup |-> <<Line("none", "", TRUE), Line("hex", "c3", TRUE)>>,
            environ |-> Env("pod3")]}]

MCFlagSets == {{"learn", "metrics"}, {"enforce"}}

==============================================================================
