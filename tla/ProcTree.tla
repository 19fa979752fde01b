------------------------------- MODULE ProcTree -------------------------------
(***************************************************************************)
(* internal/proctree: the userspace copy of the process tree, one node per *)
(* pid, filled from exec events as the main loop gets to them.  Nothing    *)
(* calls Remove, so a node stays until its pid is seen to exec again.      *)
(***************************************************************************)
EXTENDS Enricher, Sequences, FiniteSets

CONSTANT
  ProcFiles  \* pid -> the contents its /proc files may have, in this or an
             \* earlier use of the pid: records [cgroup, environ]

\* An expression that matches captures 64 digits.
ASSUME ProcFilesAssumption ==
  \A pid \in DOMAIN ProcFiles : \A f \in ProcFiles[pid] :
    /\ DOMAIN f.cgroup \subseteq Nat
    /\ \A i \in DOMAIN f.cgroup :
         f.cgroup[i].re \in Runtimes \cup {"hex"} => f.cgroup[i].id # ""

VARIABLE nodes   \* pid -> Node

Node(e, info) ==
  [pid |-> e.pid, ppid |-> e.ppid, root_pid |-> e.root_pid, comm |-> e.comm,
   ctx |-> info]

\* What Enrich may return when the loop gets to an exec event: the process may
\* be gone before either file is read, or its pid may have been reused.
Seen(pid) ==
  {Enrich(f.cgroup, env) : f \in ProcFiles[pid], env \in {<<>>} \cup {g.environ : g \in ProcFiles[pid]}}
    \cup {Host}

Add(e) ==
  \E info \in Seen(e.pid) :
    nodes' = [p \in DOMAIN nodes \cup {e.pid} |->
                IF p = e.pid THEN Node(e, info) ELSE nodes[p]]

Size == Cardinality(DOMAIN nodes)

\* The pids a walk from pid can come to.
Reach(pid) == {pid} \cup DOMAIN nodes \cup {nodes[p].ppid : p \in DOMAIN nodes}

\* MUTANT: a node is recorded as visited only once the walk has left it twice.
Chain_late(pid) ==
  LET walk[seen \in SUBSET DOMAIN nodes] ==
        [cur \in Reach(pid) |->
           IF cur \notin DOMAIN nodes THEN <<>>
           ELSE IF cur \in seen \/ nodes[cur].root_pid = cur THEN <<nodes[cur]>>
           ELSE Append(walk[seen \cup {cur}][nodes[cur].ppid], nodes[cur])]
  IN walk[{}][pid]

\* The walk along parent links, oldest first.  It ends at a root, at a parent
\* without a node, or when it comes back to a node it has visited.
Chain(pid) ==
  LET walk[seen \in SUBSET DOMAIN nodes] ==
        [cur \in Reach(pid) |->
           IF cur \in seen \/ cur \notin DOMAIN nodes THEN <<>>
           ELSE IF nodes[cur].root_pid = cur THEN <<nodes[cur]>>
           ELSE Append(walk[seen \cup {cur}][nodes[cur].ppid], nodes[cur])]
  IN walk[{}][pid]

-------------------------------------------------------------------------------

\* What Chain promises, for every tree a history of execs and reused pids can
\* leave, cyclic ones too: it ends in the process asked for, goes up by one
\* parent link at a time, repeats nobody, and stops only where it must.
ChainIsAncestry ==
  \A pid \in DOMAIN nodes :
    LET chain == Chain(pid)
        pids  == {chain[i].pid : i \in DOMAIN chain}
    IN /\ chain # <<>> /\ chain[Len(chain)] = nodes[pid]
       /\ Cardinality(pids) = Len(chain)
       /\ \A i \in 1 .. Len(chain) - 1 : chain[i].pid = chain[i + 1].ppid
       /\ \/ chain[1].pid = chain[1].root_pid
          \/ chain[1].ppid \notin DOMAIN nodes
          \/ chain[1].ppid \in pids

===============================================================================
