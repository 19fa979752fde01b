----------------------------- MODULE Attribution -----------------------------
(***************************************************************************)
(* BpfTracker with history variables: what proc_tree held for a process    *)
(* when it entered execve, and which program runs were attempted.  They    *)
(* state the repair trace_execve_exit performs and causal attribution.     *)
(***************************************************************************)
EXTENDS BpfTracker

VARIABLES
  before,     \* before[p][t]: a snapshot, while thread t of p is in execve
  attempted   \* <<pid, base>> of the execve calls entered so far

avars == <<vars, before, attempted>>

\* proc_tree's entry for p, as a set of at most one element.
Entry(p) == {proc_tree[q] : q \in {p} \cap DOMAIN proc_tree}

NoSnapshot == [entry |-> {}, alone |-> FALSE, saved |-> FALSE]

\* alone: no other thread; saved: trace_execve got past its early exit and
\* found room in saved_execs for the entry, if there was one.
Snapshot(p, t, b) ==
  [entry |-> Entry(p),
   alone |-> threads[p] = {t},
   saved |-> ~NotOfInterest(p, b) /\ (Tracked(p) => Fits(saved_execs, p, MaxSaved))]

SnapshotAfter(p, t) ==
  CASE exec'[p][t] = NoBase -> NoSnapshot
    [] exec[p][t] = NoBase /\ exec'[p][t] # NoBase -> Snapshot(p, t, exec'[p][t])
    [] OTHER -> before[p][t]

Attempts == {r \in Pid \X Base :
               \E t \in Tid : exec[r[1]][t] = NoBase /\ exec'[r[1]][t] = r[2]}

Remember ==
  /\ before' = [p \in Pid |-> [t \in Tid |-> SnapshotAfter(p, t)]]
  /\ attempted' = attempted \cup Attempts

AInit ==
  /\ Init
  /\ before = [p \in Pid |-> [t \in Tid |-> NoSnapshot]]
  /\ attempted = {}

ANext == Next /\ Remember

ASpec == AInit /\ [][ANext]_avars

-------------------------------------------------------------------------------

\* After a failed execve of a process that has one thread, proc_tree holds
\* for it what it held before the call, whatever the other processes did in
\* between, provided trace_execve could save the entry.
Restores ==
  \A p \in Pid, t \in Tid :
    /\ ExecveFailure(p, t)
    /\ before[p][t].alone
    /\ before[p][t].saved
    => Entry(p)' = before[p][t].entry

RecordedExecRestores == [][Restores]_avars

\* What makes it provable.  The only thread of a process stays alone while it
\* is in execve, so nobody touches the process's entries; and what was saved
\* on entry is what the snapshot remembers.
AloneInExec ==
  \A p \in Pid, t \in Tid :
    exec[p][t] # NoBase /\ before[p][t].alone => threads[p] = {t}

SavedIsSnapshot ==
  \A p \in Pid, t \in Tid :
    exec[p][t] # NoBase /\ before[p][t].alone /\ before[p][t].saved =>
      \/ before[p][t].entry = {} /\ p \notin DOMAIN saved_execs
      \/ /\ p \in DOMAIN saved_execs /\ p \in DOMAIN proc_tree
         /\ before[p][t].entry = {saved_execs[p]}

RestoreInv == AloneInExec /\ SavedIsSnapshot

\* What the comment above trace_execve_exit promises: "On failure (ret < 0)
\* the process image is unchanged, so we must restore the pre-exec entry."
FailedExecRestores ==
  [][\A p \in Pid, t \in Tid :
       ExecveFailure(p, t) /\ before[p][t].alone
         => Entry(p)' = before[p][t].entry]_avars

RootRun(r) == <<r.root_pid, r.root_comm>>

\* Every chain is attributed to an execve some process really issued: no
\* interleaving of forks, execs, exits, reparenting and pid reuse mixes the
\* pid of one invocation with the name of another, in the map, among the
\* saved entries or in the ring buffer.
AttributedToAnAttempt ==
  /\ \A p \in DOMAIN proc_tree : RootRun(proc_tree[p]) \in attempted
  /\ \A p \in DOMAIN saved_execs : RootRun(saved_execs[p]) \in attempted
  /\ \A i \in DOMAIN events : RootRun(events[i]) \in attempted

===============================================================================
