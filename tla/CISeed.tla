------------------------------- MODULE CISeed -------------------------------
(***************************************************************************)
(* How runCI (cmd/chainscope/main.go) puts its command under observation:  *)
(* cmd.Start forks and execs the command with the programs already         *)
(* attached, returns once the execve succeeded, and only then SeedPID      *)
(* (internal/loader/loader.go) writes proc_tree, while the command and its *)
(* children are already running.                                           *)
(***************************************************************************)
EXTENDS Pipeline

VARIABLES
  pc,      \* where runCI is
  cmdPid,  \* cmd.Process.Pid; InitPid before cmd.Start
  cmdComm  \* filepath.Base(cmdArgs[0])

cvars == <<vars, pc, cmdPid, cmdComm>>

CInit ==
  /\ Init
  /\ pc = "init"
  /\ cmdPid = InitPid
  /\ cmdComm \in Base

\* cmd.Start's fork.  The child is chainscope's, which is itself untracked.
CmdFork(p) ==
  /\ pc = "init"
  /\ Boot(p)
  /\ pc' = "forked"
  /\ cmdPid' = p
  /\ UNCHANGED cmdComm

\* The forked child does nothing but execve the command.
CmdExecve(t) ==
  /\ pc = "forked"
  /\ trace_execve(cmdPid, t, cmdComm)
  /\ UNCHANGED <<pc, cmdPid, cmdComm>>

CmdExecveExit(t) ==
  /\ pc = "forked"
  /\ \/ ExecveSuccess(cmdPid, t) /\ pc' = "started"
     \/ ExecveFailure(cmdPid, t) /\ pc' = "failed"   \* runCI returns 1
  /\ UNCHANGED <<cmdPid, cmdComm>>

\* SeedPID fills in root_pid and the names; the phase stays zero.
SeedInfo(p, b) ==
  [root_pid |-> p, phase |-> PHASE_UNKNOWN, comm |-> b, root_comm |-> b]

\* ProcTree.Put: like bpf_map_update_elem, it fails when the map is full;
\* runCI prints the error and goes on.
SeedPID ==
  /\ pc = "started"
  /\ proc_tree' = update_elem(proc_tree, cmdPid, SeedInfo(cmdPid, cmdComm), MaxProc)
  /\ pc' = "seeded"
  /\ UNCHANGED <<procs, saved_execs, ring, cmdPid, cmdComm>>

\* Until its execve returns the child of cmd.Start acts only through the
\* steps above.
Others ==
  /\ \/ \E p \in Pid : (pc = "forked" => p # cmdPid) /\ (Process(p) \/ Hook(p))
     \/ ReadEvent
  /\ UNCHANGED <<pc, cmdPid, cmdComm>>

CNext ==
  \/ \E p \in Pid : CmdFork(p)
  \/ \E t \in Tid : CmdExecve(t) \/ CmdExecveExit(t)
  \/ SeedPID
  \/ Others

CSpec == CInit /\ [][CNext]_cvars

-------------------------------------------------------------------------------

\* Seeding is the only way to track an unclassified chain.  The damage is
\* confined to the command's own chain: a known tool below the command is
\* classified as in monitor mode, and only the command's process itself can
\* be a known tool recorded without its phase.
UnclassifiedOnlyBelowSeed ==
  \A p \in DOMAIN proc_tree :
    proc_tree[p].phase = PHASE_UNKNOWN =>
      /\ proc_tree[p].root_pid = cmdPid
      /\ IsTool(proc_tree[p].comm) => p = cmdPid

\* Seeding is also the only way an entry can outlive its process: SeedPID may
\* run after the command has exited, and trace_exit never fires for it again.
OnlySeedOutlives == \A p \in DOMAIN proc_tree : Live(p) \/ p = cmdPid

\* README, Phase attribution: "Every event carries a `phase` tag derived from
\* the basename of the executing process", with download for pip.
PhaseFromBasename ==
  \A e \in Pending : IsTool(e.comm) => e.phase = phase_from_comm(e.comm)

=============================================================================
