----------------------------- MODULE CISeed_proofs -----------------------------
(***************************************************************************)
(* Theorems about CISeed: what seeding proc_tree from outside, at any      *)
(* moment after the command's execve, can do to the chains, for any number *)
(* of processes and threads and any capacity of the maps.                  *)
(***************************************************************************)
EXTENDS CISeed, BpfTracker_proofs

\* The command has a pid from cmd.Start on.
CommandOK ==
  /\ pc = "init" => cmdPid = InitPid
  /\ pc # "init" => cmdPid \in Pid
  /\ cmdComm \in Base

\* Every step is a step of the tracker or SeedPID, and once the command is
\* forked its pid stays.
LEMMA StepSplit ==
  ASSUME CommandOK, [CNext]_cvars
  PROVE  /\ [Next]_vars \/ SeedPID
         /\ pc # "init" => cmdPid' = cmdPid /\ pc' # "init"
         /\ pc = "seeded" => pc' = "seeded"
         /\ CommandOK'
<1>1. ASSUME NEW p \in Pid, CmdFork(p)
      PROVE  [Next]_vars /\ pc = "init" /\ CommandOK'
  BY <1>1 DEF CmdFork, CommandOK, Next, Process
<1>2. ASSUME NEW t \in Tid, CmdExecve(t)
      PROVE  [Next]_vars /\ UNCHANGED <<pc, cmdPid, cmdComm>>
  <2>1. cmdPid \in Pid /\ cmdComm \in Base
    BY <1>2 DEF CmdExecve, CommandOK
  <2> QED
    BY <1>2, <2>1 DEF CmdExecve, Next, Process
<1>3. ASSUME NEW t \in Tid, CmdExecveExit(t)
      PROVE  /\ [Next]_vars /\ UNCHANGED <<cmdPid, cmdComm>>
             /\ pc = "forked" /\ pc' \in {"started", "failed"}
  <2>1. cmdPid \in Pid
    BY <1>3 DEF CmdExecveExit, CommandOK
  <2> QED
    BY <1>3, <2>1 DEF CmdExecveExit, Next, Process
<1>4. CASE SeedPID
  BY <1>4 DEF SeedPID, CommandOK
<1>5. CASE Others
  BY <1>5 DEF Others, Next, CommandOK
<1>6. CASE UNCHANGED cvars
  BY <1>6 DEF cvars, CommandOK
<1> QED
  BY <1>1, <1>2, <1>3, <1>4, <1>5, <1>6 DEF CNext, CommandOK

\* SeedPID writes one entry of proc_tree, or none.
LEMMA SeedWrites ==
  ASSUME CommandOK, SeedPID
  PROVE  /\ cmdPid \in Pid
         /\ DOMAIN proc_tree' \subseteq DOMAIN proc_tree \cup {cmdPid}
         /\ \A p \in DOMAIN proc_tree' :
              \/ p \in DOMAIN proc_tree /\ proc_tree'[p] = proc_tree[p]
              \/ p = cmdPid /\ proc_tree'[p] = SeedInfo(cmdPid, cmdComm)
         /\ saved_execs' = saved_execs
<1>1. cmdPid \in Pid
  BY DEF SeedPID, CommandOK
<1> QED
  BY <1>1, UpdateElem DEF SeedPID

\* SeedPID writes a well-typed entry, from outside the kernel.
LEMMA CTypeStep ==
  ASSUME TypeOK, CommandOK, [CNext]_cvars
  PROVE  TypeOK'
<1>1. CASE [Next]_vars
  BY <1>1, TypeStep
<1>2. CASE SeedPID
  <2>1. SeedInfo(cmdPid, cmdComm) \in ProcInfo
    BY <1>2 DEF SeedPID, CommandOK, SeedInfo, ProcInfo, Phases
  <2>2. IsProcMap(proc_tree)'
    BY <1>2, <2>1, SeedWrites DEF TypeOK, IsProcMap
  <2> QED
    BY <1>2, <2>2 DEF SeedPID, TypeOK, procs, ring, IsProcMap
<1> QED
  BY <1>1, <1>2, StepSplit

\* The tracker's types hold with the seed, too.
LEMMA CTypeCorrect == CSpec => [](TypeOK /\ CommandOK)
<1>1. CInit => TypeOK /\ CommandOK
  BY TypeInit DEF CInit, CommandOK
<1>2. TypeOK /\ CommandOK /\ [CNext]_cvars => (TypeOK /\ CommandOK)'
  BY CTypeStep, StepSplit
<1> QED
  BY <1>1, <1>2, PTL DEF CSpec

-------------------------------------------------------------------------------
(* Classification.                                                          *)

\* An entry without a phase: there is none before SeedPID; afterwards it is
\* in the command's chain, and it is no known tool unless it is the seed.
Confined(p, info) ==
  info.phase = PHASE_UNKNOWN =>
    /\ pc = "seeded"
    /\ info.root_pid = cmdPid
    /\ IsTool(info.comm) => p = cmdPid

\* A failed execve may bring back a saved entry, so those are confined too.
SeedInv ==
  /\ \A p \in DOMAIN proc_tree : Confined(p, proc_tree[p])
  /\ \A p \in DOMAIN saved_execs : Confined(p, saved_execs[p])

\* trace_execve gives a tool its own phase and starts no chain without one.
LEMMA RecordedConfined ==
  ASSUME TypeOK, SeedInv, NEW p \in Pid, NEW info, Recorded(p, info)
  PROVE  Confined(p, info)
<1>1. PICK t \in Tid, b \in Base : ~NotOfInterest(p, b) /\ info = ExecInfo(p, b)
  BY DEF Recorded
<1>2. CASE Parented(p)
  <2> DEFINE up == proc_tree[get_ppid(p)]
  <2>1. Confined(get_ppid(p), up)
    BY <1>2 DEF SeedInv, Parented
  <2>2. info.phase = ExecPhase(b, up) /\ info.root_pid = up.root_pid /\ info.comm = b
    BY <1>1, <1>2 DEF ExecInfo
  <2> QED
    BY <2>1, <2>2 DEF ExecPhase, IsTool, Confined
<1>3. CASE ~Parented(p)
  BY <1>1, <1>3 DEF NotOfInterest, ExecInfo, IsTool, Confined
<1> QED
  BY <1>2, <1>3

\* An unclassified entry descends from the seed, whenever the seed is written.
LEMMA SeedStep ==
  ASSUME TypeOK, CommandOK, SeedInv, [CNext]_cvars
  PROVE  SeedInv'
<1>1. ASSUME NEW p, NEW info, Confined(p, info)
      PROVE  Confined(p, info)'
  BY <1>1, StepSplit DEF Confined
<1>2. CASE [Next]_vars
  <2>0. TypeOK' /\ \A p \in Pid : \A info : Recorded(p, info) => Confined(p, info)
    BY <1>2, TypeStep, RecordedConfined
  <2>1. \A p \in DOMAIN proc_tree' : Confined(p, proc_tree'[p])
    BY <1>2, <2>0, Sources DEF TreeSources, SeedInv, TypeOK, IsProcMap
  <2>2. \A p \in DOMAIN saved_execs' : Confined(p, saved_execs'[p])
    BY <1>2, Sources DEF SavedSources, SeedInv
  <2> QED
    BY <1>1, <2>1, <2>2, StepSplit DEF SeedInv, Confined
<1>3. CASE SeedPID
  <2>1. pc' = "seeded" /\ cmdPid' = cmdPid
    BY <1>3 DEF SeedPID
  <2>2. ASSUME NEW p \in DOMAIN proc_tree' PROVE Confined(p, proc_tree[p])'
    BY <1>3, <2>1, SeedWrites DEF SeedInv, Confined, SeedInfo
  <2> QED
    BY <1>1, <1>3, <2>1, <2>2, SeedWrites DEF SeedInv, Confined
<1> QED
  BY <1>2, <1>3, StepSplit

\* Seeding can leave unclassified only the command's own chain, and there no
\* known tool but the command itself: every compiler, linker or package
\* manager it runs is classified as in monitor mode, whenever SeedPID comes.
THEOREM UnclassifiedConfined == CSpec => []UnclassifiedOnlyBelowSeed
<1>1. CInit => SeedInv
  BY DEF CInit, Init, SeedInv
<1>2. TypeOK /\ CommandOK /\ SeedInv /\ [CNext]_cvars => SeedInv'
  BY SeedStep
<1>3. SeedInv => UnclassifiedOnlyBelowSeed
  BY DEF SeedInv, Confined, UnclassifiedOnlyBelowSeed
<1> QED
  BY <1>1, <1>2, <1>3, CTypeCorrect, PTL DEF CSpec

-------------------------------------------------------------------------------
(* Entries and processes.                                                   *)

\* What a step of the tracker does to the processes: threads in execve stay
\* alive, an entry appears only for a live process, and a process that dies
\* takes its entry along.
LEMMA LiveStep ==
  ASSUME TypeOK, ExecIsLive, [Next]_vars
  PROVE  /\ ExecIsLive'
         /\ \A p \in DOMAIN proc_tree' :
              (p \in DOMAIN proc_tree => Live(p)) => Live(p)'
<1> DEFINE Keeps == \A p \in DOMAIN proc_tree' :
                      (p \in DOMAIN proc_tree => Live(p)) => Live(p)'
<1> SUFFICES ExecIsLive' /\ Keeps
  OBVIOUS
<1>1. ASSUME NEW q \in Pid, Process(q) PROVE ExecIsLive' /\ Keeps
  <2>1. CASE Boot(q)
    BY <2>1 DEF Boot, ExecIsLive, Live, TypeOK, IsProcMap, maps
  <2>2. ASSUME NEW c \in Pid, Fork(q, c) PROVE ExecIsLive' /\ Keeps
    BY <2>2 DEF Fork, ExecIsLive, Live, TypeOK, IsProcMap, maps
  <2>3. ASSUME NEW u \in Tid, NewThread(q, u) PROVE ExecIsLive' /\ Keeps
    BY <2>3 DEF NewThread, ExecIsLive, Live, TypeOK, IsProcMap, maps
  <2>4. ASSUME NEW u \in Tid, NEW b \in Base, trace_execve(q, u, b)
        PROVE  ExecIsLive' /\ Keeps
    <3>1. u \in threads[q] /\ threads' = threads
      BY <2>4 DEF trace_execve, Idle
    <3>2. ExecIsLive'
      BY <2>4, <3>1 DEF trace_execve, ExecIsLive, TypeOK
    <3>3. DOMAIN proc_tree' \subseteq DOMAIN proc_tree \cup {q}
      BY <2>4, UpdateElem DEF trace_execve, RecordExec, maps
    <3> QED
      BY <3>1, <3>2, <3>3 DEF Live
  <2>5. ASSUME NEW u \in Tid, ExecveSuccess(q, u) PROVE ExecIsLive' /\ Keeps
    BY <2>5 DEF ExecveSuccess, ExecIsLive, Live, TypeOK
  <2>6. ASSUME NEW u \in Tid, ExecveFailure(q, u) PROVE ExecIsLive' /\ Keeps
    <3>1. u \in threads[q] /\ threads' = threads
      BY <2>6 DEF ExecveFailure, ExecIsLive
    <3>2. ExecIsLive'
      BY <2>6, <3>1 DEF ExecveFailure, ExecIsLive, TypeOK
    <3>3. DOMAIN proc_tree' \subseteq DOMAIN proc_tree \cup {q}
      BY <2>6, UpdateElem DEF ExecveFailure, RestoreEntry, delete_elem
    <3> QED
      BY <3>1, <3>2, <3>3 DEF Live
  <2>7. ASSUME NEW u \in Tid, trace_exit(q, u) PROVE ExecIsLive' /\ Keeps
    BY <2>7 DEF trace_exit, Idle, Untrack, delete_elem, ExecIsLive, Live, TypeOK, IsProcMap
  <2>8. ASSUME NEW u \in Tid, ExecveatSuccess(q, u) PROVE ExecIsLive' /\ Keeps
    BY <2>8 DEF ExecveatSuccess, ExecIsLive, Live, maps
  <2> QED
    BY <1>1, <2>1, <2>2, <2>3, <2>4, <2>5, <2>6, <2>7, <2>8 DEF Process
<1>2. CASE UNCHANGED <<procs, maps>>
  BY <1>2 DEF procs, maps, ExecIsLive, Live
<1>3. (\E q \in Pid : Hook(q)) \/ ReadEvent \/ UNCHANGED vars => UNCHANGED <<procs, maps>>
  BY HookReports DEF Report, ReadEvent, vars, procs, maps
<1> QED
  BY <1>1, <1>2, <1>3 DEF Next

\* An entry that outlives its process is the one SeedPID wrote for a command
\* that had already exited; every other entry goes with its process, below the
\* command as anywhere else.
THEOREM OnlyTheSeedOutlives == CSpec => []OnlySeedOutlives
<1>1. CInit => ExecIsLive /\ OnlySeedOutlives
  BY DEF CInit, Init, ExecIsLive, OnlySeedOutlives
<1>2. ASSUME TypeOK, CommandOK, ExecIsLive, OnlySeedOutlives, [CNext]_cvars
      PROVE  ExecIsLive' /\ OnlySeedOutlives'
  <2>0. TypeOK' /\ DOMAIN proc_tree \subseteq Pid /\ DOMAIN proc_tree' \subseteq Pid
    BY <1>2, CTypeStep DEF TypeOK, IsProcMap
  <2>1. \A p \in Pid : p = cmdPid => p = cmdPid'
    BY <1>2, StepSplit, TrackerAssumption DEF CommandOK
  <2>2. CASE [Next]_vars
    BY <1>2, <2>0, <2>1, <2>2, LiveStep DEF OnlySeedOutlives
  <2>3. CASE SeedPID
    <3>1. UNCHANGED <<threads, exec, cmdPid>>
      BY <2>3 DEF SeedPID, procs
    <3> QED
      BY <1>2, <2>3, <3>1, SeedWrites DEF OnlySeedOutlives, ExecIsLive, Live
  <2> QED
    BY <1>2, <2>2, <2>3, StepSplit
<1>3. TypeOK /\ CommandOK /\ ExecIsLive /\ OnlySeedOutlives /\ [CNext]_cvars
        => (ExecIsLive /\ OnlySeedOutlives)'
  BY <1>2
<1> QED
  BY <1>1, <1>3, CTypeCorrect, PTL DEF CSpec

===============================================================================
