------------------------------ MODULE BpfTracker ------------------------------
(***************************************************************************)
(* The eBPF programs of bpf/chainscope.c and the processes they observe.   *)
(*                                                                         *)
(* The kernel's side is what a tracepoint can see: processes (thread       *)
(* groups) with their threads and parent, the program each one runs, and   *)
(* the execve calls that are between sys_enter and sys_exit.  The          *)
(* program's side is its maps: proc_tree, saved_execs, the ring buffer     *)
(* events and drop_count.  One action is one tracepoint together with the  *)
(* kernel event that fires it.  A handler that returns before it writes a  *)
(* map or the ring buffer is a stuttering step and has no action.          *)
(*                                                                         *)
(* A map is a function whose DOMAIN is the set of keys it holds.           *)
(***************************************************************************)
EXTENDS ChainTypes, Integers, Sequences, FiniteSets

CONSTANTS
  Pid,        \* thread-group ids
  Tid,        \* names for the threads of one group
  InitPid,    \* the reaper: adopts orphans, never runs a known tool
  Base,       \* executable basenames
  ExecArgs,   \* what else trace_execve reads: records [path, pipe, env]
  Paths,      \* paths given to openat and fchmodat
  Dests,      \* destinations given to connect
  Modes,      \* sets of mode bits given to fchmodat
  MaxProc,    \* max_entries of proc_tree (10240)
  MaxSaved,   \* max_entries of saved_execs (1024)
  RingCap,    \* events that fit the ring buffer (256 KB)
  DropMod     \* drop_count wraps at this value (2^64)

NoBase == "none"   \* no execve in flight, or no program at all

\* A program that was started by execveat(2).  No handler learns which one it
\* is, so the model does not tell them apart.
ByExecveat == "execveat"

ASSUME TrackerAssumption ==
  /\ InitPid \notin Pid
  /\ NoBase \notin Base /\ ByExecveat \notin Base
  /\ NoBase \notin UNION {PackageManagers, BuildTools, Compilers, Linkers,
                          PostinstScripts}
  /\ DropMod \in Nat \ {0}

VARIABLES
  threads,      \* threads[p]: the live threads of group p; {} when p is free
  parent,       \* parent[p]: real_parent's thread-group id
  image,        \* image[p]: basename of the program p runs, or ByExecveat
  exec,         \* exec[p][t]: what thread t is calling execve on, or NoBase
  proc_tree,    \* pid -> proc_info
  saved_execs,  \* pid -> the proc_info to restore if the execve fails
  events,       \* submitted records, oldest first
  drop_count    \* reservations that failed

procs == <<threads, parent, image, exec>>
maps  == <<proc_tree, saved_execs>>
ring  == <<events, drop_count>>
vars  == <<threads, parent, image, exec, proc_tree, saved_execs, events,
           drop_count>>

\* proc_info.ppid is written and never read: emit gets the parent from the
\* task, so the field is left out.
ProcInfo == [root_pid : Pid, phase : Phases, comm : Base, root_comm : Base]

Live(p)    == threads[p] # {}
Tracked(p) == p \in DOMAIN proc_tree
IsTool(b)  == phase_from_comm(b) # PHASE_UNKNOWN
Idle(p, t) == t \in threads[p] /\ exec[p][t] = NoBase
Running(p) == \E t \in Tid : Idle(p, t)

-------------------------------------------------------------------------------
(* The map and ring-buffer helpers.                                         *)

\* bpf_map_update_elem(.., BPF_ANY): fails, unnoticed by every caller, when
\* the key is new and the map is full.
Fits(m, k, max) == k \in DOMAIN m \/ Cardinality(DOMAIN m) < max

update_elem(m, k, v, max) ==
  IF Fits(m, k, max)
  THEN [x \in DOMAIN m \cup {k} |-> IF x = k THEN v ELSE m[x]]
  ELSE m

delete_elem(m, k) == [x \in DOMAIN m \ {k} |-> m[x]]

get_ppid(p) == parent[p]

Event(type, sev, p, info, arg) ==
  [type |-> type, phase |-> info.phase, sev |-> sev, pid |-> p,
   ppid |-> get_ppid(p), root_pid |-> info.root_pid, comm |-> info.comm,
   root_comm |-> info.root_comm, arg |-> arg]

\* reserve_or_drop, then emit and bpf_ringbuf_submit.  A full ring takes no
\* record.  Whether the loss is counted depends on the build: reserve_or_drop
\* calls itself where its comment has it reserve and count.
Submit(e) ==
  IF Len(events) < RingCap
  THEN events' = Append(events, e) /\ UNCHANGED drop_count
  ELSE /\ drop_count' \in {drop_count, (drop_count + 1) % DropMod}
       /\ UNCHANGED events

-------------------------------------------------------------------------------
(* The processes.  What runs before the programs are attached is untracked. *)

Init ==
  /\ threads \in [Pid -> {{}} \cup {{t} : t \in Tid}]
  /\ parent = [p \in Pid |-> InitPid]
  /\ image \in [Pid -> Base \cup {NoBase}]
  /\ \A p \in Pid : Live(p) <=> image[p] # NoBase
  /\ exec = [p \in Pid |-> [t \in Tid |-> NoBase]]
  /\ proc_tree = [p \in {} |-> 0]
  /\ saved_execs = [p \in {} |-> 0]
  /\ events = <<>>
  /\ drop_count = 0

\* fork(2): the child is one thread of the parent's program.  No program is
\* attached to fork, so no map changes.
Fork(p, c) ==
  /\ Running(p)
  /\ ~Live(c)
  /\ \E t \in Tid : threads' = [threads EXCEPT ![c] = {t}]
  /\ parent' = [parent EXCEPT ![c] = p]
  /\ image' = [image EXCEPT ![c] = image[p]]
  /\ UNCHANGED <<exec, maps, ring>>

\* The reaper forks a process that runs no known tool.
Boot(c) ==
  /\ ~Live(c)
  /\ \E t \in Tid : threads' = [threads EXCEPT ![c] = {t}]
  /\ parent' = [parent EXCEPT ![c] = InitPid]
  /\ \E b \in Base : ~IsTool(b) /\ image' = [image EXCEPT ![c] = b]
  /\ UNCHANGED <<exec, maps, ring>>

NewThread(p, t) ==
  /\ Running(p)
  /\ t \notin threads[p]
  /\ threads' = [threads EXCEPT ![p] = @ \cup {t}]
  /\ UNCHANGED <<parent, image, exec, maps, ring>>

-------------------------------------------------------------------------------
(* sys_enter_execve.                                                        *)

Parented(p) == get_ppid(p) \in DOMAIN proc_tree

\* The early exit: neither a descendant of a tracked process nor a tool.
NotOfInterest(p, b) == ~Parented(p) /\ ~IsTool(b)

\* MUTANT: a tool run by a tracked process keeps its parent's phase.
ExecPhase_inherit(b, up) == up.phase

\* MUTANT: a program that is no tool does not inherit its parent's phase.
ExecPhase_own(b, up) == phase_from_comm(b)

ExecPhase(b, up) == IF IsTool(b) THEN phase_from_comm(b) ELSE up.phase

\* MUTANT: a chain starts at the parent instead of at the tool itself.
ExecInfo_parentRoot(p, b) ==
  LET up == proc_tree[get_ppid(p)] IN
  IF Parented(p)
  THEN [root_pid |-> up.root_pid, phase |-> ExecPhase(b, up), comm |-> b,
        root_comm |-> up.root_comm]
  ELSE [root_pid |-> get_ppid(p), phase |-> phase_from_comm(b), comm |-> b,
        root_comm |-> b]

\* MUTANT: the chain's name is taken from the parent, its pid from the root.
ExecInfo_parentName(p, b) ==
  LET up == proc_tree[get_ppid(p)] IN
  IF Parented(p)
  THEN [root_pid |-> up.root_pid, phase |-> ExecPhase(b, up), comm |-> b,
        root_comm |-> up.comm]
  ELSE [root_pid |-> p, phase |-> phase_from_comm(b), comm |-> b, root_comm |-> b]

ExecInfo(p, b) ==
  LET up == proc_tree[get_ppid(p)] IN
  IF Parented(p)
  THEN [root_pid |-> up.root_pid, phase |-> ExecPhase(b, up), comm |-> b,
        root_comm |-> up.root_comm]
  ELSE [root_pid |-> p, phase |-> phase_from_comm(b), comm |-> b, root_comm |-> b]

\* exec_flags and env_flags in one set; fd 0 is looked at for shells only.
ExecFlags(b, a) ==
  (IF is_temp_path(a.path) THEN {"TEMP_PATH"} ELSE {})
    \cup (IF is_shell_comm(b) THEN {"IS_SHELL"} ELSE {})
    \cup (IF is_shell_comm(b) /\ a.pipe THEN {"STDIN_PIPE"} ELSE {})
    \cup UNION {check_env_flags(e) : e \in a.env}

SaveExisting(p) ==
  saved_execs' = IF Tracked(p)
                 THEN update_elem(saved_execs, p, proc_tree[p], MaxSaved)
                 ELSE saved_execs

RecordExec(p, b) ==
  /\ SaveExisting(p)
  /\ proc_tree' = update_elem(proc_tree, p, ExecInfo(p, b), MaxProc)
  /\ \E a \in ExecArgs :
       Submit(Event("exec", SEV_INFO, p, ExecInfo(p, b), ExecFlags(b, a)))

trace_execve(p, t, b) ==
  /\ Idle(p, t)
  /\ exec' = [exec EXCEPT ![p][t] = b]
  /\ \/ NotOfInterest(p, b) /\ UNCHANGED <<maps, ring>>
     \/ ~NotOfInterest(p, b) /\ RecordExec(p, b)
  /\ UNCHANGED <<threads, parent, image>>

-------------------------------------------------------------------------------
(* sys_exit_execve.                                                         *)

\* MUTANT: a stale saved entry survives a successful execve.
DropSaved_never(p) == saved_execs' = saved_execs

DropSaved(p) == saved_execs' = delete_elem(saved_execs, p)

\* ret = 0.  The kernel has already ended the group's other threads.
ExecveSuccess(p, t) ==
  /\ exec[p][t] # NoBase
  /\ threads[p] = {t}
  /\ image' = [image EXCEPT ![p] = exec[p][t]]
  /\ exec' = [exec EXCEPT ![p][t] = NoBase]
  /\ DropSaved(p)
  /\ UNCHANGED <<threads, parent, proc_tree, ring>>

\* MUTANT: the speculative entry stays.
RestoreEntry_never(p) == proc_tree' = proc_tree

\* MUTANT: a failed call always removes the entry.
RestoreEntry_delete(p) == proc_tree' = delete_elem(proc_tree, p)

RestoreEntry(p) ==
  proc_tree' = IF p \in DOMAIN saved_execs
               THEN update_elem(proc_tree, p, saved_execs[p], MaxProc)
               ELSE delete_elem(proc_tree, p)

\* ret < 0: the image is unchanged.
ExecveFailure(p, t) ==
  /\ exec[p][t] # NoBase
  /\ exec' = [exec EXCEPT ![p][t] = NoBase]
  /\ RestoreEntry(p)
  /\ DropSaved(p)
  /\ UNCHANGED <<threads, parent, image, ring>>

-------------------------------------------------------------------------------
(* execveat(2), with or without AT_EMPTY_PATH.  Nothing is attached to its  *)
(* return: the program is replaced and every map stays as it is.            *)

ExecveatSuccess(p, t) ==
  /\ Idle(p, t)
  /\ threads[p] = {t}
  /\ image' = [image EXCEPT ![p] = ByExecveat]
  /\ UNCHANGED <<threads, parent, exec, maps, ring>>

-------------------------------------------------------------------------------
(* sched_process_exit fires for every thread; bpf_get_current_pid_tgid()    *)
(* >> 32 is the group.  A thread killed inside execve first leaves the      *)
(* call, through sys_exit_execve.  With its last thread the group is gone   *)
(* and its children belong to the reaper.                                   *)

Reparent(p) ==
  parent' = [c \in Pid |-> IF c = p \/ parent[c] = p THEN InitPid ELSE parent[c]]

\* MUTANT: an exit that forgets the map of saved entries only.
Untrack_savedOnly(p) ==
  proc_tree' = proc_tree /\ saved_execs' = delete_elem(saved_execs, p)

Untrack(p) ==
  /\ proc_tree' = delete_elem(proc_tree, p)
  /\ saved_execs' = delete_elem(saved_execs, p)

trace_exit(p, t) ==
  /\ Idle(p, t)
  /\ threads' = [threads EXCEPT ![p] = @ \ {t}]
  /\ IF threads[p] = {t}
     THEN Reparent(p) /\ image' = [image EXCEPT ![p] = NoBase]
     ELSE UNCHANGED <<parent, image>>
  /\ Untrack(p)
  /\ UNCHANGED <<exec, ring>>

-------------------------------------------------------------------------------
(* The hooks that only report.  All of them ignore untracked processes.     *)

Report(p, type, sev, arg) ==
  /\ Tracked(p)
  /\ Running(p)
  /\ Submit(Event(type, sev, p, proc_tree[p], arg))
  /\ UNCHANGED <<procs, maps>>

InPhase(p, S) == Tracked(p) /\ proc_tree[p].phase \in S

WriteSeverity(p) ==
  CASE InPhase(p, {PHASE_COMPILE, PHASE_BUILD}) -> SEV_HIGH
    [] InPhase(p, {PHASE_INSTALL})              -> SEV_LOW
    [] OTHER                                    -> SEV_MEDIUM

trace_openat(p, path, isWrite) ==
  \/ /\ isWrite /\ is_install_path(path)
     /\ Report(p, "file_write", WriteSeverity(p), {path})
  \/ /\ ~isWrite /\ is_sensitive_read_path(path)
     /\ Report(p, "file_open", SEV_INFO, {path})

\* Dests are AF_INET and AF_INET6 addresses: other families are ignored.
trace_connect(p, dest) ==
  Report(p, "net_connect",
         IF InPhase(p, {PHASE_COMPILE, PHASE_LINK}) THEN SEV_CRITICAL ELSE SEV_INFO,
         {dest})

trace_memfd_create(p) == Report(p, "memfd_create", SEV_HIGH, {})

\* sys_enter_execveat, only with AT_EMPTY_PATH, whether or not the call then
\* succeeds.  What it starts is not recorded in proc_tree.
trace_execveat(p) == Report(p, "execveat_anon", SEV_CRITICAL, {})

trace_fchmodat(p, path, mode) ==
  /\ mode \cap {"suid", "sgid", "exec"} # {}
  /\ Report(p, "chmod", IF is_install_path(path) THEN SEV_HIGH ELSE SEV_MEDIUM,
            {path} \cup mode)

\* Only with BPF_PROG_LOAD.
trace_bpf(p) == Report(p, "bpf_load", SEV_CRITICAL, {})

\* Only with a host name.
trace_getaddrinfo(p) == Report(p, "dns_lookup", SEV_INFO, {})

\* The reader of the ring buffer takes the oldest record.
ReadEvent ==
  /\ events # <<>>
  /\ events' = Tail(events)
  /\ UNCHANGED <<procs, maps, drop_count>>

-------------------------------------------------------------------------------

Process(p) ==
  \/ Boot(p)
  \/ \E c \in Pid : Fork(p, c)
  \/ \E t \in Tid :
       \/ NewThread(p, t)
       \/ \E b \in Base : trace_execve(p, t, b)
       \/ ExecveSuccess(p, t)
       \/ ExecveFailure(p, t)
       \/ ExecveatSuccess(p, t)
       \/ trace_exit(p, t)

Hook(p) ==
  \/ \E path \in Paths, w \in BOOLEAN : trace_openat(p, path, w)
  \/ \E dest \in Dests : trace_connect(p, dest)
  \/ trace_memfd_create(p)
  \/ trace_execveat(p)
  \/ \E path \in Paths, mode \in Modes : trace_fchmodat(p, path, mode)
  \/ trace_bpf(p)
  \/ trace_getaddrinfo(p)

Next == (\E p \in Pid : Process(p) \/ Hook(p)) \/ ReadEvent

Spec == Init /\ [][Next]_vars

-------------------------------------------------------------------------------
(* Properties.                                                              *)

ExecTags == {"TEMP_PATH", "IS_SHELL", "STDIN_PIPE"} \cup LoaderEnvKeys
              \cup CredentialEnvKeys
Tags     == ExecTags \cup Paths \cup Dests \cup UNION Modes

EventRecord == [type : EventTypes, phase : Phases, sev : Severities, pid : Pid,
                ppid : Pid \cup {InitPid}, root_pid : Pid, comm : Base,
                root_comm : Base, arg : SUBSET Tags]

IsProcMap(m) == DOMAIN m \subseteq Pid /\ \A p \in DOMAIN m : m[p] \in ProcInfo

\* The type invariant: the kernel's process table and chainscope's four maps
\* hold only values of their declared types.
TypeOK ==
  /\ threads \in [Pid -> SUBSET Tid]
  /\ parent \in [Pid -> Pid \cup {InitPid}]
  /\ image \in [Pid -> Base \cup {NoBase, ByExecveat}]
  /\ exec \in [Pid -> [Tid -> Base \cup {NoBase}]]
  /\ IsProcMap(proc_tree)
  /\ IsProcMap(saved_execs)
  /\ events \in Seq(EventRecord)
  /\ drop_count \in 0 .. DropMod - 1

\* trace_exit leaves nothing behind: no entry, current or saved, outlives its
\* process, so a reused pid is never born tracked.
EntriesAreLive == \A p \in DOMAIN proc_tree \cup DOMAIN saved_execs : Live(p)

\* A saved entry exists only while some thread of its process is inside
\* execve: whatever order the calls of several threads enter and return in, a
\* failed call never finds an entry that was saved before the process was
\* last outside execve.
SavedOnlyInExec ==
  \A p \in DOMAIN saved_execs : \E t \in threads[p] : exec[p][t] # NoBase

\* A tracked process that has no execve in flight is recorded under the
\* program it really runs, whatever calls of its threads entered, failed or
\* were cut short before, with room in the maps or without.  There are two
\* exceptions: trace_execve's early exit leaves a root that went on to run
\* something that is no known tool under its old name, and no hook at all
\* records a program that execveat started.
Accurate(p, info) ==
  \/ info.comm = image[p]
  \/ ~IsTool(image[p])
  \/ image[p] = ByExecveat

Quiet(p) == \A t \in Tid : exec[p][t] = NoBase

RecordedUnderItsImage ==
  \A p \in DOMAIN proc_tree : Quiet(p) => Accurate(p, proc_tree[p])

\* What makes the previous property inductive.  A thread in execve is alive; a
\* process whose only thread is in execve, if tracked, is already recorded
\* under the program it asked for; and while a process has one call in flight
\* the entry saved for it is accurate.
ExecIsLive == \A p \in Pid, t \in Tid : exec[p][t] # NoBase => t \in threads[p]

Speculative ==
  \A p \in DOMAIN proc_tree, t \in Tid :
    exec[p][t] # NoBase /\ threads[p] = {t} =>
      proc_tree[p].comm = exec[p][t] \/ ~IsTool(exec[p][t])

OneCall(p) ==
  \A t, u \in Tid : exec[p][t] # NoBase /\ exec[p][u] # NoBase => t = u

SavedIsAccurate ==
  \A p \in DOMAIN saved_execs : OneCall(p) => Accurate(p, saved_execs[p])

TrackingInv ==
  /\ EntriesAreLive
  /\ ExecIsLive
  /\ SavedOnlyInExec
  /\ RecordedUnderItsImage
  /\ Speculative
  /\ SavedIsAccurate

\* Every chain is anchored at a known tool, and a known tool has its own
\* phase wherever it appears in a chain: in both maps and in every record a
\* reader may still find in the ring buffer.
Classified(r) ==
  /\ IsTool(r.root_comm)
  /\ r.phase # PHASE_UNKNOWN
  /\ IsTool(r.comm) => r.phase = phase_from_comm(r.comm)

ChainsAreClassified ==
  /\ \A p \in DOMAIN proc_tree : Classified(proc_tree[p])
  /\ \A p \in DOMAIN saved_execs : Classified(saved_execs[p])
  /\ \A i \in DOMAIN events : Classified(events[i])

===============================================================================
