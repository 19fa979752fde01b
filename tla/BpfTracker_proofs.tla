-------------------------- MODULE BpfTracker_proofs --------------------------
(***************************************************************************)
(* Theorems about BpfTracker, for every set of processes, threads and      *)
(* programs and every capacity of the maps and of the ring buffer.         *)
(***************************************************************************)
EXTENDS BpfTracker, SequenceTheorems, TLAPS

-------------------------------------------------------------------------------
(* The helpers.                                                             *)

\* bpf_map_update_elem writes the one key it is given, or nothing.
LEMMA UpdateElem ==
  ASSUME NEW m, NEW k, NEW v, NEW max, NEW u, u = update_elem(m, k, v, max)
  PROVE  /\ DOMAIN m \subseteq DOMAIN u
         /\ DOMAIN u \subseteq DOMAIN m \cup {k}
         /\ \A x \in DOMAIN m : x # k => u[x] = m[x]
         /\ k \in DOMAIN u => u[k] = v
  BY DEF update_elem, Fits

\* Updates and deletions keep a map of proc_info values such a map.
LEMMA ProcMapOps ==
  ASSUME NEW m, IsProcMap(m), NEW k \in Pid
  PROVE  /\ \A v \in ProcInfo : \A max : IsProcMap(update_elem(m, k, v, max))
         /\ IsProcMap(delete_elem(m, k))
  BY DEF IsProcMap, update_elem, delete_elem

\* Every basename has a phase, and NoBase is no tool.
LEMMA PhaseOfComm ==
  /\ \A b : phase_from_comm(b) \in Phases
  /\ ~IsTool(NoBase)
  BY TrackerAssumption
  DEF phase_from_comm, Phases, IsTool, PHASE_UNKNOWN, PHASE_DOWNLOAD, PHASE_EXTRACT,
      PHASE_BUILD, PHASE_COMPILE, PHASE_LINK, PHASE_INSTALL, PHASE_POSTINST

\* The entry trace_execve builds is well formed.
LEMMA ExecInfoType ==
  ASSUME TypeOK, NEW p \in Pid, NEW b \in Base
  PROVE  ExecInfo(p, b) \in ProcInfo
  BY PhaseOfComm DEF TypeOK, IsProcMap, ExecInfo, ExecPhase, ProcInfo, Parented, get_ppid

\* The flags of an exec record are the ones chainscope.h defines.
LEMMA ExecFlagsType ==
  ASSUME NEW b, NEW a
  PROVE  ExecFlags(b, a) \in SUBSET Tags
<1>1. \A e : check_env_flags(e) \subseteq ExecTags
  BY DEF check_env_flags, ExecTags, LoaderEnvKeys, CredentialEnvKeys
<1>2. UNION {check_env_flags(e) : e \in a.env} \subseteq ExecTags
  BY <1>1
<1>3. ExecFlags(b, a) \subseteq ExecTags
  BY <1>2 DEF ExecFlags, ExecTags
<1> QED
  BY <1>3 DEF Tags

\* A record built from a well-formed entry is well formed.
LEMMA EventType ==
  ASSUME TypeOK, NEW type \in EventTypes, NEW sev \in Severities, NEW p \in Pid,
         NEW info \in ProcInfo, NEW arg \in SUBSET Tags
  PROVE  Event(type, sev, p, info, arg) \in EventRecord
  BY DEF TypeOK, Event, EventRecord, ProcInfo, get_ppid

\* Submitting a record keeps the ring buffer's type.
LEMMA SubmitType ==
  ASSUME TypeOK, NEW e \in EventRecord, Submit(e)
  PROVE  /\ events' \in Seq(EventRecord)
         /\ drop_count' \in 0 .. DropMod - 1
<1>1. CASE Len(events) < RingCap
  BY <1>1 DEF Submit, TypeOK
<1>2. CASE ~(Len(events) < RingCap)
  BY <1>2, TrackerAssumption DEF Submit, TypeOK
<1> QED
  BY <1>1, <1>2

-------------------------------------------------------------------------------
(* Type correctness.                                                        *)

\* A handler that only reports keeps the types.
LEMMA ReportType ==
  ASSUME TypeOK, NEW p \in Pid, NEW type \in EventTypes, NEW sev \in Severities,
         NEW arg \in SUBSET Tags, Report(p, type, sev, arg)
  PROVE  TypeOK'
<1>1. proc_tree[p] \in ProcInfo
  BY DEF Report, Tracked, TypeOK, IsProcMap
<1>2. Event(type, sev, p, proc_tree[p], arg) \in EventRecord
  BY <1>1, EventType
<1>3. events' \in Seq(EventRecord) /\ drop_count' \in 0 .. DropMod - 1
  BY <1>2, SubmitType DEF Report
<1> QED
  BY <1>3 DEF Report, TypeOK, procs, maps

\* The seven reporting hooks preserve the types.
LEMMA HookType ==
  ASSUME TypeOK, NEW p \in Pid, Hook(p)
  PROVE  TypeOK'
<1> USE DEF EventTypes, Severities, SEV_INFO, SEV_LOW, SEV_MEDIUM, SEV_HIGH, SEV_CRITICAL
<1>1. CASE \E path \in Paths, w \in BOOLEAN : trace_openat(p, path, w)
  <2>1. WriteSeverity(p) \in Severities
    BY DEF WriteSeverity
  <2> QED
    BY <1>1, <2>1, ReportType DEF trace_openat, Tags
<1>2. CASE \E dest \in Dests : trace_connect(p, dest)
  BY <1>2, ReportType DEF trace_connect, Tags
<1>3. CASE trace_memfd_create(p)
  BY <1>3, ReportType DEF trace_memfd_create
<1>4. CASE trace_execveat(p)
  BY <1>4, ReportType DEF trace_execveat
<1>5. CASE \E path \in Paths, mode \in Modes : trace_fchmodat(p, path, mode)
  BY <1>5, ReportType DEF trace_fchmodat, Tags
<1>6. CASE trace_bpf(p)
  BY <1>6, ReportType DEF trace_bpf
<1>7. CASE trace_getaddrinfo(p)
  BY <1>7, ReportType DEF trace_getaddrinfo
<1> QED
  BY <1>1, <1>2, <1>3, <1>4, <1>5, <1>6, <1>7 DEF Hook

\* So does whatever a process does.
LEMMA ProcessType ==
  ASSUME TypeOK, NEW p \in Pid, Process(p)
  PROVE  TypeOK'
<1>1. CASE Boot(p)
  BY <1>1 DEF Boot, TypeOK, maps, ring
<1>7. ASSUME NEW c \in Pid, Fork(p, c) PROVE TypeOK'
  BY <1>7 DEF Fork, TypeOK, maps, ring
<1>2. ASSUME NEW t \in Tid, NewThread(p, t) PROVE TypeOK'
  BY <1>2 DEF NewThread, TypeOK, maps, ring
<1>3. ASSUME NEW t \in Tid, NEW b \in Base, trace_execve(p, t, b) PROVE TypeOK'
  <2>1. /\ threads' \in [Pid -> SUBSET Tid]
        /\ parent' \in [Pid -> Pid \cup {InitPid}]
        /\ image' \in [Pid -> Base \cup {NoBase, ByExecveat}]
        /\ exec' \in [Pid -> [Tid -> Base \cup {NoBase}]]
    BY <1>3 DEF trace_execve, TypeOK
  <2>2. CASE UNCHANGED <<maps, ring>>
    BY <2>1, <2>2 DEF TypeOK, maps, ring
  <2>3. CASE RecordExec(p, b)
    <3>1. ExecInfo(p, b) \in ProcInfo
      BY ExecInfoType
    <3>2. IsProcMap(proc_tree')
      BY <2>3, <3>1, ProcMapOps DEF RecordExec, TypeOK
    <3>3. IsProcMap(saved_execs')
      BY <2>3, ProcMapOps DEF RecordExec, SaveExisting, Tracked, TypeOK, IsProcMap
    <3>4. PICK a \in ExecArgs :
            Submit(Event("exec", SEV_INFO, p, ExecInfo(p, b), ExecFlags(b, a)))
      BY <2>3 DEF RecordExec
    <3>5. Event("exec", SEV_INFO, p, ExecInfo(p, b), ExecFlags(b, a)) \in EventRecord
      BY <3>1, EventType, ExecFlagsType
      DEF EventTypes, Severities, SEV_INFO, SEV_CRITICAL
    <3>6. events' \in Seq(EventRecord) /\ drop_count' \in 0 .. DropMod - 1
      BY <3>4, <3>5, SubmitType
    <3> QED
      BY <2>1, <3>2, <3>3, <3>6 DEF TypeOK
  <2> QED
    BY <1>3, <2>2, <2>3 DEF trace_execve
<1>4. ASSUME NEW t \in Tid, ExecveSuccess(p, t) PROVE TypeOK'
  <2>1. IsProcMap(saved_execs')
    BY <1>4, ProcMapOps DEF ExecveSuccess, DropSaved, TypeOK
  <2> QED
    BY <1>4, <2>1 DEF ExecveSuccess, TypeOK, ring
<1>5. ASSUME NEW t \in Tid, ExecveFailure(p, t) PROVE TypeOK'
  <2>1. IsProcMap(proc_tree')
    BY <1>5, ProcMapOps DEF ExecveFailure, RestoreEntry, TypeOK, IsProcMap
  <2>2. IsProcMap(saved_execs')
    BY <1>5, ProcMapOps DEF ExecveFailure, DropSaved, TypeOK
  <2> QED
    BY <1>5, <2>1, <2>2 DEF ExecveFailure, TypeOK, ring
<1>6. ASSUME NEW t \in Tid, trace_exit(p, t) PROVE TypeOK'
  <2>1. parent' \in [Pid -> Pid \cup {InitPid}] 
        /\ image' \in [Pid -> Base \cup {NoBase, ByExecveat}]
    BY <1>6 DEF trace_exit, Reparent, TypeOK
  <2>2. IsProcMap(proc_tree') /\ IsProcMap(saved_execs')
    BY <1>6, ProcMapOps DEF trace_exit, Untrack, TypeOK
  <2>3. threads' \in [Pid -> SUBSET Tid] /\ UNCHANGED <<exec, events, drop_count>>
    BY <1>6 DEF trace_exit, TypeOK, ring
  <2> QED
    BY <2>1, <2>2, <2>3 DEF TypeOK
<1>8. ASSUME NEW t \in Tid, ExecveatSuccess(p, t) PROVE TypeOK'
  BY <1>8 DEF ExecveatSuccess, TypeOK, maps, ring
<1> QED
  BY <1>1, <1>2, <1>3, <1>4, <1>5, <1>6, <1>7, <1>8 DEF Process

\* The programs start with empty maps.
LEMMA TypeInit == Init => TypeOK
  BY TrackerAssumption DEF Init, TypeOK, IsProcMap, NoBase

\* No step of any process, hook or reader breaks the types.
LEMMA TypeStep == TypeOK /\ [Next]_vars => TypeOK'
<1> SUFFICES ASSUME TypeOK, [Next]_vars PROVE TypeOK'
  OBVIOUS
<1>1. ASSUME NEW p \in Pid, Process(p) PROVE TypeOK'
  BY <1>1, ProcessType
<1>2. ASSUME NEW p \in Pid, Hook(p) PROVE TypeOK'
  BY <1>2, HookType
<1>3. CASE ReadEvent
  BY <1>3, HeadTailProperties DEF ReadEvent, TypeOK, procs, maps
<1>4. CASE UNCHANGED vars
  BY <1>4 DEF vars, TypeOK
<1> QED
  BY <1>1, <1>2, <1>3, <1>4 DEF Next

\* Every state the programs and the kernel can reach is well typed: the maps
\* hold proc_info values for thread-group ids, the ring buffer chain_events.
THEOREM TypeCorrect == Spec => []TypeOK
<1> QED
  BY TypeInit, TypeStep, PTL DEF Spec

-------------------------------------------------------------------------------
(* Tracking.  TrackingInv is inductive relative to TypeOK.                  *)

\* A step that leaves the processes and the maps alone.
LEMMA QuietStep ==
  ASSUME TrackingInv, UNCHANGED <<procs, maps>>
  PROVE  TrackingInv'
  BY DEF TrackingInv, EntriesAreLive, ExecIsLive, SavedOnlyInExec, Live, Quiet,
         RecordedUnderItsImage, Speculative, SavedIsAccurate, OneCall, Accurate,
         procs, maps

\* A new process has nothing in the maps and nothing in flight.
LEMMA BirthStep ==
  ASSUME TypeOK, TrackingInv, NEW c \in Pid, ~Live(c), NEW t \in Tid, NEW b,
         threads' = [threads EXCEPT ![c] = {t}],
         image' = [image EXCEPT ![c] = b],
         UNCHANGED <<exec, maps>>
  PROVE  TrackingInv'
<1>1. c \notin DOMAIN proc_tree /\ c \notin DOMAIN saved_execs
  BY DEF TrackingInv, EntriesAreLive
<1>2. \A u \in Tid : exec[c][u] = NoBase
  BY DEF TrackingInv, ExecIsLive, Live
<1>3. \A p \in Pid \ {c} : threads'[p] = threads[p] /\ image'[p] = image[p]
  BY DEF TypeOK
<1>4. EntriesAreLive' /\ ExecIsLive' /\ SavedOnlyInExec'
  BY <1>1, <1>2, <1>3
  DEF TrackingInv, EntriesAreLive, ExecIsLive, SavedOnlyInExec, Live, maps, TypeOK,
      IsProcMap
<1>5. RecordedUnderItsImage'
  BY <1>1, <1>3
  DEF TrackingInv, RecordedUnderItsImage, Quiet, Accurate, maps, TypeOK, IsProcMap
<1>6. SavedIsAccurate'
  BY <1>1, <1>3
  DEF TrackingInv, SavedIsAccurate, OneCall, Accurate, maps, TypeOK, IsProcMap
<1>7. Speculative'
  BY <1>1, <1>3 DEF TrackingInv, Speculative, maps, TypeOK, IsProcMap
<1> QED
  BY <1>4, <1>5, <1>6, <1>7 DEF TrackingInv

\* A new thread brings no execve with it and invalidates no entry.
LEMMA NewThreadStep ==
  ASSUME TypeOK, TrackingInv, NEW p \in Pid, NEW t \in Tid, NewThread(p, t)
  PROVE  TrackingInv'
<1>1. \A q \in Pid : threads[q] \subseteq threads'[q]
  BY DEF NewThread, TypeOK
<1>2. EntriesAreLive' /\ ExecIsLive' /\ SavedOnlyInExec'
  BY <1>1
  DEF NewThread, TrackingInv, EntriesAreLive, ExecIsLive, SavedOnlyInExec, Live,
      maps, TypeOK, IsProcMap
<1>3. RecordedUnderItsImage' /\ SavedIsAccurate'
  BY DEF NewThread, TrackingInv, RecordedUnderItsImage, SavedIsAccurate, OneCall,
         Quiet, Accurate, maps
<1>4. \A u \in Tid : threads'[p] = {u} => FALSE
  BY DEF NewThread, Running, Idle, TypeOK
<1>5. Speculative'
  BY <1>4 DEF NewThread, TrackingInv, Speculative, maps, TypeOK, IsProcMap
<1> QED
  BY <1>2, <1>3, <1>5 DEF TrackingInv

\* trace_execve records the new image beforehand and saves the old entry.
LEMMA ExecveStep ==
  ASSUME TypeOK, TrackingInv, NEW p \in Pid, NEW t \in Tid, NEW b \in Base,
         trace_execve(p, t, b)
  PROVE  TrackingInv'
<1>1. /\ threads' = threads /\ image' = image
      /\ t \in threads[p] /\ exec[p][t] = NoBase
      /\ exec'[p][t] = b /\ b # NoBase
      /\ \A u \in Tid \ {t} : exec'[p][u] = exec[p][u]
      /\ \A q \in Pid \ {p} : exec'[q] = exec[q]
  BY TrackerAssumption DEF trace_execve, Idle, TypeOK
<1>2. /\ DOMAIN proc_tree' \subseteq DOMAIN proc_tree \cup {p}
      /\ \A q \in DOMAIN proc_tree' : q # p => q \in DOMAIN proc_tree /\ proc_tree'[q] = proc_tree[q]
      /\ p \in DOMAIN proc_tree' => proc_tree'[p].comm = b \/ ~IsTool(b)
  <2>1. CASE NotOfInterest(p, b) /\ UNCHANGED <<maps, ring>>
    BY <2>1 DEF NotOfInterest, maps
  <2>2. CASE RecordExec(p, b)
    <3>1. ExecInfo(p, b).comm = b
      BY DEF ExecInfo
    <3> QED
      BY <2>2, <3>1, UpdateElem DEF RecordExec
  <2> QED
    BY <2>1, <2>2 DEF trace_execve
<1>3. /\ DOMAIN saved_execs' \subseteq DOMAIN saved_execs \cup {p}
      /\ \A q \in DOMAIN saved_execs' : q # p => q \in DOMAIN saved_execs /\ saved_execs'[q] = saved_execs[q]
      /\ p \in DOMAIN saved_execs' =>
           \/ p \in DOMAIN saved_execs
           \/ p \in DOMAIN proc_tree /\ saved_execs'[p] = proc_tree[p]
  <2>1. CASE UNCHANGED <<maps, ring>>
    BY <2>1 DEF maps
  <2>2. CASE RecordExec(p, b)
    BY <2>2, UpdateElem DEF RecordExec, SaveExisting, Tracked
  <2> QED
    BY <2>1, <2>2 DEF trace_execve
<1>4. EntriesAreLive'
  BY <1>1, <1>2, <1>3 DEF TrackingInv, EntriesAreLive, Live
<1>5. ExecIsLive'
  BY <1>1 DEF TrackingInv, ExecIsLive
<1>6. SavedOnlyInExec'
  <2> SUFFICES ASSUME NEW q \in DOMAIN saved_execs'
               PROVE  \E u \in threads[q] : exec'[q][u] # NoBase
    BY <1>1 DEF SavedOnlyInExec
  <2>1. CASE q # p
    <3>1. q \in Pid /\ q \in DOMAIN saved_execs
      BY <1>3, <2>1 DEF TypeOK, IsProcMap
    <3> QED
      BY <1>1, <2>1, <3>1 DEF TrackingInv, SavedOnlyInExec
  <2>2. CASE q = p
    BY <1>1, <2>2
  <2> QED
    BY <2>1, <2>2
<1>7. RecordedUnderItsImage'
  BY <1>1, <1>2 DEF TrackingInv, RecordedUnderItsImage, Quiet, Accurate, TypeOK, IsProcMap
<1>8. Speculative'
  <2> SUFFICES ASSUME NEW q \in DOMAIN proc_tree', NEW u \in Tid,
                      exec'[q][u] # NoBase, threads'[q] = {u}
               PROVE  proc_tree'[q].comm = exec'[q][u] \/ ~IsTool(exec'[q][u])
    BY DEF Speculative
  <2>1. CASE q # p
    <3>1. q \in Pid /\ q \in DOMAIN proc_tree /\ proc_tree'[q] = proc_tree[q]
      BY <1>2, <2>1 DEF TypeOK, IsProcMap
    <3> QED
      BY <1>1, <2>1, <3>1 DEF TrackingInv, Speculative
  <2>2. CASE q = p
    <3>1. u = t
      BY <1>1, <2>2
    <3> QED
      BY <1>1, <1>2, <2>2, <3>1
  <2> QED
    BY <2>1, <2>2
<1>9. SavedIsAccurate'
  <2> SUFFICES ASSUME NEW q \in DOMAIN saved_execs', OneCall(q)'
               PROVE  Accurate(q, saved_execs[q])'
    BY DEF SavedIsAccurate
  <2>1. CASE q # p
    BY <1>1, <1>3, <2>1 DEF TrackingInv, SavedIsAccurate, OneCall, Accurate, TypeOK, IsProcMap
  <2>2. CASE q = p
    <3>1. Quiet(p)
      BY <1>1, <2>2 DEF OneCall, Quiet
    <3>2. p \notin DOMAIN saved_execs
      BY <3>1 DEF TrackingInv, SavedOnlyInExec, Quiet, TypeOK
    <3>3. p \in DOMAIN proc_tree /\ saved_execs'[p] = proc_tree[p]
      BY <1>3, <2>2, <3>2
    <3> QED
      BY <1>1, <2>2, <3>1, <3>3 DEF TrackingInv, RecordedUnderItsImage, Accurate
  <2> QED
    BY <2>1, <2>2
<1> QED
  BY <1>4, <1>5, <1>6, <1>7, <1>8, <1>9 DEF TrackingInv

\* sys_exit_execve with ret = 0: the speculative entry was right.
LEMMA SuccessStep ==
  ASSUME TypeOK, TrackingInv, NEW p \in Pid, NEW t \in Tid, ExecveSuccess(p, t)
  PROVE  TrackingInv'
<1>1. /\ threads' = threads /\ proc_tree' = proc_tree
      /\ threads[p] = {t} /\ exec[p][t] # NoBase
      /\ image'[p] = exec[p][t]
      /\ \A q \in Pid \ {p} : image'[q] = image[q] /\ exec'[q] = exec[q]
      /\ \A u \in Tid : exec'[p][u] = NoBase
  BY DEF ExecveSuccess, TypeOK, TrackingInv, ExecIsLive
<1>2. /\ DOMAIN saved_execs' = DOMAIN saved_execs \ {p}
      /\ \A q \in DOMAIN saved_execs' : saved_execs'[q] = saved_execs[q]
  BY DEF ExecveSuccess, DropSaved, delete_elem
<1>3. EntriesAreLive' /\ ExecIsLive'
  BY <1>1, <1>2 DEF TrackingInv, EntriesAreLive, ExecIsLive, Live
<1>4. SavedOnlyInExec'
  BY <1>1, <1>2 DEF TrackingInv, SavedOnlyInExec, TypeOK, IsProcMap
<1>5. SavedIsAccurate'
  BY <1>1, <1>2 DEF TrackingInv, SavedIsAccurate, OneCall, Accurate, TypeOK, IsProcMap
<1>6. Speculative'
  BY <1>1 DEF TrackingInv, Speculative, TypeOK, IsProcMap
<1>7. RecordedUnderItsImage'
  <2> SUFFICES ASSUME NEW q \in DOMAIN proc_tree, Quiet(q)'
               PROVE  Accurate(q, proc_tree[q])'
    BY <1>1 DEF RecordedUnderItsImage
  <2>1. CASE q = p
    BY <1>1, <2>1 DEF TrackingInv, Speculative, Accurate
  <2>2. CASE q # p
    BY <1>1, <2>2
    DEF TrackingInv, RecordedUnderItsImage, Quiet, Accurate, TypeOK, IsProcMap
  <2> QED
    BY <2>1, <2>2
<1> QED
  BY <1>3, <1>4, <1>5, <1>6, <1>7 DEF TrackingInv

\* sys_exit_execve with ret < 0.  If other calls of the process are in flight
\* the restored entry may be wrong, but then it is not looked at: the last of
\* them finds nothing saved and removes it.
LEMMA FailureStep ==
  ASSUME TypeOK, TrackingInv, NEW p \in Pid, NEW t \in Tid, ExecveFailure(p, t)
  PROVE  TrackingInv'
<1>1. /\ threads' = threads /\ image' = image
      /\ exec[p][t] # NoBase /\ exec'[p][t] = NoBase
      /\ \A u \in Tid \ {t} : exec'[p][u] = exec[p][u]
      /\ \A q \in Pid \ {p} : exec'[q] = exec[q]
  BY DEF ExecveFailure, TypeOK
<1>2. /\ DOMAIN saved_execs' = DOMAIN saved_execs \ {p}
      /\ \A q \in DOMAIN saved_execs' : saved_execs'[q] = saved_execs[q]
  BY DEF ExecveFailure, DropSaved, delete_elem
<1>3. /\ DOMAIN proc_tree' \subseteq DOMAIN proc_tree \cup {p}
      /\ \A q \in DOMAIN proc_tree' : q # p => q \in DOMAIN proc_tree /\ proc_tree'[q] = proc_tree[q]
      /\ p \in DOMAIN proc_tree' =>
           p \in DOMAIN saved_execs /\ proc_tree'[p] = saved_execs[p]
  <2>1. CASE p \in DOMAIN saved_execs
    BY <2>1, UpdateElem DEF ExecveFailure, RestoreEntry
  <2>2. CASE p \notin DOMAIN saved_execs
    BY <2>2 DEF ExecveFailure, RestoreEntry, delete_elem
  <2> QED
    BY <2>1, <2>2
<1>4. t \in threads[p]
  BY <1>1 DEF TrackingInv, ExecIsLive
<1>5. EntriesAreLive' /\ ExecIsLive'
  BY <1>1, <1>2, <1>3, <1>4 DEF TrackingInv, EntriesAreLive, ExecIsLive, Live
<1>6. SavedOnlyInExec'
  BY <1>1, <1>2 DEF TrackingInv, SavedOnlyInExec, TypeOK, IsProcMap
<1>7. SavedIsAccurate'
  BY <1>1, <1>2 DEF TrackingInv, SavedIsAccurate, OneCall, Accurate, TypeOK, IsProcMap
<1>8. Speculative'
  <2> SUFFICES ASSUME NEW q \in DOMAIN proc_tree', NEW u \in Tid,
                      exec'[q][u] # NoBase, threads'[q] = {u}
               PROVE  proc_tree'[q].comm = exec'[q][u] \/ ~IsTool(exec'[q][u])
    BY DEF Speculative
  <2>1. q # p
    BY <1>1, <1>4
  <2>2. q \in Pid /\ q \in DOMAIN proc_tree /\ proc_tree'[q] = proc_tree[q]
    BY <1>3, <2>1 DEF TypeOK, IsProcMap
  <2> QED
    BY <1>1, <2>1, <2>2 DEF TrackingInv, Speculative
<1>9. RecordedUnderItsImage'
  <2> SUFFICES ASSUME NEW q \in DOMAIN proc_tree', Quiet(q)'
               PROVE  Accurate(q, proc_tree[q])'
    BY DEF RecordedUnderItsImage
  <2>1. CASE q = p
    <3>1. OneCall(p)
      BY <1>1, <2>1 DEF Quiet, OneCall
    <3> QED
      BY <1>1, <1>3, <2>1, <3>1 DEF TrackingInv, SavedIsAccurate, Accurate
  <2>2. CASE q # p
    BY <1>1, <1>3, <2>2
    DEF TrackingInv, RecordedUnderItsImage, Quiet, Accurate, TypeOK, IsProcMap
  <2> QED
    BY <2>1, <2>2
<1> QED
  BY <1>5, <1>6, <1>7, <1>8, <1>9 DEF TrackingInv

\* execveat replaces the program of a process with nothing in flight.
LEMMA ExecveatStep ==
  ASSUME TypeOK, TrackingInv, NEW p \in Pid, NEW t \in Tid, ExecveatSuccess(p, t)
  PROVE  TrackingInv'
<1>1. /\ UNCHANGED <<threads, exec, maps>>
      /\ image'[p] = ByExecveat
      /\ \A q \in Pid \ {p} : image'[q] = image[q]
  BY DEF ExecveatSuccess, TypeOK
<1>2. \A q \in Pid : \A info : Accurate(q, info) => Accurate(q, info)'
  BY <1>1 DEF Accurate
<1>3. RecordedUnderItsImage' /\ SavedIsAccurate'
  BY <1>1, <1>2
  DEF TrackingInv, RecordedUnderItsImage, SavedIsAccurate, Quiet, OneCall, maps, TypeOK,
      IsProcMap
<1>4. EntriesAreLive' /\ ExecIsLive' /\ SavedOnlyInExec' /\ Speculative'
  BY <1>1
  DEF TrackingInv, EntriesAreLive, ExecIsLive, SavedOnlyInExec, Speculative, Live, maps
<1> QED
  BY <1>3, <1>4 DEF TrackingInv

\* sched_process_exit: the process is forgotten whichever thread exits.
LEMMA ExitStep ==
  ASSUME TypeOK, TrackingInv, NEW p \in Pid, NEW t \in Tid, trace_exit(p, t)
  PROVE  TrackingInv'
<1>1. /\ exec' = exec /\ exec[p][t] = NoBase
      /\ threads'[p] = threads[p] \ {t}
      /\ \A q \in Pid \ {p} : threads'[q] = threads[q] /\ image'[q] = image[q]
  BY DEF trace_exit, Idle, TypeOK
<1>2. /\ DOMAIN saved_execs' = DOMAIN saved_execs \ {p}
      /\ \A q \in DOMAIN saved_execs' : saved_execs'[q] = saved_execs[q]
      /\ DOMAIN proc_tree' = DOMAIN proc_tree \ {p}
      /\ \A q \in DOMAIN proc_tree' : proc_tree'[q] = proc_tree[q]
  BY DEF trace_exit, Untrack, delete_elem
<1>3. EntriesAreLive' /\ SavedOnlyInExec'
  BY <1>1, <1>2
  DEF TrackingInv, EntriesAreLive, SavedOnlyInExec, Live, TypeOK, IsProcMap
<1>4. ExecIsLive'
  BY <1>1 DEF TrackingInv, ExecIsLive
<1>5. RecordedUnderItsImage'
  BY <1>1, <1>2
  DEF TrackingInv, RecordedUnderItsImage, Quiet, Accurate, TypeOK, IsProcMap
<1>6. SavedIsAccurate'
  BY <1>1, <1>2 DEF TrackingInv, SavedIsAccurate, OneCall, Accurate, TypeOK, IsProcMap
<1>7. Speculative'
  BY <1>1, <1>2 DEF TrackingInv, Speculative, TypeOK, IsProcMap
<1> QED
  BY <1>3, <1>4, <1>5, <1>6, <1>7 DEF TrackingInv

\* No step of any process, hook or reader disturbs the tracking.
LEMMA TrackingStep == TypeOK /\ TrackingInv /\ [Next]_vars => TrackingInv'
<1> SUFFICES ASSUME TypeOK, TrackingInv, [Next]_vars PROVE TrackingInv'
  OBVIOUS
<1>1. ASSUME NEW p \in Pid, Process(p) PROVE TrackingInv'
  <2>1. CASE Boot(p)
    BY <2>1, BirthStep DEF Boot
  <2>2. ASSUME NEW c \in Pid, Fork(p, c) PROVE TrackingInv'
    BY <2>2, BirthStep DEF Fork
  <2>3. ASSUME NEW t \in Tid, NewThread(p, t) PROVE TrackingInv'
    BY <2>3, NewThreadStep
  <2>4. ASSUME NEW t \in Tid, NEW b \in Base, trace_execve(p, t, b) PROVE TrackingInv'
    BY <2>4, ExecveStep
  <2>5. ASSUME NEW t \in Tid, ExecveSuccess(p, t) PROVE TrackingInv'
    BY <2>5, SuccessStep
  <2>6. ASSUME NEW t \in Tid, ExecveFailure(p, t) PROVE TrackingInv'
    BY <2>6, FailureStep
  <2>7. ASSUME NEW t \in Tid, trace_exit(p, t) PROVE TrackingInv'
    BY <2>7, ExitStep
  <2>8. ASSUME NEW t \in Tid, ExecveatSuccess(p, t) PROVE TrackingInv'
    BY <2>8, ExecveatStep
  <2> QED
    BY <1>1, <2>1, <2>2, <2>3, <2>4, <2>5, <2>6, <2>7, <2>8 DEF Process
<1>2. ASSUME NEW p \in Pid, Hook(p) PROVE TrackingInv'
  <2>1. UNCHANGED <<procs, maps>>
    BY <1>2 DEF Hook, trace_openat, trace_connect, trace_memfd_create, trace_execveat,
                trace_fchmodat, trace_bpf, trace_getaddrinfo, Report
  <2> QED
    BY <2>1, QuietStep
<1>3. CASE ReadEvent
  BY <1>3, QuietStep DEF ReadEvent
<1>4. CASE UNCHANGED vars
  BY <1>4, QuietStep DEF vars, procs, maps
<1> QED
  BY <1>1, <1>2, <1>3, <1>4 DEF Next

\* The tracking invariant holds throughout.
LEMMA TrackingHolds == Spec => []TrackingInv
<1>1. Init => TrackingInv
  BY DEF Init, TrackingInv, EntriesAreLive, ExecIsLive, SavedOnlyInExec,
         RecordedUnderItsImage, Speculative, SavedIsAccurate
<1> QED
  BY <1>1, TypeCorrect, TrackingStep, PTL DEF Spec

\* No entry, current or saved, outlives its process.
THEOREM EntriesLive == Spec => []EntriesAreLive
<1>1. TrackingInv => EntriesAreLive
  BY DEF TrackingInv
<1> QED
  BY <1>1, TrackingHolds, PTL

\* However the execve calls of the threads of a process interleave, an entry
\* is saved only while one of them is in flight.
THEOREM SavedInExec == Spec => []SavedOnlyInExec
<1>1. TrackingInv => SavedOnlyInExec
  BY DEF TrackingInv
<1> QED
  BY <1>1, TrackingHolds, PTL

\* A tracked process without an execve in flight is recorded under the
\* program it runs, unless that is no known tool or was started by execveat,
\* for any number of threads and with maps of any size, full ones included.
THEOREM RecordedRight == Spec => []RecordedUnderItsImage
<1>1. TrackingInv => RecordedUnderItsImage
  BY DEF TrackingInv
<1> QED
  BY <1>1, TrackingHolds, PTL

-------------------------------------------------------------------------------
(* Where entries and records come from.                                     *)

\* A submission adds the one record it is given, or nothing.
LEMMA SubmitRing ==
  ASSUME TypeOK, NEW e, Submit(e), NEW i \in DOMAIN events'
  PROVE  events'[i] = e \/ \E j \in DOMAIN events : events'[i] = events[j]
<1>1. events \in Seq(EventRecord)
  BY DEF TypeOK
<1>2. CASE events' = Append(events, e)
  <2>1. /\ DOMAIN events = 1 .. Len(events)
        /\ DOMAIN events' = 1 .. Len(events) + 1
        /\ \A j \in 1 .. Len(events) : events'[j] = events[j]
        /\ events'[Len(events) + 1] = e
        /\ Len(events) \in Nat
    BY <1>1, <1>2
  <2>2. i \in 1 .. Len(events) \/ i = Len(events) + 1
    BY <2>1
  <2> QED
    BY <2>1, <2>2
<1>3. CASE events' = events
  BY <1>3
<1> QED
  BY <1>2, <1>3 DEF Submit

\* The reader only takes records away.
LEMMA ReadRing ==
  ASSUME TypeOK, ReadEvent, NEW i \in DOMAIN events'
  PROVE  \E j \in DOMAIN events : events'[i] = events[j]
<1>1. /\ DOMAIN events' = 1 .. Len(events) - 1
      /\ \A j \in 1 .. Len(events) - 1 : events'[j] = events[j + 1]
      /\ DOMAIN events = 1 .. Len(events) /\ Len(events) \in Nat
  BY DEF ReadEvent, TypeOK
<1>2. i + 1 \in DOMAIN events
  BY <1>1
<1> QED
  BY <1>1, <1>2

\* An entry is written by an execve of its own process, for a chain of
\* interest.
Recorded(p, info) ==
  \E t \in Tid, b \in Base :
    trace_execve(p, t, b) /\ ~NotOfInterest(p, b) /\ info = ExecInfo(p, b)

TreeSources ==
  \A p \in DOMAIN proc_tree' :
    \/ p \in DOMAIN proc_tree /\ proc_tree'[p] = proc_tree[p]
    \/ p \in DOMAIN saved_execs /\ proc_tree'[p] = saved_execs[p]
    \/ Recorded(p, proc_tree'[p])

SavedSources ==
  \A p \in DOMAIN saved_execs' :
    \/ p \in DOMAIN saved_execs /\ saved_execs'[p] = saved_execs[p]
    \/ p \in DOMAIN proc_tree /\ saved_execs'[p] = proc_tree[p]

\* The severity the programs put on a record, where it follows from the type
\* of the record and the phase of the process.
RatedAs(type, phase, sev) ==
  /\ type \in {"exec", "file_open", "dns_lookup"} => sev = SEV_INFO
  /\ type = "net_connect" =>
       sev = IF phase \in {PHASE_COMPILE, PHASE_LINK} THEN SEV_CRITICAL ELSE SEV_INFO
  /\ type = "file_write" =>
       sev = IF phase \in {PHASE_COMPILE, PHASE_BUILD} THEN SEV_HIGH
             ELSE IF phase = PHASE_INSTALL THEN SEV_LOW ELSE SEV_MEDIUM
  /\ type = "memfd_create" => sev = SEV_HIGH

RingSources ==
  \A i \in DOMAIN events' :
    \/ \E j \in DOMAIN events : events'[i] = events[j]
    \/ \E p \in Pid : \E type, sev, info, arg :
         /\ events'[i] = Event(type, sev, p, info, arg)
         /\ RatedAs(type, info.phase, sev)
         /\ \/ p \in DOMAIN proc_tree /\ info = proc_tree[p]
            \/ Recorded(p, info)

\* Whatever a process's step puts into a map or into the ring buffer stems from
\* an entry or from an execve call of that process.
LEMMA ProcessSources ==
  ASSUME TypeOK, NEW p \in Pid, Process(p)
  PROVE  TreeSources /\ SavedSources /\ RingSources
<1>1. CASE UNCHANGED <<maps, ring>>
  BY <1>1 DEF TreeSources, SavedSources, RingSources, maps, ring
<1>2. ASSUME NEW t \in Tid, NEW b \in Base, trace_execve(p, t, b)
      PROVE  TreeSources /\ SavedSources /\ RingSources
  <2>1. CASE ~NotOfInterest(p, b) /\ RecordExec(p, b)
    <3>0. Recorded(p, ExecInfo(p, b))
      BY <1>2, <2>1 DEF Recorded
    <3>1. TreeSources
      BY <2>1, <3>0, UpdateElem DEF RecordExec, TreeSources
    <3>2. SavedSources
      BY <2>1, UpdateElem DEF RecordExec, SaveExisting, Tracked, SavedSources
    <3>3. PICK a \in ExecArgs :
            Submit(Event("exec", SEV_INFO, p, ExecInfo(p, b), ExecFlags(b, a)))
      BY <2>1 DEF RecordExec
    <3>4. RatedAs("exec", ExecInfo(p, b).phase, SEV_INFO)
      BY DEF RatedAs
    <3>5. RingSources
      BY <3>0, <3>3, <3>4, SubmitRing DEF RingSources
    <3> QED
      BY <3>1, <3>2, <3>5
  <2> QED
    BY <1>1, <1>2, <2>1 DEF trace_execve
<1>3. ASSUME NEW t \in Tid, ExecveSuccess(p, t) \/ ExecveFailure(p, t) \/ trace_exit(p, t)
      PROVE  TreeSources /\ SavedSources /\ RingSources
  <2>1. SavedSources /\ RingSources
    BY <1>3
    DEF ExecveSuccess, ExecveFailure, trace_exit, DropSaved, Untrack, delete_elem, ring,
        SavedSources, RingSources
  <2>2. TreeSources
    BY <1>3, UpdateElem
    DEF ExecveSuccess, ExecveFailure, RestoreEntry, trace_exit, Untrack, delete_elem,
        TreeSources
  <2> QED
    BY <2>1, <2>2
<1> QED
  BY <1>1, <1>2, <1>3 DEF Process, Boot, Fork, NewThread, ExecveatSuccess

\* Every hook reports the process's own entry, at the severity of its type.
LEMMA HookReports ==
  ASSUME NEW p \in Pid, Hook(p)
  PROVE  \E type, sev, arg :
           Report(p, type, sev, arg) /\ RatedAs(type, proc_tree[p].phase, sev)
<1>1. ASSUME NEW path \in Paths, NEW w \in BOOLEAN, trace_openat(p, path, w)
      PROVE  \E type, sev, arg :
               Report(p, type, sev, arg) /\ RatedAs(type, proc_tree[p].phase, sev)
  <2>1. CASE Report(p, "file_write", WriteSeverity(p), {path})
    <3> DEFINE early == InPhase(p, {PHASE_COMPILE, PHASE_BUILD})
               inst  == InPhase(p, {PHASE_INSTALL})
    <3>a. /\ early <=> proc_tree[p].phase \in {PHASE_COMPILE, PHASE_BUILD}
          /\ inst <=> proc_tree[p].phase = PHASE_INSTALL
          /\ ~(early /\ inst)
      BY <2>1 DEF InPhase, Report, PHASE_COMPILE, PHASE_BUILD, PHASE_INSTALL
    <3>b. /\ early /\ ~inst => WriteSeverity(p) = SEV_HIGH
          /\ inst /\ ~early => WriteSeverity(p) = SEV_LOW
          /\ ~early /\ ~inst => WriteSeverity(p) = SEV_MEDIUM
      BY Zenon DEF WriteSeverity
    <3>1. RatedAs("file_write", proc_tree[p].phase, WriteSeverity(p))
      BY <3>a, <3>b DEF RatedAs
    <3> QED
      BY <2>1, <3>1
  <2>2. CASE Report(p, "file_open", SEV_INFO, {path})
    BY <2>2 DEF RatedAs
  <2> QED
    BY <1>1, <2>1, <2>2 DEF trace_openat
<1>2. ASSUME NEW dest \in Dests, trace_connect(p, dest)
      PROVE  \E type, sev, arg :
               Report(p, type, sev, arg) /\ RatedAs(type, proc_tree[p].phase, sev)
  <2> DEFINE sev == IF InPhase(p, {PHASE_COMPILE, PHASE_LINK}) THEN SEV_CRITICAL ELSE SEV_INFO
  <2>1. Report(p, "net_connect", sev, {dest})
    BY <1>2 DEF trace_connect
  <2>2. RatedAs("net_connect", proc_tree[p].phase, sev)
    BY <2>1 DEF RatedAs, InPhase, Report
  <2> QED
    BY <2>1, <2>2
<1>3. ASSUME NEW path \in Paths, NEW mode \in Modes, trace_fchmodat(p, path, mode)
      PROVE  \E type, sev, arg :
               Report(p, type, sev, arg) /\ RatedAs(type, proc_tree[p].phase, sev)
  BY <1>3 DEF trace_fchmodat, RatedAs
<1>4. CASE trace_memfd_create(p) \/ trace_execveat(p) \/ trace_bpf(p) \/ trace_getaddrinfo(p)
  BY <1>4 DEF trace_memfd_create, trace_execveat, trace_bpf, trace_getaddrinfo, RatedAs
<1> QED
  BY <1>1, <1>2, <1>3, <1>4 DEF Hook

\* The same for every step.
LEMMA Sources ==
  ASSUME TypeOK, [Next]_vars
  PROVE  TreeSources /\ SavedSources /\ RingSources
<1>1. ASSUME NEW p \in Pid, Hook(p) PROVE TreeSources /\ SavedSources /\ RingSources
  <2>1. PICK type, sev, arg :
          Report(p, type, sev, arg) /\ RatedAs(type, proc_tree[p].phase, sev)
    BY <1>1, HookReports
  <2>2. RingSources
    BY <2>1, SubmitRing DEF Report, Tracked, RingSources
  <2> QED
    BY <2>1, <2>2 DEF Report, TreeSources, SavedSources, maps
<1>2. CASE ReadEvent
  BY <1>2, ReadRing DEF ReadEvent, TreeSources, SavedSources, RingSources, maps
<1>3. CASE UNCHANGED vars
  BY <1>3 DEF vars, TreeSources, SavedSources, RingSources
<1> QED
  BY <1>1, <1>2, <1>3, ProcessSources DEF Next

-------------------------------------------------------------------------------
(* Classification.                                                          *)

\* trace_execve passes the early exit only for a tool or below a classified
\* entry, so the entry it builds is classified.
LEMMA ExecInfoClassified ==
  ASSUME TypeOK, ChainsAreClassified, NEW p \in Pid, NEW b \in Base,
         ~NotOfInterest(p, b)
  PROVE  Classified(ExecInfo(p, b))
<1>1. CASE Parented(p)
  <2>1. Classified(proc_tree[get_ppid(p)])
    BY <1>1 DEF ChainsAreClassified, Parented
  <2> QED
    BY <1>1, <2>1 DEF ExecInfo, ExecPhase, Classified, IsTool
<1>2. CASE ~Parented(p)
  BY <1>2 DEF NotOfInterest, ExecInfo, Classified, IsTool
<1> QED
  BY <1>1, <1>2

\* A record is as classified as the entry it is built from.
LEMMA EventClassified ==
  ASSUME NEW type, NEW sev, NEW p, NEW info, NEW arg, Classified(info)
  PROVE  Classified(Event(type, sev, p, info, arg))
  BY DEF Event, Classified

\* No step stores or submits an unclassified chain.
LEMMA ClassifiedStep ==
  ASSUME TypeOK, ChainsAreClassified, [Next]_vars
  PROVE  ChainsAreClassified'
<1>1. TypeOK'
  BY TypeStep
<1>2. \A p \in Pid : \A info : Recorded(p, info) => Classified(info)
  BY ExecInfoClassified DEF Recorded
<1>3. \A p \in DOMAIN proc_tree' : Classified(proc_tree'[p])
  BY <1>1, <1>2, Sources DEF TreeSources, ChainsAreClassified, TypeOK, IsProcMap
<1>4. \A p \in DOMAIN saved_execs' : Classified(saved_execs'[p])
  BY Sources DEF SavedSources, ChainsAreClassified
<1>5. \A i \in DOMAIN events' : Classified(events'[i])
  BY <1>2, Sources, EventClassified DEF RingSources, ChainsAreClassified
<1> QED
  BY <1>3, <1>4, <1>5 DEF ChainsAreClassified

\* Causal phase attribution: every entry and every record names a known tool
\* as its root, has a phase, and has a known tool's own phase.
THEOREM ChainsClassified == Spec => []ChainsAreClassified
<1>1. Init => ChainsAreClassified
  BY DEF Init, ChainsAreClassified
<1>2. TypeOK /\ ChainsAreClassified /\ [Next]_vars => ChainsAreClassified'
  BY ClassifiedStep
<1> QED
  BY <1>1, <1>2, TypeCorrect, PTL DEF Spec

===============================================================================
