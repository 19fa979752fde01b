-------------------------- MODULE Attribution_proofs --------------------------
(***************************************************************************)
(* Theorems about Attribution: the repair of a failed execve and the       *)
(* attribution of every chain, for any number of processes and threads and *)
(* any capacity of the maps.                                               *)
(***************************************************************************)
EXTENDS Attribution, BpfTracker_proofs

\* The history variables only watch.
LEMMA Watches == ASpec => Spec
<1>1. AInit => Init
  BY DEF AInit
<1>2. [ANext]_avars => [Next]_vars
  BY DEF ANext, avars
<1> QED
  BY <1>1, <1>2, PTL DEF ASpec, Spec

\* Map operations on one key keep the other keys.
SameAt(x, m, u) ==
  /\ x \in DOMAIN u <=> x \in DOMAIN m
  /\ x \in DOMAIN m => u[x] = m[x]

\* What a step of somebody else leaves alone.
KeepsEntries(p) ==
  SameAt(p, proc_tree, proc_tree') /\ SameAt(p, saved_execs, saved_execs')

\* An update of a map changes no entry but that of its key.
LEMMA UpdateOther ==
  ASSUME NEW m, NEW k, NEW x, x # k, NEW v, NEW max
  PROVE  SameAt(x, m, update_elem(m, k, v, max))
  BY DEF update_elem, Fits, SameAt

\* Neither does a deletion.
LEMMA DeleteOther ==
  ASSUME NEW m, NEW k, NEW x, x # k
  PROVE  SameAt(x, m, delete_elem(m, k))
  BY DEF delete_elem, SameAt

\* While the only thread of a process is in execve, a step either returns from
\* that call or leaves the process, its thread and its entries as they are.
LEMMA AloneStep ==
  ASSUME TypeOK, TrackingInv, Next, NEW p \in Pid, NEW t \in Tid,
         exec[p][t] # NoBase, threads[p] = {t}, exec'[p][t] # NoBase
  PROVE  exec'[p][t] = exec[p][t] /\ threads'[p] = {t} /\ KeepsEntries(p)
<1>0. Live(p) /\ ~Running(p) /\ \A u \in Tid : ~Idle(p, u)
  BY DEF Live, Running, Idle
<1>1. ASSUME NEW q \in Pid, Process(q)
      PROVE  exec'[p][t] = exec[p][t] /\ threads'[p] = {t} /\ KeepsEntries(p)
  <2>1. CASE Boot(q)
    BY <2>1, <1>0 DEF Boot, KeepsEntries, SameAt, maps, TypeOK
  <2>2. ASSUME NEW c \in Pid, Fork(q, c)
        PROVE  exec'[p][t] = exec[p][t] /\ threads'[p] = {t} /\ KeepsEntries(p)
    BY <2>2, <1>0 DEF Fork, KeepsEntries, SameAt, maps, TypeOK
  <2>3. ASSUME NEW u \in Tid, NewThread(q, u)
        PROVE  exec'[p][t] = exec[p][t] /\ threads'[p] = {t} /\ KeepsEntries(p)
    BY <2>3, <1>0 DEF NewThread, KeepsEntries, SameAt, maps, TypeOK
  <2>4. ASSUME NEW u \in Tid, NEW b \in Base, trace_execve(q, u, b)
        PROVE  exec'[p][t] = exec[p][t] /\ threads'[p] = {t} /\ KeepsEntries(p)
    <3>1. q # p
      BY <2>4, <1>0 DEF trace_execve
    <3>2. /\ \/ proc_tree' = update_elem(proc_tree, q, ExecInfo(q, b), MaxProc)
             \/ proc_tree' = proc_tree
          /\ \/ saved_execs' = update_elem(saved_execs, q, proc_tree[q], MaxSaved)
             \/ saved_execs' = saved_execs
      BY <2>4 DEF trace_execve, RecordExec, SaveExisting, maps
    <3>3. KeepsEntries(p)
      <4>1. SameAt(p, proc_tree, update_elem(proc_tree, q, ExecInfo(q, b), MaxProc))
        BY <3>1, UpdateOther
      <4>2. SameAt(p, saved_execs, update_elem(saved_execs, q, proc_tree[q], MaxSaved))
        BY <3>1, UpdateOther
      <4>3. SameAt(p, proc_tree, proc_tree) /\ SameAt(p, saved_execs, saved_execs)
        BY DEF SameAt
      <4>4. SameAt(p, proc_tree, proc_tree')
        BY <3>2, <4>1, <4>3, Zenon
      <4>5. SameAt(p, saved_execs, saved_execs')
        BY <3>2, <4>2, <4>3, Zenon
      <4> QED
        BY <4>4, <4>5 DEF KeepsEntries
    <3> QED
      BY <2>4, <3>1, <3>3 DEF trace_execve, TypeOK
  <2>5. ASSUME NEW u \in Tid, ExecveSuccess(q, u)
        PROVE  exec'[p][t] = exec[p][t] /\ threads'[p] = {t} /\ KeepsEntries(p)
    <3>1. q # p
      BY <2>5 DEF ExecveSuccess, TypeOK
    <3>2. KeepsEntries(p)
      BY <2>5, <3>1, DeleteOther DEF ExecveSuccess, DropSaved, KeepsEntries, SameAt
    <3> QED
      BY <2>5, <3>1, <3>2 DEF ExecveSuccess, TypeOK
  <2>6. ASSUME NEW u \in Tid, ExecveFailure(q, u)
        PROVE  exec'[p][t] = exec[p][t] /\ threads'[p] = {t} /\ KeepsEntries(p)
    <3>1. q # p
      <4>1. q = p => u = t
        BY <2>6 DEF ExecveFailure, TrackingInv, ExecIsLive
      <4> QED
        BY <2>6, <4>1 DEF ExecveFailure, TypeOK
    <3>2. /\ \/ proc_tree' = update_elem(proc_tree, q, saved_execs[q], MaxProc)
             \/ proc_tree' = delete_elem(proc_tree, q)
          /\ saved_execs' = delete_elem(saved_execs, q)
      BY <2>6 DEF ExecveFailure, RestoreEntry, DropSaved
    <3>3. KeepsEntries(p)
      <4>1. SameAt(p, proc_tree, update_elem(proc_tree, q, saved_execs[q], MaxProc))
        BY <3>1, UpdateOther
      <4>2. SameAt(p, proc_tree, delete_elem(proc_tree, q))
        BY <3>1, DeleteOther
      <4>3. SameAt(p, saved_execs, saved_execs')
        BY <3>1, <3>2, DeleteOther
      <4>4. SameAt(p, proc_tree, proc_tree')
        BY <3>2, <4>1, <4>2, Zenon
      <4> QED
        BY <4>3, <4>4 DEF KeepsEntries
    <3> QED
      BY <2>6, <3>1, <3>3 DEF ExecveFailure, TypeOK
  <2>7. ASSUME NEW u \in Tid, trace_exit(q, u)
        PROVE  exec'[p][t] = exec[p][t] /\ threads'[p] = {t} /\ KeepsEntries(p)
    <3>1. q # p
      BY <2>7, <1>0 DEF trace_exit
    <3>2. KeepsEntries(p)
      BY <2>7, <3>1, DeleteOther, Zenon DEF trace_exit, Untrack, KeepsEntries
    <3> QED
      BY <2>7, <3>1, <3>2 DEF trace_exit, TypeOK
  <2>8. ASSUME NEW u \in Tid, ExecveatSuccess(q, u)
        PROVE  exec'[p][t] = exec[p][t] /\ threads'[p] = {t} /\ KeepsEntries(p)
    BY <2>8 DEF ExecveatSuccess, KeepsEntries, SameAt, maps
  <2> QED
    BY <1>1, <2>1, <2>2, <2>3, <2>4, <2>5, <2>6, <2>7, <2>8 DEF Process
<1>2. CASE UNCHANGED <<procs, maps>>
  BY <1>2 DEF procs, maps, KeepsEntries, SameAt
<1>3. (\E q \in Pid : Hook(q)) \/ ReadEvent => UNCHANGED <<procs, maps>>
  BY DEF Hook, trace_openat, trace_connect, trace_memfd_create, trace_execveat,
         trace_fchmodat, trace_bpf, trace_getaddrinfo, Report, ReadEvent
<1> QED
  BY <1>1, <1>2, <1>3 DEF Next

\* Only sys_enter_execve puts a thread into execve.
LEMMA EntersByExecve ==
  ASSUME TypeOK, Next, NEW p \in Pid, NEW t \in Tid,
         exec[p][t] = NoBase, exec'[p][t] # NoBase
  PROVE  trace_execve(p, t, exec'[p][t])
<1>1. ASSUME NEW q \in Pid, NEW u \in Tid, NEW b \in Base, trace_execve(q, u, b)
      PROVE  trace_execve(p, t, exec'[p][t])
  <2>1. q = p /\ u = t /\ exec'[p][t] = b
    BY <1>1 DEF trace_execve, TypeOK
  <2> QED
    BY <1>1, <2>1
<1>2. ASSUME NEW q \in Pid, NEW u \in Tid, ExecveSuccess(q, u) \/ ExecveFailure(q, u)
      PROVE  FALSE
  BY <1>2 DEF ExecveSuccess, ExecveFailure, TypeOK
<1>3. exec' # exec
  OBVIOUS
<1>4. ASSUME NEW q \in Pid, Process(q) PROVE trace_execve(p, t, exec'[p][t])
  BY <1>1, <1>2, <1>3, <1>4 DEF Process, Boot, Fork, NewThread, ExecveatSuccess, trace_exit
<1>5. ASSUME NEW q \in Pid, Hook(q) PROVE FALSE
  BY <1>3, <1>5 DEF Hook, trace_openat, trace_connect, trace_memfd_create, trace_execveat,
                    trace_fchmodat, trace_bpf, trace_getaddrinfo, Report, procs
<1>6. ~ReadEvent
  BY <1>3 DEF ReadEvent, procs
<1> QED
  BY <1>4, <1>5, <1>6 DEF Next

\* A call that begins alone, and can be saved, saves what it overwrites.
LEMMA SnapshotTaken ==
  ASSUME TypeOK, TrackingInv, NEW p \in Pid, NEW t \in Tid, NEW b \in Base,
         trace_execve(p, t, b), threads[p] = {t}, Snapshot(p, t, b).saved
  PROVE  \/ Entry(p) = {} /\ p \notin DOMAIN saved_execs'
         \/ /\ p \in DOMAIN saved_execs' /\ p \in DOMAIN proc_tree'
            /\ Entry(p) = {saved_execs'[p]}
<1>1. p \notin DOMAIN saved_execs
  BY DEF trace_execve, Idle, TrackingInv, SavedOnlyInExec
<1>2. RecordExec(p, b) /\ (Tracked(p) => Fits(saved_execs, p, MaxSaved))
  BY DEF Snapshot, trace_execve
<1>3. CASE Tracked(p)
  <2>1. saved_execs' = [x \in DOMAIN saved_execs \cup {p} |->
                          IF x = p THEN proc_tree[p] ELSE saved_execs[x]]
    BY <1>2, <1>3 DEF RecordExec, SaveExisting, update_elem
  <2>2. p \in DOMAIN proc_tree'
    BY <1>2, <1>3, UpdateElem DEF RecordExec, Tracked
  <2>3. Entry(p) = {proc_tree[p]}
    BY <1>3 DEF Entry, Tracked
  <2> QED
    BY <2>1, <2>2, <2>3
<1>4. CASE ~Tracked(p)
  BY <1>1, <1>2, <1>4 DEF RecordExec, SaveExisting, Entry, Tracked
<1> QED
  BY <1>3, <1>4

\* No step breaks RestoreInv.
LEMMA RestoreStep ==
  ASSUME TypeOK, TrackingInv, RestoreInv, [ANext]_avars
  PROVE  RestoreInv'
<1>1. CASE UNCHANGED avars
  BY <1>1 DEF avars, vars, RestoreInv, AloneInExec, SavedIsSnapshot
<1>2. CASE ANext
  <2> SUFFICES ASSUME NEW p \in Pid, NEW t \in Tid,
                      exec'[p][t] # NoBase, before'[p][t].alone
               PROVE  /\ threads'[p] = {t}
                      /\ before'[p][t].saved =>
                           \/ before'[p][t].entry = {} /\ p \notin DOMAIN saved_execs'
                           \/ /\ p \in DOMAIN saved_execs' /\ p \in DOMAIN proc_tree'
                              /\ before'[p][t].entry = {saved_execs'[p]}
    BY DEF RestoreInv, AloneInExec, SavedIsSnapshot
  <2>0. Next
    BY <1>2 DEF ANext
  <2>1. CASE exec[p][t] # NoBase
    <3>1. before'[p][t] = before[p][t]
      BY <1>2, <2>1 DEF ANext, Remember, SnapshotAfter
    <3>2. threads[p] = {t}
      BY <2>1, <3>1 DEF RestoreInv, AloneInExec
    <3>3. threads'[p] = {t} /\ KeepsEntries(p)
      BY <2>0, <2>1, <3>2, AloneStep
    <3> QED
      BY <2>1, <3>1, <3>3 DEF RestoreInv, SavedIsSnapshot, KeepsEntries, SameAt
  <2>2. CASE exec[p][t] = NoBase
    <3>1. trace_execve(p, t, exec'[p][t]) /\ exec'[p][t] \in Base
      <4>1. TypeOK'
        BY <2>0, TypeStep
      <4>2. exec'[p][t] \in Base
        BY <4>1 DEF TypeOK
      <4> QED
        BY <2>0, <2>2, <4>2, EntersByExecve
    <3>2. before'[p][t] = Snapshot(p, t, exec'[p][t])
      BY <1>2, <2>2 DEF ANext, Remember, SnapshotAfter
    <3>a. Snapshot(p, t, exec'[p][t]).alone = (threads[p] = {t})
      BY Zenon DEF Snapshot
    <3>3. threads[p] = {t} /\ before'[p][t].entry = Entry(p)
      <4>1. before'[p][t].entry = Entry(p)
        BY <3>2 DEF Snapshot
      <4> QED
        BY <3>a, <3>2, <4>1, Zenon
    <3>4. threads'[p] = {t}
      BY <3>1, <3>3 DEF trace_execve
    <3> QED
      BY <3>1, <3>2, <3>3, <3>4, SnapshotTaken
  <2> QED
    BY <2>1, <2>2
<1> QED
  BY <1>1, <1>2

\* The saved entry stays the one that was there before the execve.
LEMMA RestoreHolds == ASpec => []RestoreInv
<1>1. AInit => RestoreInv
  BY DEF AInit, Init, RestoreInv, AloneInExec, SavedIsSnapshot
<1> QED
  BY <1>1, Watches, TypeCorrect, TrackingHolds, RestoreStep, PTL DEF ASpec

\* trace_execve_exit repairs proc_tree: a failed execve of a process with one
\* thread that trace_execve recorded, with room to save the old entry, leaves
\* that entry, whatever every other process did in between.
THEOREM FailureRestores == ASpec => RecordedExecRestores
<1>1. TypeOK /\ RestoreInv => Restores
  <2> SUFFICES ASSUME TypeOK, RestoreInv, NEW p \in Pid, NEW t \in Tid,
                      ExecveFailure(p, t), before[p][t].alone, before[p][t].saved
               PROVE  Entry(p)' = before[p][t].entry
    BY DEF Restores
  <2>1. \/ before[p][t].entry = {} /\ p \notin DOMAIN saved_execs
        \/ /\ p \in DOMAIN saved_execs /\ p \in DOMAIN proc_tree
           /\ before[p][t].entry = {saved_execs[p]}
    BY DEF RestoreInv, SavedIsSnapshot, ExecveFailure
  <2>2. CASE p \notin DOMAIN saved_execs
    <3>1. p \notin DOMAIN proc_tree'
      BY <2>2 DEF ExecveFailure, RestoreEntry, delete_elem
    <3> QED
      BY <2>1, <2>2, <3>1 DEF Entry
  <2>3. CASE p \in DOMAIN saved_execs
    <3>1. p \in DOMAIN proc_tree' /\ proc_tree'[p] = saved_execs[p]
      BY <2>1, <2>3, UpdateElem DEF ExecveFailure, RestoreEntry
    <3> QED
      BY <2>1, <2>3, <3>1 DEF Entry
  <2> QED
    BY <2>2, <2>3
<1> QED
  BY <1>1, Watches, TypeCorrect, RestoreHolds, PTL DEF RecordedExecRestores

-------------------------------------------------------------------------------
(* Attribution.                                                             *)

\* An execve that is entered is an attempt.
LEMMA ExecveIsAttempt ==
  ASSUME TypeOK, NEW p \in Pid, NEW t \in Tid, NEW b \in Base, trace_execve(p, t, b)
  PROVE  <<p, b>> \in Attempts
<1>1. exec[p][t] = NoBase /\ exec'[p][t] = b
  BY DEF trace_execve, Idle, TypeOK
<1> QED
  BY <1>1 DEF Attempts

\* The entry trace_execve builds starts a chain at its own call, or carries
\* on the one it finds under its parent.
LEMMA RecordedAttempt ==
  ASSUME TypeOK, AttributedToAnAttempt, NEW p \in Pid, NEW info, Recorded(p, info)
  PROVE  RootRun(info) \in attempted \cup Attempts
<1>1. PICK t \in Tid, b \in Base : trace_execve(p, t, b) /\ info = ExecInfo(p, b)
  BY DEF Recorded
<1>2. CASE Parented(p)
  <2>1. RootRun(info) = RootRun(proc_tree[get_ppid(p)])
    BY <1>1, <1>2 DEF ExecInfo, RootRun
  <2> QED
    BY <1>2, <2>1 DEF AttributedToAnAttempt, Parented
<1>3. CASE ~Parented(p)
  <2>1. RootRun(info) = <<p, b>>
    BY <1>1, <1>3 DEF ExecInfo, RootRun
  <2> QED
    BY <1>1, <2>1, ExecveIsAttempt
<1> QED
  BY <1>2, <1>3

\* A root that an entry or a record names never ceases to be an attempted run.
LEMMA AttemptStep ==
  ASSUME TypeOK, AttributedToAnAttempt, [ANext]_avars
  PROVE  AttributedToAnAttempt'
<1>1. CASE UNCHANGED avars
  BY <1>1 DEF avars, vars, AttributedToAnAttempt, RootRun
<1>2. CASE ANext
  <2>0. [Next]_vars /\ attempted' = attempted \cup Attempts
    BY <1>2 DEF ANext, Remember
  <2>1. \A p \in Pid : \A info : Recorded(p, info) => RootRun(info) \in attempted'
    BY <2>0, RecordedAttempt
  <2>2. TypeOK'
    BY <2>0, TypeStep
  <2>3. \A p \in DOMAIN proc_tree' : RootRun(proc_tree'[p]) \in attempted'
    BY <2>0, <2>1, <2>2, Sources DEF TreeSources, AttributedToAnAttempt, TypeOK, IsProcMap
  <2>4. \A p \in DOMAIN saved_execs' : RootRun(saved_execs'[p]) \in attempted'
    BY <2>0, Sources DEF SavedSources, AttributedToAnAttempt
  <2>5. ASSUME NEW i \in DOMAIN events' PROVE RootRun(events'[i]) \in attempted'
    <3>1. CASE \E j \in DOMAIN events : events'[i] = events[j]
      BY <2>0, <3>1 DEF AttributedToAnAttempt
    <3>2. ASSUME NEW p \in Pid, NEW type, NEW sev, NEW info, NEW arg,
                 events'[i] = Event(type, sev, p, info, arg),
                 \/ p \in DOMAIN proc_tree /\ info = proc_tree[p]
                 \/ Recorded(p, info)
          PROVE  RootRun(events'[i]) \in attempted'
      <4>1. RootRun(events'[i]) = RootRun(info)
        BY <3>2 DEF Event, RootRun
      <4> QED
        BY <2>0, <2>1, <3>2, <4>1 DEF AttributedToAnAttempt
    <3> QED
      BY <2>0, <3>1, <3>2, Sources DEF RingSources
  <2> QED
    BY <2>3, <2>4, <2>5 DEF AttributedToAnAttempt, RootRun
<1> QED
  BY <1>1, <1>2

\* No chain is invented: whatever forks, execs, exits, reparenting, lost map
\* updates and pid reuse do, the root a chain names, pid and program together,
\* is an execve call that some process issued.
THEOREM ChainsAreAttributed == ASpec => []AttributedToAnAttempt
<1>1. AInit => AttributedToAnAttempt
  BY DEF AInit, Init, AttributedToAnAttempt
<1> QED
  BY <1>1, Watches, TypeCorrect, AttemptStep, PTL DEF ASpec

===============================================================================
