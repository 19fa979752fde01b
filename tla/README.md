# chainscope in TLA+

A verification development for chainscope, an eBPF monitor that follows package
managers and their build tools, attributes every event to the invocation it
descends from, and reports suspicious behaviour. The modules are translated from
the source (`bpf/`, `internal/`, `cmd/`). TLC checks them on small instances;
TLAPS proves the most important properties for every value of the constants.
`PROJECT.json` maps each definition to the lines it models and lists the runs,
mutants, findings, hazards and theorems.

## Inventory

| Component | State | Operations | Hard part |
|---|---|---|---|
| kernel tracker, `bpf/chainscope.c` | maps `proc_tree`, `saved_execs`, ring buffer `events`, `drop_count` | `trace_execve`, `trace_execve_exit`, `trace_exit`, seven reporting hooks | handlers of all processes and threads interleave; an entry is written before the execve is known to succeed; maps keyed by process while calls and exits are per thread; reparenting, pid reuse, full maps, full ring |
| loader, `internal/loader` | ring reader, links, objects | `New`, `ReadEvent`, `SeedPID`, `DroppedEvents`, `Close` | `SeedPID` writes `proc_tree` while the command already runs; `Close` from another goroutine |
| detector, `internal/detector/detector.go` | none | `Check` and one function per rule | severities and path tests are decided twice, in the kernel program and here |
| deduplicator, `internal/detector/dedup.go` | `seen`: key -> time | `Filter` | TTL boundary, eviction, a key without severity |
| CI mode, `runCI` in `cmd/chainscope/main.go` | `alertCount`, `cmdDone`, the SARIF results | event loop, waiting goroutine, shutdown | exit of the command races the reader; the verdict must agree with what was reported; the job must end |
| monitor mode, `main` | learner, enforcer, SARIF results; the two files on disk | event loop, signal goroutine, drop poller, restart | files are saved while the loop still runs; a run may be killed while it writes; a later run reads the profile |
| proctree, `internal/proctree` | pid -> node | `Add`, `Get`, `Size`, `Chain`, `Remove` (never called) | grows without bound; reused pids make stale nodes and cyclic parent links |
| policy, `internal/policy` | registry CIDRs | `Load`, `IsAllowedIP` | none (sequential) |
| baseline, `internal/baseline` | set of keys, the profile file | `Learn`, `Save`, `LoadProfile`, `Check` | saved concurrently with learning; the key, joined from raw bytes, must mean the same in another run and after a round trip through JSON |
| enricher, `internal/enricher` | none | `Enrich` | reads `/proc` late, in two reads, when the process may be gone or its pid reused |
| metrics, `internal/metrics` | counters | `RecordEvent`, `RecordAlert`, `SetProcTreeSize`, `SetDropped` | set from two goroutines |
| SARIF writer, `internal/output/sarif.go` | results, rules | `AddAlert`, `Close` | `Close` from another goroutine |
| output, `internal/output/output.go` | none | `WriteAlert`, `WriteEvent` | none (formatting) |

The parts interact as follows. The kernel runs a handler for each tracepoint; the
handlers share the maps and append to the ring buffer. The loader's reader takes
records from the ring; the main loop enters execs into the process tree, hands
each event to the learner and to `Check`, the alerts to `Filter`, adds what the
enforcer finds, and gives the survivors, with the container of their process, to
the writers and, in CI mode, to the verdict. In monitor mode a signal goroutine
saves the files and closes the loader, and, beside a metrics server, a poller copies
the drop counter.
`SeedPID` is the one userspace write into the kernel maps.

What makes the parts correct: a tracked process is recorded under the program it
runs and under the invocation it descends from; nothing outlives its process; a
failed execve leaves no trace; a chain always has a phase; the two severity
decisions agree; suppression lasts exactly the TTL and silences nothing else; the
CI verdict agrees with the alerts reported, and CI mode ends; a baseline means the
same behaviours in the run that enforces it as in the run that learned it; a
signal leaves complete files and ends the run; a loss that was counted is reported.

## Modules

| Module | Models | Builds on |
|---|---|---|
| `ChainTypes` | constants of `chainscope.h` and `types.go`; classifiers of basenames, paths and environment keys of both sides | |
| `BpfTracker` | the handlers of `chainscope.c` and the kernel processes they observe | `ChainTypes` |
| `Attribution` | `BpfTracker` with history variables: the entry before an execve, attempted runs | `BpfTracker` |
| `Descent` | two more history variables: successful runs and descent, for two sentences of the README | `Attribution` |
| `Detector` | `Check` and its rules, as operators on a record | `ChainTypes` |
| `Pipeline` | kernel programs and rule engine composed | `BpfTracker`, `Detector` |
| `CISeed` | starting and seeding the command in CI mode, concurrent with the kernel side | `Pipeline` |
| `AlertLimiter` | what the deduplicator promises | |
| `Dedup` | `Filter` with its table of times | refines `AlertLimiter` |
| `Enricher` | `Enrich` over the lines of the two `/proc` files | |
| `ProcTree` | the userspace tree: `Add`, `Size`, `Chain` | `Enricher` |
| `Baseline` | keys, `Save` and `LoadProfile` with a file that may be missing or cut short, `Check` of the enforcer | `Detector` |
| `EventLoop` | what both modes share: ring buffer, the loop, SARIF report in memory, counters | `Baseline`, `Dedup`, `ProcTree` |
| `CIRun` | `runCI` from the start of the command to its return | `EventLoop` |
| `Monitor` | `main` over several runs of the process, with the files between them | `EventLoop` |
| `BpfTracker_proofs`, `Attribution_proofs`, `Pipeline_proofs`, `CISeed_proofs`, `Dedup_proofs`, `CIRun_proofs`, `Monitor_proofs` | theorems | the module named |
| `EventLoop_proofs` | lemmas about the loop, for `CIRun_proofs` and `Monitor_proofs` | `EventLoop`, `Dedup_proofs` |
| `MC*` | bounded instances for TLC | the module named |

### The kernel side

A process (thread group) has a set of live threads, a parent, a program, and per
thread the execve it is inside of. `Fork`, `Boot`, `NewThread` and
`ExecveatSuccess` are kernel events that fire no handler. The last one is execveat(2)
returning 0: it replaces the program (the image becomes `ByExecveat`, whatever it is)
and no map changes, since `trace_execveat` is attached to the call's entry, reports
it with AT_EMPTY_PATH only, and never writes `proc_tree`. `trace_execve` is sys_enter_execve: its early exit
(`NotOfInterest`), the saved copy, the new entry and the record are one step.
sys_exit_execve is split by its result into `ExecveSuccess` and `ExecveFailure`.
A multi-threaded execve succeeds only after the other threads are gone, so each of
them first takes its own `trace_exit` step; a thread killed inside execve leaves
the call through sys_exit_execve first. `trace_exit` fires per thread and clears
the whole process. The reporting hooks look up the process, choose a severity and
submit a record.

Map capacities are constants (`MaxProc`, `MaxSaved`): an update of a full map fails
silently, as in the code. The ring buffer has `RingCap` slots; what does not fit
is lost. A handler runs to completion in one step; races on single map elements
between CPUs are not modelled.

`reserve_or_drop` as written calls itself where its comment says it reserves and
counts (chainscope.c:316-321). Such a recursion has no defined result. The committed
object file is older: it reserves, and has no counter at all. A build that did what the
comment says would also count. `Submit`, and `Emit` in `EventLoop`, allow both: a lost record increments
the counter (modulo `DropMod`) or does not. So no property may rely on a loss being
counted, and none does.

`proc_info.ppid` is written and never read, so it is left out. A basename is an
atom of at most 15 characters; the 16-byte truncation is not modelled.

### The userspace side

The detector is a function from a record to a set of alerts, an alert being rule
and severity. `IsAllowedIP` is membership in `AllowedDests`. Time in `Dedup` is a
discrete clock (`time.Now` is monotonic); `Filter` holds the mutex, so it is one
step. `offered` and `out` record the argument and the result of the latest call, so
that the limiter constrains what is suppressed and not only the table.

A step of the loop in `EventLoop` is `Take` (everything from `ReadEvent` to the
enriched alerts) or `WriteAlertOut` (one iteration over the alerts). Another
goroutine shares state with the loop in one place of each, under a lock: the
learner in `Take`, the SARIF writer in `WriteAlertOut`. The poller only stores one
counter. So no interleaving is lost. The kernel side is reduced to its output,
any sequence of the events in `Produce`. `ProcFiles` gives what the `/proc` files of
a pid may contain; `Enrich` may find the process gone before either read.

`CIRun` adds the command, the goroutine that waits for it, and the verdict. The
sleep before `l.Close()` is a step that may happen at any time: nothing in the code
ties it to the reader's progress. `Close` discards what is left in the ring.

`Monitor` adds start-up with the profile, the learner and the enforcer, the signal
goroutine (`Save`, `SaveReport`, `CloseLoader`, in the code's order), the poller,
and `Exit`, which is both the end of the process and its being killed at any
moment: memory is lost, the files stay. A file is absent, cut short or whole;
`os.WriteFile` may fail before it truncates or after, and a kill in the middle of it
leaves the same files as a failure. The ghost `of` in a profile is the set of events
its keys stand for; no action reads it. The flags `--learn`, `--enforce` and
`--metrics-addr` vary between runs; `--sarif` is always given, which only adds steps.
`Poll` exists only with the metrics flag (main.go:124). The other counters are kept in
either case, as nobody can read them without a server. `runCI` never polls.

A baseline key is the string `makeKey` prints. `Joined` represents it by its parts
between the separators: kind and phase, the parts that come from raw bytes (program
name, directory, host name), and what is printed from numbers. A name may contain a
`|`, so two behaviours can have one key, and the instance of `monitor` has such a pair
(the program `c|e` in `/tmp` and the program `c` in `e|/tmp`). `encoding/json` writes
U+FFFD for bytes that are not UTF-8, which is what a name cut at 16 bytes in the middle
of a character contains: `Profile` holds the keys as they are in the file (`OnDisk`),
while the enforcer computes its own keys from the raw bytes. The instance has such a
name.

The context of an alert is that of its pid's node, if the node has a container id
(main.go:195, 351).

## Runs

| Run | Question | Bounds |
|---|---|---|
| `tracker` | do the maps stay consistent with the processes? | 2 processes with 2 threads, programs pip, gcc, sh; `MaxProc` 1, `MaxSaved` 1 |
| `attribution` | is every chain attributed to a call that was made and classified, and is a failed call undone? | 2 processes, pip and sh, `MaxProc` 2, `MaxSaved` 1, ring of 1 |
| `pipeline` | do records and rules agree? | 2 processes, gcc, postinst and sh, all hooks, `MaxProc` 1, ring of 1, counter that wraps at 2 |
| `ci_seed` | what does seeding a running command break? | 2 processes, pip, gcc, sh, `MaxProc` 2, `MaxSaved` 1 |
| `ci_run` | do verdict and report agree, does the table of times implement the limiter, and does the run end? | 4 kinds of event, 3 events, ring of 2, TTL 2, 3 ticks |
| `monitor` | do profile, report, tree and counters survive signals, kills and restarts? | 6 kinds of event, 2 events, 2 runs (learning with metrics, or enforcing without), ring of 1, TTL 1, 1 tick |

Two processes give every relation the handlers look at: a process and its parent,
a process and an unrelated one, a pid before and after reuse. Two threads give
concurrent calls and the exit of a thread beside a running one. With `MaxProc` 1
(`tracker`, `pipeline`) `proc_tree` is full as soon as one process is tracked, so that
updates and restores fail, while the exec of a child is still reported; with
`MaxProc` 2 (`attribution`, `ci_seed`) there are chains of two entries, and `MaxSaved` 1
makes the map of saved entries full as soon as both processes are in execve. `SeedPID`
on a full map would need a third process, which makes `ci_seed` too large for TLC; its
theorems cover that case, as the proofs cover every larger instance. The paths of
`pipeline` include `/usr/lib/x`, on which the two install-path tests differ. In `ci_run` the clock runs past the TTL, so
suppression, the boundary, eviction and renewal all happen, and the theorem about
`Dedup` covers every TTL. In `monitor` two events are enough to learn in one run
and meet the same or another behaviour in the next, to close a cycle of parent
links (pid 2 reused below its former child), to fill the ring of one, and to have
an alert before and one after the report is saved; two runs are enough for a
profile to be written and read. Processes are symmetric and, in
`tracker`, so are threads; no run with symmetry checks liveness.

`ci_run` and `monitor` do not check deadlock: the program returns. All other runs
do.

Fairness: `CISpec` assumes weak fairness of the two goroutines (the Go scheduler
runs what can run) and none of the command or the kernel. `CommandExitEndsRun`
is therefore conditional on the command's exit. `MSpec` assumes weak fairness of the
loop, of the signal goroutine and of the poller (a ticker that keeps firing), and
none of signals, events, kills and restarts; `SignalEndsRun` and `LossIsReported`
are conditional on the process not being killed first. `LossIsReported` is about a
loss the kernel program counted, in a monitor that was started with metrics.

### What the code does differently from what it says

Six runs are expected to fail; each refutes a sentence of the repository.

- `failed_exec`: a root package manager that fails to exec a program that is no
  known tool loses its entry. `trace_execve` returns early and saves nothing, then
  `trace_execve_exit` deletes (`chainscope.c:445`: "we must restore the pre-exec
  entry"). `RecordedExecRestores` states what does hold.
- `attribution_run`: a child that execs while its parent's execve is undecided
  inherits the speculative entry, which stays when the parent's call fails
  (`README.md:7`: "attributed to the originating package manager invocation").
  `AttributedToAnAttempt` states what does hold.
- `attribution_descend`: a child whose parent exits before the child calls execve
  is not tracked (`README.md:5`: "tracks every process spawned by a package
  manager").
- `ci_seed_phase`: `SeedPID` overwrites the command's entry with phase unknown
  (`README.md:192`: the phase is "derived from the basename of the executing
  process"). `UnclassifiedOnlyBelowSeed` bounds the damage.
- `ci_run_verdict`: a HIGH alert behind a MEDIUM one with the same key is
  suppressed and not counted (`main.go:222`: "returns 1 if any HIGH+ alert was
  triggered"). `ExitCodeIsSound` and `NoKeyIsLost` state what does hold.
- `monitor_report`: the report is written before the loop is stopped, so an alert
  printed in between is in no report (`main.go:60`: "write SARIF 2.1.0 report to
  this path on exit"). `ReportIsAPrefix` and `ExitLeavesFiles` state what does hold.

More sentences are known to be loose and have no run of their own:

- `README.md:27` gives `chmod-exec-bit` the severity MEDIUM. `checkChmod` takes over
  the record's severity, and `trace_fchmodat` rates HIGH on an install path, so a chmod
  of a program in `/usr/bin` is reported as HIGH. `TestChmodExecBit`
  (detector_test.go:226) sets MEDIUM on `/usr/local/bin` by hand, which the kernel
  program would not do. `SeverityAgreement` holds with the code's severities.
- `README.md:24` gives `sensitive-file-read` HIGH; in the compile and link phases it is
  CRITICAL. `README.md:26` gives `chmod-suid-sgid` "CRITICAL / HIGH"; it is always CRITICAL.
- `README.md:25` says that a build tool's write to a system path is reported. A write
  below `/usr` but outside its bin directories, such as `/usr/lib`, passes the kernel
  program's test (chainscope.c:151) and is rated up to HIGH, but not the rule engine's
  (detector.go:33, 392): no rule reports it. The second half of `SeverityAgreement` says
  that nothing else rated MEDIUM or above goes unreported.
- `README.md:106` says "Any behaviour not seen during the learn run triggers a
  `baseline-deviation`", and `README.md:32` says the same. `makeKey` has no key for
  memfd_create, execveat and bpf events, which never deviate; a behaviour whose key
  collides with a learnt one, because a name contains `|`, does not either. Conversely a
  learnt behaviour with a name that is not UTF-8 is reported each time.
  `BaselineRoundTrip` states exactly what is reported.
- `README.md:192` derives the phase from "the basename of the executing process". What
  execveat starts keeps the name and the phase of the program before it.
- `chainscope.c:316` says that a failed reservation is counted "rather than losing it
  silently". See `Submit` above; besides, the counter is polled only beside a metrics
  server, and never in CI mode.
- `README.md:293` calls `chainscope_proctree_size` "Currently tracked processes", but
  `Remove` is never called.
- `README.md:237` says "Every alert automatically includes the container context of the
  offending process", but an alert has it only if the exec of its pid was seen and
  `/proc` still held the process when the loop got to it, and the node may be of an
  earlier process with that pid. `ContextIsOfItsPid` states what does hold.

## Proofs

All theorems hold for arbitrary sets of processes, threads, programs and inputs,
arbitrary map and ring capacities, and any number of events and runs. They assume:

- `TrackerAssumption`: the reaper is no tracked pid, "no program" and "started by
  execveat" are no basenames, the counter's modulus is positive;
- `TTLAssumption`: the TTL is positive;
- `LoopAssumption` and `AlertsAssumption`: the events the kernel may submit have one
  of the nine types, and `Rule`, `RootPid`, `Sev` and the pids of `ProcFiles` include
  what they mention (these constants are only the types of the events' fields);
- `ProcFilesAssumption`: a cgroup line that matches an expression of the enricher has
  a container id (each of them captures 64 digits, `enricher.go:22`);
- `MonitorAssumption`: the flags are those of the program.

TLC evaluates each of them on the instances of the runs.

### The kernel side

- `TypeCorrect`: `TypeOK` is inductive by itself, one lemma per group of handlers.
- `EntriesLive`, `SavedInExec`, `RecordedRight`: from `TrackingInv`, which is
  inductive relative to `TypeOK`. `RecordedUnderItsImage` speaks of processes with
  nothing in flight, so its proof needs to know what the maps hold during a call:
  a thread in execve is alive (`ExecIsLive`); a process whose only thread is in
  execve is already recorded under its target (`Speculative`), which makes
  `ExecveSuccess` safe; the saved entry is accurate while exactly one call is in
  flight (`SavedIsAccurate`), which makes `ExecveFailure` safe. With several calls
  in flight the saved entry may be wrong. (`Accurate` excepts programs that are no known
  tool, because of the early exit of `trace_execve`, and programs started by execveat,
  because no hook records them.) The first of them to fail restores it
  and clears it; the last finds nothing saved and removes the entry, so the wrong
  entry is gone by the time the process is quiet.
- `Sources`, the lemma the next results share: after any step an entry of `proc_tree`
  or `saved_execs` is one that was in either map before, or the one `trace_execve`
  records (`Recorded`); a record in the ring was there before, or is built from an
  entry and rated for that entry's phase (`RatedAs`).
- `ChainsClassified`: inductive relative to `TypeOK`; `trace_execve` passes its
  early exit only for a tool or below a classified entry.
- `ChainsAreAttributed`: `AttributedToAnAttempt` is inductive relative to `TypeOK`, as
  a root's run is attempted in the very step that records it, and attempts are never
  forgotten; that is why it survives the failures that refute `AttributedToARun`.
- `SeveritiesAgree`: from `RingRated`, which says of each record in the ring how its
  severity depends on its type and phase, and then rule by rule: what fires is at least
  as severe (`RatedAgrees`), and what is rated MEDIUM or above fires, except for writes
  outside the rule engine's install paths (`RatedReported`). The record is a copy, so
  later changes of the entry do not matter.
- `CompilerNetworkCritical`: from `ChainsClassified`, by which a record of a compiler or
  linker carries that tool's own phase, which `checkNet` looks at before the policy. It is
  about `Spec`, without `SeedPID`: a compiler that CI mode seeds has phase unknown, and its
  connections are rated like anybody's.
- `UnclassifiedConfined`: from `SeedInv`, the same statement for saved entries too,
  which a failed execve may bring back. `SeedPID` is one more source of entries, the
  only one outside the kernel programs.
- `OnlyTheSeedOutlives`: inductive with `ExecIsLive`; `SeedPID` may come after the
  command's exit, every handler runs in a live process.
- `FailureRestores`: the action property `RecordedExecRestores`, from `RestoreInv`.
  The only thread of a process stays alone while it is in execve (`AloneInExec`),
  so no other step touches the process's keys, and what was saved on entry is the
  snapshot (`SavedIsSnapshot`). `SavedOnlyInExec` is needed at entry: nothing stale
  may lie in `saved_execs`. TLC checks this property with one thread per process;
  the theorem covers any number.

### The userspace side

- `DedupTypeCorrect`, `DedupImplementsLimiter`: the refinement maps the table to
  the silence it still holds, `TTL - (now - seen[k])` for a fresh entry and 0
  otherwise. `Filter` maps to an offer, `Tick` to a tick, eviction to nothing.
- `CIImplementsLimiter`: every step of `CIRun` is a step of `Dedup` or leaves its
  variables alone (`CISpec => DSpec`), so the refinement carries over. `Dedup` assumes
  that a call brings no two alerts of one rule; `OneAlertPerRule` proves it of `Check`,
  rule by rule.
- `EventLoop_proofs` splits a step of either program into a step of the loop
  (`LoopStep`) and one that leaves the loop's state alone (`RestStep`), and shows that
  both preserve `LoopTypeOK` and the invariants below.
- `CINoKeyIsLost`, `MonitorNoKeyIsLost`: `NoKeyIsLost` is not inductive, because
  suppression depends on the table. `KeyInv` adds that a key in the table has had an
  alert issued, and `BatchInv` that the alerts of an event are all written before the
  next is taken.
- `ExitCodeSound`: `alertCount` is positive exactly if a counting alert was written
  (`CountsInv`); the loop is left for good only after the command's exit
  (`ControlInv`), so `code` no longer changes once it has been returned
  (`VerdictInv`).
- `SarifComplete`: the file is absent until `SarifClose`, and afterwards nothing is
  written that it could miss (`SarifInv`); the report in memory describes the rules of
  the alerts written (`RulesInv`).
- `MetricsAlwaysAgree`: each counter is the number of alerts of its kind (`CountInv`);
  one `WriteAlertOut` adds one index to one kind (`KindCounts`), and the poller never
  stores more than was lost. `Exit` resets counters and output together.
- `ContextOfItsPid`: every node's context was read from files of its pid, or is the
  host's; that is part of `LoopTypeOK`, and what `parseCgroup` returns for a matching
  line has an id and a runtime (`CgroupNames`).
- `ChainsAreAncestries`: the invariant is `TreeOK`, a finite tree with each node under
  its own pid; the rest is about the walk. A recursive function means something only if
  a function that satisfies its equation exists. `WalkExists` proves that one does, and
  `WalkIsAncestry` that its values are chains, both by the least number of nodes still to
  be visited for which the statement would fail (`LeastNumber`), since each step of the
  walk visits one more (`FewerLeft`). So the visited set is what ends the walk in a tree
  with cycles. The provers cannot instantiate an induction rule, but they can refute a
  least counterexample.
- `EnforcerProfileWhole`: from `RunsInv`. Runs are numbered, a file is never newer than
  the current run, and a file that differs from the profile loaded from it was written
  since, hence by a later run than the profile's.
- `BaselineExact`: from `DeviationInv`, the deviations issued are those of the events
  handled, no more and no fewer, and from `RunsInv`, by which a complete profile holds
  exactly the keys, as JSON writes them, of the events it stands for (`Known`). It needs
  that no rule of `Check` has the enforcer's name (`NoRuleIsDeviation`), that equal
  behaviour means equal keys (`KeyOfBehaviour`), and for a learnt behaviour that JSON
  leaves its key as it is (`LearntIsKnown`). Nothing is assumed of the keys: collisions
  are allowed.
- `FilesLeftAtExit`: from `SavedInv`, the same facts from the moment each file is
  written, and `MControlInv`: the loader is closed exactly when the signal goroutine is
  done, the loop ends only then, and the learner has been given every event handled.
- `ReportPrefix`: from `ReportInv`, which keeps the rules of the alerts the report is
  of, next to `RulesInv` for the moment it is saved and `RunsInv` for the restart: a
  report of an earlier run never passes for one of this run.

Only model-checked: `CommandExitEndsRun`, `SignalEndsRun` and `LossIsReported`, which are
liveness under fairness and out of the prover's reach. The inductive invariants named
above were checked with TLC on the runs' instances before they were proved.

## Not modelled

- Loading and attaching programs. The hooks are attached one after another while
  processes run; the model starts with all of them. An error ends the process.
- Races of two CPUs on one map element: handlers are atomic.
- YAML and CIDR parsing (`policy.Load`), which are library calls on text; regular
  expressions of the enricher are tags on lines.
- The layout of alerts, events, metrics and SARIF, and the verbose output, which no
  other part reads.
- The 32-entry limit of the environment scan, the argument capture, command lines
  and timestamps, which no rule looks at or which are bounded copies.
- Read errors: the hooks submit records of the size the decoder expects, so neither
  the reader nor the decoder fails; a failure would be logged and the loop goes on.
- Whether 300 ms suffice to drain the ring is a question of load; the model makes
  no assumption about it.
- Generated bindings. With an object that lacks `drop_count`, `DroppedEvents` returns 0,
  as it does with programs that never count.

## Plan

1. Done: the kernel side (`BpfTracker`, `Attribution`, `Descent`, `Detector`,
   `Pipeline`, `CISeed`), the userspace side (`Dedup`, `Enricher`, `ProcTree`, `Baseline`,
   `EventLoop`, `CIRun`, `Monitor`), and the theorems above.
2. Done: every invariant, the action property and the refinement that the passing runs
   check is proved.
3. Proofs: the safety part of termination, that the loop's shutdown waits for nothing
   that has not happened (in either mode); that each run of the monitor, too, is a run
   of `Dedup`.
4. Element races: handlers split at the reads of the parent's entry.
5. The start-up window: hooks attached one by one.
