------------------------------ MODULE EventLoop ------------------------------
(***************************************************************************)
(* What main and runCI of cmd/chainscope/main.go have in common: the ring  *)
(* buffer, the loop that takes an event from it through the process tree,  *)
(* the rule engine and the deduplicator to the writers, and the state the  *)
(* writers keep: the alerts written, the SARIF report in memory            *)
(* (internal/output/sarif.go) and the counters (internal/metrics).         *)
(*                                                                         *)
(* The kernel side is reduced to its output: while the hooks are attached  *)
(* it may submit any events of Produce in any order.                       *)
(*                                                                         *)
(* Another goroutine meets the loop in one place of each step, so that the *)
(* step is atomic: the learner's lock in Take, the SARIF writer's in       *)
(* WriteAlertOut.                                                          *)
(***************************************************************************)
EXTENDS Baseline, Dedup, ProcTree

CONSTANTS
  Produce,    \* event records the kernel programs may submit
  RingCap,    \* records the ring buffer holds
  MaxEvents   \* bound on the events produced

ASSUME LoopAssumption ==
  /\ MaxEvents \in Nat
  /\ \A e \in Produce : e.type \in EventTypes /\ e.pid \in DOMAIN ProcFiles

VARIABLES
  events,   \* the ring buffer
  made,     \* how many events were produced so far
  dropped,  \* drop_count: events refused by the full ring buffer and counted
  closed,   \* l.Close() was called: hooks detached, reader closed
  main,     \* pc of the main goroutine
  batch,    \* alerts of the current event, not written yet
  written,  \* alerts written by out.WriteAlert, and added to the SARIF report
  rules,    \* the SARIF report's rules: rule -> score
  metrics,  \* the counters; nobody reads them without a metrics server
  handled   \* history: the events the loop has taken

ring  == <<events, made, dropped>>
sinks == <<written, rules, metrics>>
loop  == <<main, batch, nodes, handled>>

NoMetrics ==
  [events |-> 0, tree |-> 0, dropped |-> 0, alerts |-> [k \in {} |-> 0]]

NoNodes == [p \in {} |-> 0]
NoRules == [r \in {} |-> ""]

LoopInit ==
  /\ DInit
  /\ events = <<>>
  /\ made = 0
  /\ dropped = 0
  /\ batch = {}
  /\ written = <<>>
  /\ rules = NoRules
  /\ metrics = NoMetrics
  /\ nodes = NoNodes
  /\ handled = {}

-------------------------------------------------------------------------------
(* The SARIF report and the counters.                                       *)

sarifLevel(sev) ==
  CASE sev \in {SEV_CRITICAL, SEV_HIGH} -> "error"
    [] sev = SEV_MEDIUM                 -> "warning"
    [] OTHER                            -> "note"

cvssScore(sev) ==
  CASE sev = SEV_CRITICAL -> "9.0"
    [] sev = SEV_HIGH     -> "7.0"
    [] sev = SEV_MEDIUM   -> "5.0"
    [] sev = SEV_LOW      -> "3.0"
    [] OTHER              -> "1.0"

artifactURI(e) == IF e.path # "" THEN e.path ELSE e.comm

\* The fingerprint is a hash of the three inputs it names.
alertFingerprint(a) == <<a.rule, a.evt.root_comm, artifactURI(a.evt)>>

sarifResult(a) ==
  [rule |-> a.rule, level |-> sarifLevel(a.sev), uri |-> artifactURI(a.evt),
   fingerprint |-> alertFingerprint(a), pid |-> a.evt.pid]

Results(alerts) == [i \in DOMAIN alerts |-> sarifResult(alerts[i])]

\* MUTANT: the table keeps the rule of the latest alert only.
RulesAfter_last(a) == [r \in {a.rule} |-> cvssScore(a.sev)]

\* A rule is scored by its first alert.
RulesAfter(a) ==
  [r \in DOMAIN rules \cup {a.rule} |->
     IF r \in DOMAIN rules THEN rules[r] ELSE cvssScore(a.sev)]

SarifDoc(run) ==
  [state |-> "whole", run |-> run, results |-> Results(written), rules |-> rules]

\* MUTANT: the first alert of a kind only creates its counter.
RecordAlert_create(counts, k) ==
  [j \in DOMAIN counts \cup {k} |->
     IF j \notin DOMAIN counts THEN 0 ELSE IF j = k THEN counts[j] + 1 ELSE counts[j]]

RecordAlert(counts, k) ==
  [j \in DOMAIN counts \cup {k} |->
     (IF j \in DOMAIN counts THEN counts[j] ELSE 0) + (IF j = k THEN 1 ELSE 0)]

-------------------------------------------------------------------------------
(* The kernel.  A full ring buffer drops the event.  Whether the loss is    *)
(* counted depends on the build: reserve_or_drop calls itself where its     *)
(* comment has it reserve and count.                                        *)

Emit(e) ==
  /\ ~closed
  /\ made < MaxEvents
  /\ made' = made + 1
  /\ IF Len(events) < RingCap
     THEN events' = Append(events, e) /\ UNCHANGED dropped
     ELSE dropped' \in {dropped, dropped + 1} /\ UNCHANGED events
  /\ UNCHANGED <<dvars, closed, sinks, loop>>

-------------------------------------------------------------------------------
(* The loop.  ReadEvent blocks while the ring is empty and open, and        *)
(* returns nil once it is closed.  A read error is logged and the loop goes *)
(* on: a stuttering step.                                                   *)

AlertsOf(e) == {[rule |-> a.rule, root_pid |-> e.root_pid, sev |-> a.sev] : a \in Check(e)}

\* Rule, RootPid and Sev name what the events of Produce can raise.
ASSUME AlertsAssumption == \A e \in Produce : AlertsOf(e) \subseteq AlertRec

\* MUTANT: the context is taken from the parent's node.
Context_parent(e) ==
  IF e.ppid \in DOMAIN nodes' /\ nodes'[e.ppid].ctx.id # "" THEN nodes'[e.ppid].ctx
  ELSE Host

\* The context of the alert is what the process's node says by now, if that is
\* in a container.
Context(e) ==
  IF e.pid \in DOMAIN nodes' /\ nodes'[e.pid].ctx.id # "" THEN nodes'[e.pid].ctx
  ELSE Host

Reported(a, e) ==
  [rule |-> a.rule, sev |-> a.sev, root_pid |-> e.root_pid, evt |-> e, ctx |-> Context(e)]

\* One event, up to the loop over its alerts.  added are the alerts that
\* join after the deduplicator.
Take(e, added) ==
  /\ main = "read"
  /\ ~closed
  /\ events # <<>> /\ e = Head(events)
  /\ events' = Tail(events)
  /\ IF e.type = "exec" THEN Add(e) ELSE UNCHANGED nodes
  /\ metrics' = [metrics EXCEPT !.events = @ + 1,
                                !.tree = IF e.type = "exec" THEN Size' ELSE @]
  /\ Filter(AlertsOf(e))
  /\ batch' = {Reported(a, e) : a \in Surviving(AlertsOf(e)) \cup added}
  /\ handled' = handled \cup {e}
  /\ main' = "write"
  /\ UNCHANGED <<made, dropped, closed, written, rules>>

\* One iteration of the loop over alerts, in any order of one event's alerts.
WriteAlertOut(a) ==
  /\ main = "write"
  /\ a \in batch
  /\ batch' = batch \ {a}
  /\ written' = Append(written, a)
  /\ rules' = RulesAfter(a)
  /\ metrics' = [metrics EXCEPT !.alerts = RecordAlert(@, <<a.rule, a.sev>>)]
  /\ UNCHANGED <<dvars, ring, closed, main, nodes, handled>>

\* MUTANT: the loop over alerts may break off.
NextEvent_break ==
  /\ main = "write"
  /\ batch' = {}
  /\ main' = "read"
  /\ UNCHANGED <<dvars, ring, closed, sinks, nodes, handled>>

NextEvent ==
  /\ main = "write"
  /\ batch = {}
  /\ main' = "read"
  /\ UNCHANGED <<dvars, ring, closed, sinks, batch, nodes, handled>>

ReadClosed(next) ==
  /\ main = "read"
  /\ closed
  /\ main' = next
  /\ UNCHANGED <<dvars, ring, closed, sinks, batch, nodes, handled>>

-------------------------------------------------------------------------------

ByKind(r, s) == {i \in DOMAIN written : written[i].rule = r /\ written[i].sev = s}

\* The counters never disagree with the output: each rule and severity has
\* been counted once per alert written, and the gauge is the tree's size.
MetricsAgree ==
  /\ \A k \in DOMAIN metrics.alerts :
       metrics.alerts[k] = Cardinality(ByKind(k[1], k[2]))
  /\ \A i \in DOMAIN written :
       <<written[i].rule, written[i].sev>> \in DOMAIN metrics.alerts
  /\ metrics.tree = Size
  /\ metrics.dropped <= dropped

\* The container in an alert is one whose processes have had the pid of the
\* alert's event, never its parent's or its root's.  It need not be the
\* container of the process that caused the event: the node is as old as the
\* last exec of that pid, and was filled from files read after that exec.
ContextIsOfItsPid ==
  \A i \in DOMAIN written :
    LET ctx == written[i].ctx IN
    ctx # Host =>
      /\ ctx.id # "" /\ ctx.runtime \in Runtimes
      /\ \E f \in ProcFiles[written[i].evt.pid] : parseCgroup(f.cgroup).id = ctx.id

\* Suppression never silences a key altogether: whatever Check raised has
\* been written for the same rule and root process, or is about to be.
NoKeyIsLost ==
  \A a \in UNION {AlertsOf(e) : e \in handled} :
    \E w \in batch \cup {written[i] : i \in DOMAIN written} :
      w.rule = a.rule /\ w.root_pid = a.root_pid

===============================================================================
