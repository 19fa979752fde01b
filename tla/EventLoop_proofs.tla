---------------------------- MODULE EventLoop_proofs ----------------------------
(***************************************************************************)
(* What the steps of the event loop preserve, in either program that runs  *)
(* it: lemmas for CIRun_proofs and Monitor_proofs.                         *)
(***************************************************************************)
EXTENDS EventLoop, Dedup_proofs, SequenceTheorems, FiniteSetTheorems,
        FunctionTheorems, WellFoundedInduction

\* The alerts that may join after the deduplicator.
Deviant == {Alert("baseline-deviation", SEV_MEDIUM)}

\* A step of the loop or of the kernel that feeds it.
LoopStep ==
  \/ \E e \in Produce : Emit(e)
  \/ \E e \in Produce, added \in SUBSET Deviant : Take(e, added)
  \/ \E a \in batch : WriteAlertOut(a)
  \/ NextEvent
  \/ \E next \in {"join", "done"} : ReadClosed(next)

\* A step of anything else while the loop is running or over: it may let the
\* clock tick, but touches nothing the loop owns.
RestStep ==
  /\ Tick \/ UNCHANGED dvars
  /\ UNCHANGED <<ring, sinks, batch, nodes, handled>>
  /\ main = "write" => main' = "write"

-------------------------------------------------------------------------------
(* The alerts of one event.                                                 *)

\* No rule fires twice for one event.
LEMMA OneAlertPerRule ==
  ASSUME NEW e, e.type \in EventTypes, NEW a \in Check(e), NEW b \in Check(e),
         a.rule = b.rule
  PROVE  a = b
<1>1. CASE e.type = "exec"
  BY <1>1 DEF Check, checkExec, Alert
<1>2. CASE e.type = "net_connect"
  BY <1>2 DEF Check, checkNet, RegistryNet, UnknownNet, Alert
<1>3. CASE e.type = "file_open"
  BY <1>3 DEF Check, checkFileRead
<1>4. CASE e.type = "file_write"
  BY <1>4 DEF Check, checkFileWrite
<1>5. CASE e.type = "memfd_create"
  BY <1>5 DEF Check, checkMemfd
<1>6. CASE e.type = "execveat_anon"
  BY <1>6 DEF Check, checkExecveat
<1>7. CASE e.type = "chmod"
  BY <1>7 DEF Check, checkChmod
<1>8. CASE e.type = "dns_lookup"
  BY <1>8 DEF Check, checkDns
<1>9. CASE e.type = "bpf_load"
  BY <1>9 DEF Check, checkBpfLoad
<1> QED
  BY <1>1, <1>2, <1>3, <1>4, <1>5, <1>6, <1>7, <1>8, <1>9 DEF EventTypes

\* The name of the enforcer's rule is its own.
LEMMA NoRuleIsDeviation ==
  ASSUME NEW e, e.type \in EventTypes, NEW a \in Check(e)
  PROVE  a.rule # "baseline-deviation"
<1>1. CASE e.type = "exec"
  BY <1>1 DEF Check, checkExec, Alert
<1>2. CASE e.type = "net_connect"
  BY <1>2 DEF Check, checkNet, RegistryNet, UnknownNet, Alert
<1>3. CASE e.type = "file_open"
  BY <1>3 DEF Check, checkFileRead, Alert
<1>4. CASE e.type = "file_write"
  <2>1. WriteAlert(e).rule \in {"build-writes-system-path", "postinst-writes-system-path",
                                "unexpected-install-write"}
    BY DEF WriteAlert, Alert
  <2> QED
    BY <1>4, <2>1 DEF Check, checkFileWrite
<1>5. CASE e.type = "memfd_create"
  BY <1>5 DEF Check, checkMemfd, Alert
<1>6. CASE e.type = "execveat_anon"
  BY <1>6 DEF Check, checkExecveat, Alert
<1>7. CASE e.type = "chmod"
  BY <1>7 DEF Check, checkChmod, Alert
<1>8. CASE e.type = "dns_lookup"
  BY <1>8 DEF Check, checkDns, Alert
<1>9. CASE e.type = "bpf_load"
  BY <1>9 DEF Check, checkBpfLoad, Alert
<1> QED
  BY <1>1, <1>2, <1>3, <1>4, <1>5, <1>6, <1>7, <1>8, <1>9 DEF EventTypes

\* What the loop hands to the deduplicator is what Dedup assumes of a call.
LEMMA AlertsAreABatch ==
  ASSUME NEW e \in Produce
  PROVE  AlertsOf(e) \in Batches
<1>1. AlertsOf(e) \subseteq AlertRec
  BY AlertsAssumption
<1>2. ASSUME NEW a \in AlertsOf(e), NEW b \in AlertsOf(e), a.rule = b.rule PROVE a = b
  <2>1. PICK x \in Check(e) : a = [rule |-> x.rule, root_pid |-> e.root_pid, sev |-> x.sev]
    BY DEF AlertsOf
  <2>2. PICK y \in Check(e) : b = [rule |-> y.rule, root_pid |-> e.root_pid, sev |-> y.sev]
    BY DEF AlertsOf
  <2>3. x = y
    BY <1>2, <2>1, <2>2, LoopAssumption, OneAlertPerRule
  <2> QED
    BY <2>1, <2>2, <2>3
<1> QED
  BY <1>1, <1>2 DEF Batches

\* The loop uses the deduplicator as Dedup says it is used.
LEMMA LoopUsesDedup == LoopStep \/ RestStep => [DNext]_dvars
<1>1. ASSUME NEW e \in Produce, NEW added, Take(e, added) PROVE DNext
  BY <1>1, AlertsAreABatch DEF Take, DNext
<1> QED
  BY <1>1 DEF LoopStep, RestStep, Emit, WriteAlertOut, NextEvent, ReadClosed, DNext

-------------------------------------------------------------------------------
(* Types.                                                                   *)

Contexts == UNION {Seen(e.pid) : e \in Produce}

\* An alert on its way out: it carries its event, and a context read from the
\* files of that event's pid.
ReportedAlert ==
  {w \in [rule : Rule \cup {"baseline-deviation"}, sev : Sev \cup {SEV_MEDIUM},
          root_pid : {e.root_pid : e \in Produce}, evt : Produce, ctx : Contexts] :
     w.root_pid = w.evt.root_pid /\ w.ctx \in Seen(w.evt.pid)}

LoopTypeOK ==
  /\ events \in Seq(Produce)
  /\ dropped \in Nat
  /\ batch \subseteq ReportedAlert
  /\ written \in Seq(ReportedAlert)
  /\ handled \subseteq Produce
  /\ \A p \in DOMAIN nodes : nodes[p].ctx \in Seen(p)
  /\ DOMAIN metrics = {"events", "tree", "dropped", "alerts"}
  /\ metrics.dropped \in Nat

\* Add puts a context of the pid's own files into the pid's node.
LEMMA AddContext ==
  ASSUME NEW e, \A p \in DOMAIN nodes : nodes[p].ctx \in Seen(p),
         Add(e) \/ UNCHANGED nodes
  PROVE  \A p \in DOMAIN nodes' : nodes'[p].ctx \in Seen(p)
<1>1. ASSUME NEW info \in Seen(e.pid),
             nodes' = [p \in DOMAIN nodes \cup {e.pid} |->
                         IF p = e.pid THEN Node(e, info) ELSE nodes[p]]
      PROVE  \A p \in DOMAIN nodes' : nodes'[p].ctx \in Seen(p)
  BY <1>1 DEF Node
<1> QED
  BY <1>1 DEF Add

\* What Take makes of an alert.
LEMMA ReportedType ==
  ASSUME NEW e \in Produce, NEW a, a.rule \in Rule \cup {"baseline-deviation"},
         a.sev \in Sev \cup {SEV_MEDIUM},
         \A p \in DOMAIN nodes' : nodes'[p].ctx \in Seen(p)
  PROVE  Reported(a, e) \in ReportedAlert
<1>1. Context(e) \in Seen(e.pid)
  <2>1. Host \in Seen(e.pid)
    BY DEF Seen
  <2> QED
    BY <2>1 DEF Context
<1> QED
  BY <1>1 DEF Reported, ReportedAlert, Contexts

\* Taking an event preserves the types.
LEMMA TakeType ==
  ASSUME LoopTypeOK, NEW e \in Produce, NEW added \in SUBSET Deviant, Take(e, added)
  PROVE  LoopTypeOK'
<1>1. events' \in Seq(Produce)
  BY HeadTailProperties DEF Take, LoopTypeOK
<1>2. \A p \in DOMAIN nodes' : nodes'[p].ctx \in Seen(p)
  BY AddContext DEF Take, LoopTypeOK
<1>3. batch' \subseteq ReportedAlert
  <2>1. \A a \in AlertsOf(e) : a.rule \in Rule /\ a.sev \in Sev
    BY AlertsAssumption DEF AlertRec
  <2>2. \A a \in added : a.rule = "baseline-deviation" /\ a.sev = SEV_MEDIUM
    BY DEF Deviant, Alert
  <2>3. \A a \in Surviving(AlertsOf(e)) \cup added : Reported(a, e) \in ReportedAlert
    BY <1>2, <2>1, <2>2, ReportedType DEF Surviving
  <2> QED
    BY <2>3 DEF Take
<1>4. /\ DOMAIN metrics' = {"events", "tree", "dropped", "alerts"}
      /\ metrics'.dropped = metrics.dropped
  BY DEF Take, LoopTypeOK
<1> QED
  BY <1>1, <1>2, <1>3, <1>4 DEF Take, LoopTypeOK

\* So does writing an alert, which goes to the end of the output.
LEMMA WriteType ==
  ASSUME LoopTypeOK, NEW a \in batch, WriteAlertOut(a)
  PROVE  /\ LoopTypeOK'
         /\ Len(written') = Len(written) + 1
         /\ \A i \in 1 .. Len(written) : written'[i] = written[i]
         /\ written'[Len(written) + 1] = a
         /\ DOMAIN written = 1 .. Len(written)
         /\ DOMAIN written' = 1 .. Len(written) + 1
         /\ Len(written) \in Nat
<1>1. a \in ReportedAlert /\ written \in Seq(ReportedAlert)
  BY DEF LoopTypeOK
<1>2. written' = Append(written, a)
  BY DEF WriteAlertOut
<1>3. /\ written' \in Seq(ReportedAlert)
      /\ Len(written') = Len(written) + 1
      /\ \A i \in 1 .. Len(written) : written'[i] = written[i]
      /\ written'[Len(written) + 1] = a
      /\ DOMAIN written = 1 .. Len(written)
      /\ DOMAIN written' = 1 .. Len(written) + 1
      /\ Len(written) \in Nat
  BY <1>1, <1>2, AppendProperties, LenProperties
<1>4. /\ DOMAIN metrics' = {"events", "tree", "dropped", "alerts"}
      /\ metrics'.dropped = metrics.dropped
  BY DEF WriteAlertOut, LoopTypeOK
<1> QED
  BY <1>3, <1>4 DEF WriteAlertOut, LoopTypeOK, ring

\* No step of the loop breaks the types.
LEMMA LoopTypeStep == LoopTypeOK /\ (LoopStep \/ RestStep) => LoopTypeOK'
<1> SUFFICES ASSUME LoopTypeOK, LoopStep \/ RestStep PROVE LoopTypeOK'
  OBVIOUS
<1>1. ASSUME NEW e \in Produce, Emit(e) PROVE LoopTypeOK'
  <2>1. events \in Seq(Produce) /\ Append(events, e) \in Seq(Produce)
    BY AppendProperties DEF LoopTypeOK
  <2>2. dropped' \in Nat
    BY <1>1 DEF Emit, LoopTypeOK
  <2>3. events' \in Seq(Produce)
    BY <1>1, <2>1 DEF Emit
  <2> QED
    BY <1>1, <2>2, <2>3 DEF Emit, LoopTypeOK, sinks, loop
<1>2. ASSUME NEW e \in Produce, NEW added \in SUBSET Deviant, Take(e, added)
      PROVE  LoopTypeOK'
  BY <1>2, TakeType
<1>3. ASSUME NEW a \in batch, WriteAlertOut(a) PROVE LoopTypeOK'
  BY <1>3, WriteType
<1>4. CASE UNCHANGED <<ring, sinks, batch, nodes, handled>>
  BY <1>4 DEF ring, sinks, LoopTypeOK
<1> QED
  BY <1>1, <1>2, <1>3, <1>4 DEF LoopStep, RestStep, NextEvent, ReadClosed

\* The types hold at the start.
LEMMA LoopTypeInit == LoopInit => LoopTypeOK
  BY DEF LoopInit, LoopTypeOK, NoMetrics, NoNodes

-------------------------------------------------------------------------------
(* No alert is lost between the deduplicator and the writers.               *)

Issued == batch \cup {written[i] : i \in DOMAIN written}

\* An event is taken only when the alerts of the one before are written.
BatchInv == main # "write" => batch = {}

\* No step leaves the loop over alerts before it is done.
LEMMA BatchStep == BatchInv /\ (LoopStep \/ RestStep) => BatchInv'
  BY DEF BatchInv, LoopStep, RestStep, Emit, Take, WriteAlertOut, NextEvent, ReadClosed, loop

\* Writing an alert neither issues another nor loses one.
LEMMA WriteIssues ==
  ASSUME LoopTypeOK, NEW a \in batch, WriteAlertOut(a)
  PROVE  Issued' = Issued
<1>1. Issued \subseteq Issued'
  <2>1. \A i \in DOMAIN written : i \in DOMAIN written' /\ written'[i] = written[i]
    BY WriteType
  <2>2. Len(written) + 1 \in DOMAIN written' /\ written'[Len(written) + 1] = a
    BY WriteType
  <2>3. batch \subseteq batch' \cup {a}
    BY DEF WriteAlertOut
  <2> QED
    BY <2>1, <2>2, <2>3 DEF Issued
<1>2. batch' \subseteq batch
  BY DEF WriteAlertOut
<1>3. \A i \in DOMAIN written' :
        (i \in DOMAIN written /\ written'[i] = written[i]) \/ written'[i] = a
  BY WriteType
<1> QED
  BY <1>1, <1>2, <1>3 DEF Issued

\* What was issued stays issued.
LEMMA IssuedGrows ==
  ASSUME LoopTypeOK, BatchInv, LoopStep \/ RestStep
  PROVE  Issued \subseteq Issued'
<1>1. ASSUME NEW e \in Produce, NEW added, Take(e, added) PROVE Issued \subseteq Issued'
  BY <1>1 DEF Take, BatchInv, Issued
<1>2. ASSUME NEW a \in batch, WriteAlertOut(a) PROVE Issued \subseteq Issued'
  BY <1>2, WriteIssues
<1>3. CASE UNCHANGED <<batch, written>>
  BY <1>3 DEF Issued
<1> QED
  BY <1>1, <1>2, <1>3
  DEF LoopStep, RestStep, Emit, NextEvent, ReadClosed, sinks, loop

\* An alert with the rule and the root process of the key was issued.
HasAlert(k) == \E w \in Issued : w.rule = k[1] /\ w.root_pid = k[2]

\* What makes NoKeyIsLost inductive: a key is in the table, and so may be
\* suppressed, only after an alert with that key was issued.
KeyInv ==
  /\ \A k \in DOMAIN seen : HasAlert(k)
  /\ \A e \in handled : \A a \in AlertsOf(e) : HasAlert(Key(a))

\* Filter keeps an alert, or has let one with its key through before.
LEMMA TakeKeys ==
  ASSUME LoopTypeOK, BatchInv, KeyInv, NEW e \in Produce,
         NEW added \in SUBSET Deviant, Take(e, added)
  PROVE  KeyInv'
<1>1. ASSUME NEW k, HasAlert(k) PROVE HasAlert(k)'
  BY <1>1, IssuedGrows DEF HasAlert, LoopStep
<1>2. ASSUME NEW a \in AlertsOf(e) PROVE HasAlert(Key(a))'
  <2>1. CASE Fresh(Key(a))
    BY <1>1, <2>1 DEF Fresh, KeyInv
  <2>2. CASE ~Fresh(Key(a))
    <3>1. Reported(a, e) \in batch'
      BY <2>2 DEF Take, Surviving
    <3>2. Reported(a, e).rule = a.rule /\ Reported(a, e).root_pid = a.root_pid
      BY DEF Reported, AlertsOf
    <3> QED
      BY <3>1, <3>2 DEF HasAlert, Issued, Key
  <2> QED
    BY <2>1, <2>2
<1>3. \A k \in DOMAIN seen' : k \in DOMAIN seen \/ \E a \in AlertsOf(e) : k = Key(a)
  BY DEF Take, Filter, SeenAfter
<1>4. handled' = handled \cup {e}
  BY DEF Take
<1> QED
  BY <1>1, <1>2, <1>3, <1>4 DEF KeyInv

\* No step removes an issued alert or adds a key without one.
LEMMA KeyStep ==
  ASSUME LoopTypeOK, BatchInv, KeyInv, LoopStep \/ RestStep
  PROVE  KeyInv'
<1>1. ASSUME NEW k, HasAlert(k) PROVE HasAlert(k)'
  BY <1>1, IssuedGrows DEF HasAlert
<1>2. CASE UNCHANGED <<seen, handled>>
  BY <1>1, <1>2 DEF KeyInv
<1> QED
  BY <1>2, TakeKeys
  DEF LoopStep, RestStep, Emit, WriteAlertOut, NextEvent, ReadClosed, Tick, dvars, loop

\* KeyInv is stronger than NoKeyIsLost.
LEMMA KeyInvSuffices == KeyInv => NoKeyIsLost
  BY DEF KeyInv, HasAlert, Issued, NoKeyIsLost, Key

-------------------------------------------------------------------------------
(* The SARIF report in memory and the counters.                             *)

\* The report describes the rules of the alerts written, and no others.
RulesInv == DOMAIN rules = {written[i].rule : i \in DOMAIN written}

\* A rule is added with its first alert.
LEMMA RulesStep ==
  ASSUME LoopTypeOK, RulesInv, LoopStep \/ RestStep
  PROVE  RulesInv'
<1>1. ASSUME NEW a \in batch, WriteAlertOut(a) PROVE RulesInv'
  <2>1. DOMAIN rules' = DOMAIN rules \cup {a.rule}
    BY <1>1 DEF WriteAlertOut, RulesAfter
  <2>2. {written'[i].rule : i \in DOMAIN written'}
          = {written[i].rule : i \in DOMAIN written} \cup {a.rule}
    BY <1>1, WriteType
  <2> QED
    BY <2>1, <2>2 DEF RulesInv
<1>2. CASE UNCHANGED <<rules, written>>
  BY <1>2 DEF RulesInv
<1> QED
  BY <1>1, <1>2 DEF LoopStep, RestStep, Emit, Take, NextEvent, ReadClosed, sinks

\* An alert is one more of its kind, and of no other.
LEMMA KindCounts ==
  ASSUME LoopTypeOK, NEW a \in batch, WriteAlertOut(a), NEW r, NEW s
  PROVE  /\ Cardinality(ByKind(r, s)) \in Nat
         /\ Cardinality(ByKind(r, s)') =
              Cardinality(ByKind(r, s)) + (IF r = a.rule /\ s = a.sev THEN 1 ELSE 0)
<1> DEFINE n == Len(written) + 1
<1>1. IsFiniteSet(ByKind(r, s)) /\ n \notin ByKind(r, s)
  <2>1. ByKind(r, s) \subseteq 1 .. Len(written) /\ Len(written) \in Nat
    BY WriteType DEF ByKind
  <2>2. IsFiniteSet(1 .. Len(written))
    BY <2>1, FS_Interval
  <2> QED
    BY <2>1, <2>2, FS_Subset
<1>2. CASE r = a.rule /\ s = a.sev
  <2>1. ByKind(r, s)' = ByKind(r, s) \cup {n}
    BY <1>2, WriteType DEF ByKind
  <2> QED
    BY <1>1, <1>2, <2>1, FS_AddElement, FS_CardinalityType
<1>3. CASE ~(r = a.rule /\ s = a.sev)
  <2>1. ByKind(r, s)' = ByKind(r, s)
    BY <1>3, WriteType DEF ByKind
  <2> QED
    BY <1>1, <1>3, <2>1, FS_CardinalityType
<1> QED
  BY <1>2, <1>3

\* MetricsAgree is inductive once the counters' keys are known to be pairs of
\* a rule and a severity.
CountInv ==
  /\ \A k \in DOMAIN metrics.alerts : k = <<k[1], k[2]>>
  /\ MetricsAgree

\* Writing an alert counts it under its rule and severity.
LEMMA WriteCounts ==
  ASSUME LoopTypeOK, CountInv, NEW a \in batch, WriteAlertOut(a)
  PROVE  CountInv'
<1> DEFINE key == <<a.rule, a.sev>>
           old == metrics.alerts
           new == metrics'.alerts
<1>1. new = RecordAlert(old, key) /\ metrics'.tree = metrics.tree
  BY DEF WriteAlertOut, LoopTypeOK
<1>2. DOMAIN new = DOMAIN old \cup {key}
  BY <1>1 DEF RecordAlert
<1>3. \A k \in DOMAIN new :
        new[k] = (IF k \in DOMAIN old THEN old[k] ELSE 0) + (IF k = key THEN 1 ELSE 0)
  BY <1>1 DEF RecordAlert
<1>4. \A k \in DOMAIN new : k = <<k[1], k[2]>>
  BY <1>2 DEF CountInv
<1>5. ASSUME NEW k \in DOMAIN new
      PROVE  new[k] = Cardinality(ByKind(k[1], k[2])')
  <2>1. k = key <=> k[1] = a.rule /\ k[2] = a.sev
    BY <1>4
  <2>2. (IF k \in DOMAIN old THEN old[k] ELSE 0) = Cardinality(ByKind(k[1], k[2]))
    <3>1. CASE k \in DOMAIN old
      BY <3>1 DEF CountInv, MetricsAgree
    <3>2. CASE k \notin DOMAIN old
      <4>1. k = key
        BY <1>2, <3>2
      <4>2. ByKind(k[1], k[2]) = {}
        BY <3>2, <4>1 DEF CountInv, MetricsAgree, ByKind
      <4> QED
        BY <3>2, <4>2, FS_EmptySet
    <3> QED
      BY <3>1, <3>2
  <2> QED
    BY <1>3, <2>1, <2>2, KindCounts
<1>6. \A i \in DOMAIN written' : <<written'[i].rule, written'[i].sev>> \in DOMAIN new
  BY <1>2, WriteType DEF CountInv, MetricsAgree
<1>7. metrics'.tree = Size' /\ metrics'.dropped <= dropped'
  BY <1>1, WriteType DEF WriteAlertOut, CountInv, MetricsAgree, Size, ring, LoopTypeOK
<1> QED
  BY <1>4, <1>5, <1>6, <1>7 DEF CountInv, MetricsAgree

\* No step lets a counter and what it counts drift apart.
LEMMA CountStep ==
  ASSUME LoopTypeOK, CountInv, LoopStep \/ RestStep
  PROVE  CountInv'
<1>1. CASE /\ UNCHANGED <<written, nodes, metrics>>
           /\ dropped' \in Nat /\ dropped <= dropped'
  BY <1>1 DEF CountInv, MetricsAgree, ByKind, Size, LoopTypeOK
<1>2. ASSUME NEW e \in Produce, Emit(e) PROVE CountInv'
  BY <1>1, <1>2 DEF Emit, sinks, loop, LoopTypeOK
<1>3. ASSUME NEW e \in Produce, NEW added, Take(e, added) PROVE CountInv'
  <2>1. metrics'.alerts = metrics.alerts /\ metrics'.dropped = metrics.dropped
    BY <1>3 DEF Take, LoopTypeOK
  <2>2. metrics'.tree = Size'
    <3>1. CASE e.type = "exec"
      BY <1>3, <3>1 DEF Take, LoopTypeOK
    <3>2. CASE e.type # "exec"
      BY <1>3, <3>2 DEF Take, LoopTypeOK, CountInv, MetricsAgree, Size
    <3> QED
      BY <3>1, <3>2
  <2> QED
    BY <1>3, <2>1, <2>2 DEF Take, CountInv, MetricsAgree, ByKind
<1>4. ASSUME NEW a \in batch, WriteAlertOut(a) PROVE CountInv'
  BY <1>4, WriteCounts
<1>5. CASE UNCHANGED <<ring, sinks, nodes>>
  BY <1>1, <1>5 DEF ring, sinks, LoopTypeOK
<1> QED
  BY <1>2, <1>3, <1>4, <1>5 DEF LoopStep, RestStep, NextEvent, ReadClosed

\* The loop's invariants at the start.
LEMMA LoopInvInit == LoopInit => BatchInv /\ KeyInv /\ RulesInv /\ CountInv
<1> SUFFICES ASSUME LoopInit PROVE BatchInv /\ KeyInv /\ RulesInv /\ CountInv
  OBVIOUS
<1>1. BatchInv /\ KeyInv /\ RulesInv
  BY DEF LoopInit, DInit, BatchInv, KeyInv, RulesInv, NoRules
<1>2. Size = 0
  BY FS_EmptySet DEF LoopInit, NoNodes, Size
<1>3. CountInv
  BY <1>2 DEF LoopInit, CountInv, MetricsAgree, NoMetrics
<1> QED
  BY <1>1, <1>3

-------------------------------------------------------------------------------
(* The container in an alert.                                               *)

\* A set of numbers has a least element.
LEMMA LeastNumber ==
  ASSUME NEW S \in SUBSET Nat, S # {}
  PROVE  \E x \in S : \A y \in S : x <= y
<1> DEFINE R == OpToRel(<, Nat)
<1>0. IsWellFoundedOn(R, Nat)
  BY NatLessThanWellFounded
<1>1. PICK x \in S : \A y \in S : ~(<<y, x>> \in R)
  <2> HIDE DEF R
  <2> QED
    BY <1>0, WFMin
<1>2. R = {ss \in Nat \X Nat : ss[1] < ss[2]}
  BY DEF OpToRel
<1>3. \A y \in S : x <= y
  <2> HIDE DEF R
  <2>1. ASSUME NEW y \in S PROVE x <= y
    <3>1. <<y, x>> \in R <=> y < x
      BY <1>2
    <3> QED
      BY <1>1, <3>1
  <2> QED
    BY <2>1
<1> QED
  BY <1>3

\* First is the least index.
LEMMA FirstIsMember ==
  ASSUME NEW S \in SUBSET Nat, S # {}
  PROVE  First(S) \in S
  BY LeastNumber DEF First

\* A container has the id and the runtime its cgroup line names.
LEMMA CgroupNames ==
  ASSUME NEW pid \in DOMAIN ProcFiles, NEW f \in ProcFiles[pid],
         parseCgroup(f.cgroup) # Host
  PROVE  /\ parseCgroup(f.cgroup).id # ""
         /\ parseCgroup(f.cgroup).runtime \in Runtimes
         /\ DOMAIN parseCgroup(f.cgroup) = {"id", "runtime", "pod", "ns"}
<1> DEFINE lines == f.cgroup
           named == Matching(lines, Runtimes)
           bare  == Matching(lines, {"hex"})
           kube  == \E i \in DOMAIN lines : lines[i].kube
           ofNamed == [Host EXCEPT !.id = lines[First(named)].id,
                                   !.runtime = lines[First(named)].re]
           ofBare  == [Host EXCEPT !.id = lines[First(bare)].id,
                                   !.runtime = IF lines[First(bare)].crio THEN "cri-o"
                                               ELSE "containerd"]
<1>1. /\ named \subseteq Nat /\ \A i \in named : lines[i].re \in Runtimes /\ lines[i].id # ""
      /\ bare \subseteq Nat /\ \A i \in bare : lines[i].id # ""
  BY ProcFilesAssumption DEF Matching
<1>2. \/ named # {} /\ parseCgroup(lines) = ofNamed
      \/ named = {} /\ bare # {} /\ parseCgroup(lines) = ofBare
  BY Zenon DEF parseCgroup
<1>3. CASE named # {} /\ parseCgroup(lines) = ofNamed
  <2>1. First(named) \in named
    BY <1>1, <1>3, FirstIsMember
  <2> QED
    BY <1>1, <1>3, <2>1 DEF Host
<1>4. CASE bare # {} /\ parseCgroup(lines) = ofBare
  <2>1. First(bare) \in bare
    BY <1>1, <1>4, FirstIsMember
  <2> QED
    BY <1>1, <1>4, <2>1 DEF Host, Runtimes
<1> QED
  BY <1>2, <1>3, <1>4

\* A context other than the host's was read from a cgroup file of the pid.
LEMMA SeenInFiles ==
  ASSUME NEW pid, NEW ctx \in Seen(pid), ctx # Host
  PROVE  \E f \in ProcFiles[pid] : \E env : ctx = Enrich(f.cgroup, env)
  BY DEF Seen

\* The contexts Take attaches are what ContextIsOfItsPid says.
LEMMA ContextSuffices == LoopTypeOK => ContextIsOfItsPid
<1> SUFFICES ASSUME LoopTypeOK, NEW i \in DOMAIN written, written[i].ctx # Host
             PROVE  /\ written[i].ctx.id # "" /\ written[i].ctx.runtime \in Runtimes
                    /\ \E f \in ProcFiles[written[i].evt.pid] :
                         parseCgroup(f.cgroup).id = written[i].ctx.id
  BY DEF ContextIsOfItsPid
<1> DEFINE pid == written[i].evt.pid
           ctx == written[i].ctx
<1>1. ctx \in Seen(pid) /\ pid \in DOMAIN ProcFiles
  <2>1. written[i] \in ReportedAlert
    BY LenProperties DEF LoopTypeOK
  <2> QED
    BY <2>1, LoopAssumption DEF ReportedAlert
<1>2. PICK f \in ProcFiles[pid] : \E env : ctx = Enrich(f.cgroup, env)
  BY <1>1, SeenInFiles
<1>3. PICK env : ctx = Enrich(f.cgroup, env)
  BY <1>2
<1>4. /\ parseCgroup(f.cgroup) # Host
      /\ ctx = parseEnviron(parseCgroup(f.cgroup), env)
  BY <1>3 DEF Enrich
<1>5. /\ parseCgroup(f.cgroup).id # ""
      /\ parseCgroup(f.cgroup).runtime \in Runtimes
      /\ DOMAIN parseCgroup(f.cgroup) = {"id", "runtime", "pod", "ns"}
  BY <1>1, <1>4, CgroupNames
<1>6. /\ ctx.id = parseCgroup(f.cgroup).id
      /\ ctx.runtime = parseCgroup(f.cgroup).runtime
  BY <1>4, <1>5 DEF parseEnviron
<1> QED
  BY <1>5, <1>6

-------------------------------------------------------------------------------
(* The ancestry of a process.                                               *)

\* The function that Chain defines.
Walk(pid) ==
  LET walk[past \in SUBSET DOMAIN nodes] ==
        [cur \in Reach(pid) |->
           IF cur \in past \/ cur \notin DOMAIN nodes THEN <<>>
           ELSE IF nodes[cur].root_pid = cur THEN <<nodes[cur]>>
           ELSE Append(walk[past \cup {cur}][nodes[cur].ppid], nodes[cur])]
  IN walk

\* One step of the walk, with the walks from the parents given.
Onward(w, pid, past) ==
  [cur \in Reach(pid) |->
     IF cur \in past \/ cur \notin DOMAIN nodes THEN <<>>
     ELSE IF nodes[cur].root_pid = cur THEN <<nodes[cur]>>
     ELSE Append(w[past \cup {cur}][nodes[cur].ppid], nodes[cur])]

\* Visiting a node leaves fewer to visit.
LEMMA FewerLeft ==
  ASSUME IsFiniteSet(DOMAIN nodes), NEW past \in SUBSET DOMAIN nodes,
         NEW cur \in DOMAIN nodes \ past
  PROVE  /\ Cardinality(DOMAIN nodes \ past) \in Nat
         /\ Cardinality(DOMAIN nodes \ (past \cup {cur})) \in Nat
         /\ Cardinality(DOMAIN nodes \ (past \cup {cur})) < Cardinality(DOMAIN nodes \ past)
<1> DEFINE L == DOMAIN nodes \ past
<1>1. IsFiniteSet(L)
  BY FS_Subset
<1>2. L \ {cur} = DOMAIN nodes \ (past \cup {cur})
  OBVIOUS
<1>3. Cardinality(L \ {cur}) = Cardinality(L) - 1 /\ IsFiniteSet(L \ {cur})
  BY <1>1, FS_RemoveElement
<1>4. Cardinality(L) \in Nat /\ Cardinality(L \ {cur}) \in Nat
  BY <1>1, <1>3, FS_CardinalityType
<1> HIDE DEF L
<1>5. Cardinality(L \ {cur}) < Cardinality(L)
  BY <1>3, <1>4
<1> QED
  BY <1>2, <1>4, <1>5 DEF L

\* w is the walk wherever at most n nodes are left to visit.
Upto(w, pid, n) ==
  \A past \in SUBSET DOMAIN nodes :
    Cardinality(DOMAIN nodes \ past) <= n => w[past] = Onward(w, pid, past)

\* The definition of the walk is sound: the recursion reaches every value, by
\* the least number of nodes left for which it would not.
LEMMA WalkExists ==
  ASSUME IsFiniteSet(DOMAIN nodes), NEW pid
  PROVE  \E w : w = [past \in SUBSET DOMAIN nodes |-> Onward(w, pid, past)]
<1> DEFINE Bad == {n \in Nat : ~\E w : Upto(w, pid, n)}
<1>0. \A past \in SUBSET DOMAIN nodes : Cardinality(DOMAIN nodes \ past) \in Nat
  BY FS_Subset, FS_CardinalityType
<1>1. 0 \notin Bad
  <2> DEFINE w == [past \in SUBSET DOMAIN nodes |-> [cur \in Reach(pid) |-> <<>>]]
  <2>1. ASSUME NEW past \in SUBSET DOMAIN nodes, Cardinality(DOMAIN nodes \ past) <= 0
        PROVE  w[past] = Onward(w, pid, past)
    <3>1. DOMAIN nodes \ past = {}
      <4>1. IsFiniteSet(DOMAIN nodes \ past)
        BY FS_Subset
      <4>2. Cardinality(DOMAIN nodes \ past) = 0
        BY <1>0, <2>1
      <4> QED
        BY <4>1, <4>2, FS_EmptySet
    <3> QED
      BY <3>1 DEF Onward
  <2>2. Upto(w, pid, 0)
    BY <2>1 DEF Upto
  <2> HIDE DEF w
  <2> QED
    BY <2>2
<1>2. ASSUME NEW n \in Nat, n \notin Bad PROVE n + 1 \notin Bad
  <2>1. PICK v : Upto(v, pid, n)
    BY <1>2
  <2> DEFINE w == [past \in SUBSET DOMAIN nodes |-> Onward(v, pid, past)]
  <2>2. ASSUME NEW past \in SUBSET DOMAIN nodes, Cardinality(DOMAIN nodes \ past) <= n + 1
        PROVE  w[past] = Onward(w, pid, past)
    <3>1. ASSUME NEW cur \in DOMAIN nodes \ past
          PROVE  w[past \cup {cur}] = v[past \cup {cur}]
      <4>1. Cardinality(DOMAIN nodes \ (past \cup {cur})) <= n
        <5>1. Cardinality(DOMAIN nodes \ past) <= n + 1
          BY <2>2
        <5> HIDE DEF w
        <5>2. /\ Cardinality(DOMAIN nodes \ past) \in Nat
              /\ Cardinality(DOMAIN nodes \ (past \cup {cur})) \in Nat
              /\ Cardinality(DOMAIN nodes \ (past \cup {cur}))
                   < Cardinality(DOMAIN nodes \ past)
          BY FewerLeft
        <5> QED
          BY <5>1, <5>2
      <4> QED
        BY <2>1, <4>1 DEF Upto
    <3>2. w[past] = Onward(v, pid, past)
      OBVIOUS
    <3> HIDE DEF w
    <3> QED
      BY <3>1, <3>2 DEF Onward
  <2>3. Upto(w, pid, n + 1)
    BY <2>2 DEF Upto
  <2> HIDE DEF w
  <2> QED
    BY <2>3
<1>3. Bad = {}
  <2> SUFFICES ASSUME Bad # {} PROVE FALSE
    OBVIOUS
  <2>1. PICK m \in Bad : \A y \in Bad : m <= y
    BY LeastNumber
  <2>2. m # 0 /\ m \in Nat
    BY <1>1
  <2>3. m - 1 \in Nat /\ m - 1 \notin Bad
    BY <2>1, <2>2
  <2> HIDE DEF Bad
  <2> QED
    BY <1>2, <2>1, <2>2, <2>3
<1>4. PICK w : Upto(w, pid, Cardinality(DOMAIN nodes))
  BY <1>3, FS_CardinalityType
<1> DEFINE f == [past \in SUBSET DOMAIN nodes |-> w[past]]
<1>5. \A past \in SUBSET DOMAIN nodes : w[past] = Onward(w, pid, past)
  <2>1. ASSUME NEW past \in SUBSET DOMAIN nodes
        PROVE  Cardinality(DOMAIN nodes \ past) <= Cardinality(DOMAIN nodes)
    <3>1. DOMAIN nodes \ past \subseteq DOMAIN nodes
      OBVIOUS
    <3> QED
      BY <3>1, FS_Subset
  <2> QED
    BY <1>4, <2>1 DEF Upto
<1>6. \A past \in SUBSET DOMAIN nodes : Onward(f, pid, past) = Onward(w, pid, past)
  <2> SUFFICES ASSUME NEW past \in SUBSET DOMAIN nodes
               PROVE  Onward(f, pid, past) = Onward(w, pid, past)
    OBVIOUS
  <2>1. \A cur \in DOMAIN nodes : f[past \cup {cur}] = w[past \cup {cur}]
    OBVIOUS
  <2> HIDE DEF f
  <2> QED
    BY <2>1 DEF Onward
<1>7. f = [past \in SUBSET DOMAIN nodes |-> Onward(f, pid, past)]
  BY <1>5, <1>6
<1> HIDE DEF f
<1> QED
  BY <1>7

\* So the walk from a node is one step and the walk from its parent.
LEMMA WalkUnfolds ==
  ASSUME IsFiniteSet(DOMAIN nodes), NEW pid
  PROVE  \A past \in SUBSET DOMAIN nodes : Walk(pid)[past] = Onward(Walk(pid), pid, past)
<1>1. \E w : w = [past \in SUBSET DOMAIN nodes |-> Onward(w, pid, past)]
  BY WalkExists
<1>2. Walk(pid) = CHOOSE w : w = [past \in SUBSET DOMAIN nodes |-> Onward(w, pid, past)]
  BY DEF Walk, Onward
<1>3. Walk(pid) = [past \in SUBSET DOMAIN nodes |-> Onward(Walk(pid), pid, past)]
  BY <1>1, <1>2
<1> QED
  BY <1>3

\* Chain starts the walk with nothing visited.
LEMMA ChainWalks == \A pid : Chain(pid) = Walk(pid)[{}][pid]
  BY DEF Chain, Walk

\* The tree is finite, and a node is filed under its own pid.
TreeOK == IsFiniteSet(DOMAIN nodes) /\ \A p \in DOMAIN nodes : nodes[p].pid = p

\* c is a chain from cur up that avoids past, and ends only where it must.
Ancestry(past, cur, c) ==
  /\ c \in Seq({nodes[p] : p \in DOMAIN nodes})
  /\ Len(c) >= 1 /\ c[Len(c)] = nodes[cur]
  /\ \A i \in 1 .. Len(c) : c[i].pid \in DOMAIN nodes \ past
  /\ \A i, j \in 1 .. Len(c) : c[i].pid = c[j].pid => i = j
  /\ \A i \in 1 .. Len(c) - 1 : c[i].pid = c[i + 1].ppid
  /\ \/ c[1].pid = c[1].root_pid
     \/ c[1].ppid \notin DOMAIN nodes
     \/ c[1].ppid \in past
     \/ \E i \in 1 .. Len(c) : c[1].ppid = c[i].pid

\* A node at which the walk stops is a chain.
LEMMA AncestryEnds ==
  ASSUME TreeOK, NEW past \in SUBSET DOMAIN nodes, NEW cur \in DOMAIN nodes \ past,
         \/ nodes[cur].root_pid = cur
         \/ nodes[cur].ppid \notin DOMAIN nodes
         \/ nodes[cur].ppid \in past \cup {cur}
  PROVE  Ancestry(past, cur, <<nodes[cur]>>)
<1> DEFINE c == <<nodes[cur]>>
<1>1. c \in Seq({nodes[p] : p \in DOMAIN nodes}) /\ Len(c) = 1 /\ c[1] = nodes[cur]
  OBVIOUS
<1>2. c[1].pid = cur
  BY <1>1 DEF TreeOK
<1> HIDE DEF c
<1>3. Ancestry(past, cur, c)
  BY <1>1, <1>2 DEF Ancestry
<1> QED
  BY <1>3 DEF c

\* The chain of the parent, with the node itself visited, and the node.
LEMMA AncestryGrows ==
  ASSUME TreeOK, NEW past \in SUBSET DOMAIN nodes, NEW cur \in DOMAIN nodes \ past,
         NEW c, Ancestry(past \cup {cur}, nodes[cur].ppid, c), nodes[cur].ppid \in DOMAIN nodes
  PROVE  Ancestry(past, cur, Append(c, nodes[cur]))
<1> DEFINE d == Append(c, nodes[cur])
           n == Len(c)
           S == {nodes[p] : p \in DOMAIN nodes}
<1>1. c \in Seq(S) /\ n \in Nat /\ n >= 1
  BY LenProperties DEF Ancestry
<1>2. /\ d \in Seq(S) /\ Len(d) = n + 1 /\ d[n + 1] = nodes[cur]
      /\ \A i \in 1 .. n : d[i] = c[i]
  BY <1>1, AppendProperties
<1>3. nodes[cur].pid = cur /\ nodes[nodes[cur].ppid].pid = nodes[cur].ppid
  BY DEF TreeOK
<1> HIDE DEF d
<1>4. /\ \A i \in 1 .. n : c[i].pid \in DOMAIN nodes \ (past \cup {cur})
      /\ \A i, j \in 1 .. n : c[i].pid = c[j].pid => i = j
      /\ \A i \in 1 .. n - 1 : c[i].pid = c[i + 1].ppid
      /\ c[n] = nodes[nodes[cur].ppid]
      /\ \/ c[1].pid = c[1].root_pid
         \/ c[1].ppid \notin DOMAIN nodes
         \/ c[1].ppid \in past \cup {cur}
         \/ \E i \in 1 .. n : c[1].ppid = c[i].pid
  BY DEF Ancestry
<1> HIDE DEF n, S
<1>5. \A i \in 1 .. n + 1 : i = n + 1 \/ i \in 1 .. n
  BY <1>1
<1>6. \A i \in 1 .. n + 1 : d[i].pid \in DOMAIN nodes \ past
  BY <1>2, <1>3, <1>4, <1>5
<1>7. \A i, j \in 1 .. n + 1 : d[i].pid = d[j].pid => i = j
  BY <1>2, <1>3, <1>4, <1>5
<1>8. \A i \in 1 .. n : d[i].pid = d[i + 1].ppid
  <2> SUFFICES ASSUME NEW i \in 1 .. n PROVE d[i].pid = d[i + 1].ppid
    OBVIOUS
  <2>1. CASE i = n
    BY <1>1, <1>2, <1>3, <1>4, <2>1
  <2>2. CASE i # n
    <3>1. i \in 1 .. n - 1 /\ i + 1 \in 1 .. n
      BY <1>1, <2>2
    <3> QED
      BY <1>2, <1>4, <3>1
  <2> QED
    BY <2>1, <2>2
<1>9. \/ d[1].pid = d[1].root_pid
      \/ d[1].ppid \notin DOMAIN nodes
      \/ d[1].ppid \in past
      \/ \E i \in 1 .. n + 1 : d[1].ppid = d[i].pid
  <2>1. 1 \in 1 .. n /\ d[1] = c[1] /\ n + 1 \in 1 .. n + 1
    BY <1>1, <1>2
  <2>2. CASE c[1].ppid = cur
    BY <1>2, <1>3, <2>1, <2>2
  <2>3. ASSUME NEW i \in 1 .. n, c[1].ppid = c[i].pid
        PROVE  \E j \in 1 .. n + 1 : d[1].ppid = d[j].pid
    <3>1. i \in 1 .. n + 1 /\ d[i] = c[i]
      BY <1>1, <1>2
    <3> QED
      BY <2>1, <2>3, <3>1
  <2> QED
    BY <1>4, <2>1, <2>2, <2>3
<1>10. Ancestry(past, cur, d)
  BY <1>1, <1>2, <1>6, <1>7, <1>8, <1>9 DEF Ancestry, S
<1> QED
  BY <1>10 DEF d

\* The walk is a chain wherever it starts, by the least number of nodes left to
\* visit for which it would not be.
LEMMA WalkIsAncestry ==
  ASSUME TreeOK, NEW pid
  PROVE  \A past \in SUBSET DOMAIN nodes : \A cur \in DOMAIN nodes \ past :
           Ancestry(past, cur, Walk(pid)[past][cur])
<1> DEFINE Left(past) == Cardinality(DOMAIN nodes \ past)
           Wrong(past) == \E cur \in DOMAIN nodes \ past :
                            ~Ancestry(past, cur, Walk(pid)[past][cur])
           Bad == {Left(past) : past \in {s \in SUBSET DOMAIN nodes : Wrong(s)}}
<1> SUFFICES ASSUME Bad # {} PROVE FALSE
  OBVIOUS
<1>1. Bad \subseteq Nat
  <2>1. \A past \in SUBSET DOMAIN nodes : Left(past) \in Nat
    BY FS_Subset, FS_CardinalityType DEF TreeOK
  <2> HIDE DEF Left, Wrong
  <2> QED
    BY <2>1
<1>2. PICK m \in Bad : \A y \in Bad : m <= y
  BY <1>1, LeastNumber
<1>3. PICK past \in SUBSET DOMAIN nodes : Wrong(past) /\ m = Left(past)
  BY <1>2
<1>4. PICK cur \in DOMAIN nodes \ past : ~Ancestry(past, cur, Walk(pid)[past][cur])
  BY <1>3
<1> DEFINE up   == nodes[cur].ppid
           more == past \cup {cur}
<1>5. more \in SUBSET DOMAIN nodes /\ cur \in Reach(pid) /\ up \in Reach(pid)
  BY DEF Reach
<1>6. ~Wrong(more)
  <2>1. Left(more) \in Nat /\ Left(past) \in Nat /\ Left(more) < Left(past)
    BY FewerLeft DEF TreeOK
  <2>2. Left(more) \notin Bad
    <3> HIDE DEF Bad, Left
    <3> QED
      BY <1>2, <1>3, <2>1
  <2> QED
    BY <1>5, <2>2
<1>7. /\ Walk(pid)[past] = Onward(Walk(pid), pid, past)
      /\ Walk(pid)[more] = Onward(Walk(pid), pid, more)
  BY <1>5, WalkUnfolds DEF TreeOK
<1>8. Walk(pid)[past][cur] = IF nodes[cur].root_pid = cur THEN <<nodes[cur]>>
                             ELSE Append(Walk(pid)[more][up], nodes[cur])
  <2> HIDE DEF Bad
  <2> QED
    BY <1>5, <1>7 DEF Onward
<1>9. CASE nodes[cur].root_pid = cur
  BY <1>4, <1>8, <1>9, AncestryEnds
<1>10. CASE nodes[cur].root_pid # cur /\ (up \in more \/ up \notin DOMAIN nodes)
  <2>1. Walk(pid)[more][up] = <<>>
    BY <1>5, <1>7, <1>10 DEF Onward
  <2>2. Walk(pid)[past][cur] = <<nodes[cur]>>
    BY <1>8, <1>10, <2>1
  <2> QED
    BY <1>4, <1>10, <2>2, AncestryEnds
<1>11. CASE nodes[cur].root_pid # cur /\ up \notin more /\ up \in DOMAIN nodes
  <2>1. Ancestry(more, up, Walk(pid)[more][up])
    BY <1>6, <1>11
  <2> QED
    BY <1>4, <1>8, <1>11, <2>1, AncestryGrows
<1> QED
  BY <1>9, <1>10, <1>11

\* Chain keeps its promise in every such tree, cyclic or not.
LEMMA TreeOKSuffices == TreeOK => ChainIsAncestry
<1> SUFFICES ASSUME TreeOK, NEW pid \in DOMAIN nodes
             PROVE  LET chain == Chain(pid)
                        pids  == {chain[i].pid : i \in DOMAIN chain}
                    IN /\ chain # <<>> /\ chain[Len(chain)] = nodes[pid]
                       /\ Cardinality(pids) = Len(chain)
                       /\ \A i \in 1 .. Len(chain) - 1 : chain[i].pid = chain[i + 1].ppid
                       /\ \/ chain[1].pid = chain[1].root_pid
                          \/ chain[1].ppid \notin DOMAIN nodes
                          \/ chain[1].ppid \in pids
  BY DEF ChainIsAncestry
<1> DEFINE chain == Chain(pid)
<1>1. Ancestry({}, pid, chain)
  BY WalkIsAncestry, ChainWalks
<1> HIDE DEF chain
<1>2. DOMAIN chain = 1 .. Len(chain) /\ Len(chain) \in Nat /\ Len(chain) >= 1
  BY <1>1, LenProperties DEF Ancestry
<1>3. Cardinality({chain[i].pid : i \in DOMAIN chain}) = Len(chain)
  <2> DEFINE T == {chain[i].pid : i \in DOMAIN chain}
             f == [i \in 1 .. Len(chain) |-> chain[i].pid]
  <2>1. f \in Bijection(1 .. Len(chain), T)
    <3>1. f \in [1 .. Len(chain) -> T] /\ \A t \in T : \E i \in 1 .. Len(chain) : f[i] = t
      BY <1>2
    <3>2. \A i, j \in 1 .. Len(chain) : f[i] = f[j] => i = j
      BY <1>1 DEF Ancestry
    <3> HIDE DEF f, T
    <3> QED
      BY <3>1, <3>2, Fun_IsBij
  <2>2. IsFiniteSet(1 .. Len(chain)) /\ Cardinality(1 .. Len(chain)) = Len(chain)
    BY <1>2, FS_Interval
  <2>3. ExistsBijection(1 .. Len(chain), T)
    BY <2>1 DEF ExistsBijection
  <2> QED
    BY <2>2, <2>3, FS_Bijection
<1>4. chain # <<>>
  BY <1>2
<1> QED
  BY <1>1, <1>2, <1>3, <1>4 DEF Ancestry, chain

\* The tree only ever gains nodes, one exec at a time.
LEMMA TreeStep ==
  ASSUME TreeOK, LoopStep \/ RestStep
  PROVE  TreeOK'
<1>1. ASSUME NEW e \in Produce, NEW info,
             nodes' = [p \in DOMAIN nodes \cup {e.pid} |->
                         IF p = e.pid THEN Node(e, info) ELSE nodes[p]]
      PROVE  TreeOK'
  <2>1. DOMAIN nodes' = DOMAIN nodes \cup {e.pid}
    BY <1>1
  <2>2. IsFiniteSet(DOMAIN nodes')
    BY <2>1, FS_AddElement DEF TreeOK
  <2>3. \A p \in DOMAIN nodes' : nodes'[p].pid = p
    BY <1>1 DEF TreeOK, Node
  <2> QED
    BY <2>2, <2>3 DEF TreeOK
<1>2. CASE UNCHANGED nodes
  BY <1>2 DEF TreeOK
<1> QED
  BY <1>1, <1>2
  DEF LoopStep, RestStep, Emit, Take, Add, WriteAlertOut, NextEvent, ReadClosed, loop

===============================================================================
