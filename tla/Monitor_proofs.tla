----------------------------- MODULE Monitor_proofs -----------------------------
(***************************************************************************)
(* Theorems about Monitor: the counters, the contexts, the baseline and    *)
(* the files, over any number of runs of the process, each of which may be *)
(* killed at any time, with any set of events.                             *)
(***************************************************************************)
EXTENDS Monitor, EventLoop_proofs

\* Every step ends the process, polls the drop counter, is the loop's, or
\* leaves the loop's state alone.
LEMMA MStepSplit ==
  ASSUME [MNext]_mvars
  PROVE  Exit \/ Poll \/ LoopStep \/ RestStep
<1>1. ASSUME NEW f \in FlagSets, Start(f) PROVE RestStep
  BY <1>1 DEF Start, RestStep
<1>2. ASSUME NEW e \in Produce, MTake(e) PROVE LoopStep
  <2>1. Deviations(e) \in SUBSET Deviant
    BY DEF Deviations, Deviation, Deviant
  <2> QED
    BY <1>2, <2>1 DEF MTake, LoopStep
<1>3. CASE MLoop
  BY <1>2, <1>3 DEF MLoop, LoopStep
<1>4. CASE Signal \/ SignalGoroutine
  BY <1>4 DEF Signal, SignalGoroutine, Save, SaveReport, CloseLoader, RestStep, loop
<1>5. CASE Environment
  BY <1>5 DEF Environment, LoopStep, RestStep, loop
<1>6. CASE UNCHANGED mvars
  BY <1>6 DEF mvars, RestStep, loop
<1> QED
  BY <1>1, <1>3, <1>4, <1>5, <1>6 DEF MNext

\* The loop's invariants, together.
MLoopInv == LoopTypeOK /\ BatchInv /\ KeyInv /\ RulesInv /\ CountInv /\ TreeOK

\* A new process starts with nothing in memory, like the first.
LEMMA ExitLoopInv == Exit => MLoopInv'
<1> SUFFICES ASSUME Exit PROVE MLoopInv'
  OBVIOUS
<1>1. LoopTypeOK'
  BY DEF Exit, LoopTypeOK, NoMetrics, NoNodes
<1>2. BatchInv' /\ KeyInv' /\ RulesInv'
  BY DEF Exit, BatchInv, KeyInv, RulesInv, NoRules
<1>3. Size' = 0
  BY FS_EmptySet DEF Exit, NoNodes, Size
<1>4. CountInv'
  BY <1>3 DEF Exit, CountInv, MetricsAgree, NoMetrics
<1>5. TreeOK'
  BY FS_EmptySet DEF Exit, TreeOK, NoNodes
<1> QED
  BY <1>1, <1>2, <1>4, <1>5 DEF MLoopInv

\* The poller never reports more than was lost.
LEMMA PollLoopInv ==
  ASSUME MLoopInv, Poll
  PROVE  MLoopInv'
<1>1. /\ DOMAIN metrics' = DOMAIN metrics
      /\ metrics'.alerts = metrics.alerts /\ metrics'.tree = metrics.tree
      /\ metrics'.dropped = DroppedEvents
  BY DEF Poll, MLoopInv, LoopTypeOK
<1>2. DroppedEvents \in Nat /\ DroppedEvents <= dropped
  BY DEF DroppedEvents, MLoopInv, LoopTypeOK
<1>3. LoopTypeOK'
  BY <1>1, <1>2 DEF Poll, MLoopInv, LoopTypeOK, ring, loop
<1>4. BatchInv' /\ KeyInv' /\ RulesInv'
  BY DEF Poll, MLoopInv, BatchInv, KeyInv, RulesInv, HasAlert, Issued, dvars, loop
<1>5. CountInv'
  BY <1>1, <1>2
  DEF Poll, MLoopInv, CountInv, MetricsAgree, ByKind, Size, ring, loop
<1>6. TreeOK'
  BY DEF Poll, MLoopInv, TreeOK, loop
<1> QED
  BY <1>3, <1>4, <1>5, <1>6 DEF MLoopInv

\* No step of any goroutine breaks the loop's invariants.
LEMMA MLoopStep == MLoopInv /\ [MNext]_mvars => MLoopInv'
  BY MStepSplit, ExitLoopInv, PollLoopInv, LoopTypeStep, BatchStep, KeyStep, RulesStep,
     CountStep, TreeStep DEF MLoopInv

\* They hold before the first run.
LEMMA MLoopInit == MInit => MLoopInv
<1>1. LoopInit => TreeOK
  BY FS_EmptySet DEF LoopInit, TreeOK, NoNodes
<1> QED
  BY <1>1, LoopTypeInit, LoopInvInit DEF MInit, MLoopInv

\* They hold in every run of the process.
LEMMA MLoopInvariant == MSpec => []MLoopInv
<1>1. MInit => MLoopInv
  BY MLoopInit
<1> QED
  BY <1>1, MLoopStep, PTL DEF MSpec

\* The counters agree with the output, in every run and at every moment, with
\* the poller and the loop writing them.
THEOREM MetricsAlwaysAgree == MSpec => []MetricsAgree
<1>1. MLoopInv => MetricsAgree
  BY DEF MLoopInv, CountInv
<1> QED
  BY <1>1, MLoopInvariant, PTL

\* The container named in an alert is one that a process with the pid of its
\* event was in, although the files are read after the event.
THEOREM ContextOfItsPid == MSpec => []ContextIsOfItsPid
<1>1. MLoopInv => ContextIsOfItsPid
  BY ContextSuffices DEF MLoopInv
<1> QED
  BY <1>1, MLoopInvariant, PTL

\* The chain of a process is its ancestry in every tree that a history of execs
\* and reused pids can leave, of any size, with whatever cycles.
THEOREM ChainsAreAncestries == MSpec => []ChainIsAncestry
<1>1. MLoopInv => ChainIsAncestry
  BY TreeOKSuffices DEF MLoopInv
<1> QED
  BY <1>1, MLoopInvariant, PTL

\* Suppression loses no key in a monitor run either.
THEOREM MonitorNoKeyIsLost == MSpec => []NoKeyIsLost
<1>1. MLoopInv => NoKeyIsLost
  BY KeyInvSuffices DEF MLoopInv
<1> QED
  BY <1>1, MLoopInvariant, PTL

-------------------------------------------------------------------------------
(* The files.                                                               *)

\* The steps that are neither the signal goroutine's nor start or end a run.
LEMMA RunningStep ==
  ASSUME MLoop \/ Signal \/ Poll \/ Environment \/ UNCHANGED mvars
  PROVE  UNCHANGED <<run, flags, profile, file, report, failed>>
  BY DEF MLoop, MTake, Signal, Poll, Environment, mvars, config, disk

\* What makes EnforcesAWholeProfile inductive: a file on disk is never newer
\* than the current run, a complete one holds the keys of the events it stands
\* for as they look on disk, and a file written since the profile was loaded is of a later run.
RunsInv ==
  /\ run \in Nat /\ file.run \in 0 .. run /\ report.run \in 0 .. run
  /\ file.state = "whole" => file.seen = Known(file)
  /\ "enforce" \in flags =>
       /\ profile.state = "whole" /\ profile.seen = Known(profile)
       /\ profile.run \in Nat /\ profile.run < run
       /\ profile = file \/ file.run > profile.run

\* No step of a run, and no end of one, breaks RunsInv.
LEMMA RunsStep == RunsInv /\ [MNext]_mvars => RunsInv'
<1> SUFFICES ASSUME RunsInv, [MNext]_mvars PROVE RunsInv'
  OBVIOUS
<1>1. ASSUME NEW f \in FlagSets, Start(f) PROVE RunsInv'
  <2>1. run' = run + 1 /\ flags' = f /\ file' = file /\ report' = report
    BY <1>1 DEF Start, disk
  <2>2. "enforce" \in f => profile' = file /\ file.state = "whole"
    BY <1>1 DEF Start, LoadProfile
  <2> QED
    BY <2>1, <2>2 DEF RunsInv, Known
<1>2. CASE Exit
  BY <1>2 DEF Exit, disk, RunsInv, Known
<1>3. CASE Save
  <2>1. file' = file \/ file' = CutShort(run) \/ file' = Profile(run, learned)
    BY <1>3 DEF Save, WriteFile
  <2>2. UNCHANGED <<run, flags, profile, report>>
    BY <1>3 DEF Save, config
  <2> QED
    BY <2>1, <2>2 DEF RunsInv, CutShort, Profile, Known
<1>4. CASE SaveReport
  <2>1. report' = report \/ report' = CutShort(run) \/ report' = SarifDoc(run)
    BY <1>4 DEF SaveReport, WriteFile
  <2>2. UNCHANGED <<run, flags, profile, file>>
    BY <1>4 DEF SaveReport, config
  <2> QED
    BY <2>1, <2>2 DEF RunsInv, CutShort, SarifDoc, Known
<1>5. CASE UNCHANGED <<run, flags, profile, file, report>>
  BY <1>5 DEF RunsInv, Known
<1>6. CASE CloseLoader
  BY <1>5, <1>6 DEF CloseLoader, config, disk
<1> QED
  BY <1>1, <1>2, <1>3, <1>4, <1>5, <1>6, RunningStep DEF MNext, SignalGoroutine

\* RunsInv holds from the start.
LEMMA RunsInvariant == MSpec => []RunsInv
<1>1. MInit => RunsInv
  BY DEF MInit, RunsInv, NoFile
<1> QED
  BY <1>1, RunsStep, PTL DEF MSpec

\* An enforce run works with a complete profile that an earlier run saved, or
\* it does not start, wherever that run or its Save was broken off.
THEOREM EnforcerProfileWhole == MSpec => []EnforcesAWholeProfile
<1>1. RunsInv => EnforcesAWholeProfile
  BY DEF RunsInv, EnforcesAWholeProfile
<1> QED
  BY <1>1, RunsInvariant, PTL

\* The loop ends only after the signal goroutine has; the learner is given
\* every event, and those asked for are among the events handled.
MControlInv ==
  /\ main = "off" => sig = "off" /\ closed /\ handled = {} /\ Issued = {}
  /\ main # "off" => sig # "off" /\ (closed <=> sig = "done")
  /\ main = "done" => sig = "done"
  /\ asked \subseteq handled
  /\ "learn" \in flags => handled \subseteq learned

\* No step breaks MControlInv.
LEMMA MControlStep ==
  ASSUME MLoopInv, MControlInv, [MNext]_mvars
  PROVE  MControlInv'
<1>1. ASSUME NEW f \in FlagSets, Start(f) PROVE MControlInv'
  BY <1>1 DEF Start, MControlInv
<1>2. CASE Exit
  BY <1>2 DEF Exit, MControlInv, Issued
<1>3. ASSUME NEW e \in Produce, MTake(e) PROVE MControlInv'
  BY <1>3 DEF MTake, Take, MControlInv, config
<1>4. ASSUME \/ \E a \in batch : WriteAlertOut(a)
             \/ NextEvent
             \/ ReadClosed("done"),
             UNCHANGED <<config, learned, sig, failed, disk, asked>>
      PROVE  MControlInv'
  <2>1. /\ main # "off" /\ main' # "off"
        /\ main' = "done" => closed
    BY <1>4 DEF WriteAlertOut, NextEvent, ReadClosed
  <2>2. UNCHANGED <<closed, sig, asked, handled, flags, learned>>
    BY <1>4 DEF WriteAlertOut, NextEvent, ReadClosed, config
  <2> QED
    BY <2>1, <2>2, Zenon DEF MControlInv
<1>5. CASE Signal \/ SignalGoroutine
  BY <1>5 DEF Signal, SignalGoroutine, Save, SaveReport, CloseLoader, Alive, MControlInv,
              loop, config
<1>6. CASE Poll \/ Environment \/ UNCHANGED mvars
  <2>1. UNCHANGED <<main, sig, closed, asked, handled, flags, learned, batch, written>>
    BY <1>6 DEF Poll, Environment, Emit, mvars, loop, config, sinks
  <2> QED
    BY <2>1 DEF MControlInv, Issued
<1> QED
  BY <1>1, <1>2, <1>3, <1>4, <1>5, <1>6 DEF MNext, MLoop

\* What makes ExitLeavesFiles inductive: the same facts from the moment the
\* goroutine has written the file.
SavedInv ==
  /\ sig \in {"report", "close", "done"} /\ "learn" \in flags /\ "profile" \notin failed =>
       file.state = "whole" /\ file.run = run /\ asked \subseteq file.of
  /\ sig \in {"close", "done"} /\ "report" \notin failed =>
       report.state = "whole" /\ report.run = run

\* No step breaks SavedInv.
LEMMA SavedStep ==
  ASSUME MControlInv, SavedInv, [MNext]_mvars
  PROVE  SavedInv'
<1>1. ASSUME NEW f \in FlagSets, Start(f) PROVE SavedInv'
  BY <1>1 DEF Start, SavedInv
<1>2. CASE Exit
  BY <1>2 DEF Exit, SavedInv
<1>3. CASE Signal
  BY <1>3 DEF Signal, SavedInv
<1>4. CASE Save
  <2>1. sig' = "report" /\ UNCHANGED <<flags, run, asked>> /\ asked \subseteq handled
    BY <1>4 DEF Save, config, MControlInv
  <2>2. ASSUME "learn" \in flags, "profile" \notin failed'
        PROVE  file' = Profile(run, learned) /\ handled \subseteq learned
    BY <1>4, <2>2 DEF Save, MControlInv
  <2> QED
    BY <2>1, <2>2 DEF SavedInv, Profile
<1>5. CASE SaveReport
  <2>1. sig = "report" /\ sig' = "close" /\ UNCHANGED <<flags, run, asked, file>>
    BY <1>5 DEF SaveReport, config
  <2>2. failed \subseteq failed'
    BY <1>5 DEF SaveReport
  <2>3. "report" \notin failed' => report' = SarifDoc(run)
    BY <1>5 DEF SaveReport
  <2> QED
    BY <2>1, <2>2, <2>3 DEF SavedInv, SarifDoc
<1>6. CASE CloseLoader
  BY <1>6 DEF CloseLoader, SavedInv, config, disk
<1>7. CASE UNCHANGED <<sig, flags, failed, file, report, run, asked>>
  BY <1>7 DEF SavedInv
<1>8. CASE MLoop \/ Poll \/ Environment \/ UNCHANGED mvars
  BY <1>7, <1>8 DEF MLoop, MTake, Poll, Environment, mvars, config, disk
<1> QED
  BY <1>1, <1>2, <1>3, <1>4, <1>5, <1>6, <1>8 DEF MNext, SignalGoroutine

\* The invariants of the loop, of the goroutines and of the files, together.
MonitorInv == MLoopInv /\ RunsInv /\ MControlInv /\ SavedInv

\* They hold in every run.
LEMMA MonitorInvariant == MSpec => []MonitorInv
<1>1. MInit => MonitorInv
  <2>1. MInit => MLoopInv /\ RunsInv
    BY MLoopInit DEF MInit, RunsInv, NoFile
  <2>2. MInit => MControlInv /\ SavedInv
    BY DEF MInit, LoopInit, MControlInv, SavedInv, Issued
  <2> QED
    BY <2>1, <2>2 DEF MonitorInv
<1>2. MonitorInv /\ [MNext]_mvars => MonitorInv'
  BY MLoopStep, RunsStep, MControlStep, SavedStep DEF MonitorInv
<1> QED
  BY <1>1, <1>2, PTL DEF MSpec

\* Closing the loader is the last thing the goroutine does, so that main does
\* not return before both files are written or their errors printed.
THEOREM FilesLeftAtExit == MSpec => []ExitLeavesFiles
<1>1. MonitorInv => ExitLeavesFiles
  BY DEF MonitorInv, MControlInv, SavedInv, ExitLeavesFiles
<1> QED
  BY <1>1, MonitorInvariant, PTL

-------------------------------------------------------------------------------
(* The baseline.                                                            *)

\* The event is one that the enforcer reports.
Deviates(e) == makeKey(e) # NoKey /\ makeKey(e) \notin profile.seen

\* What makes BaselineRoundTrip inductive: the deviations reported are those
\* of the events handled, no more and no fewer.
DeviationInv ==
  "enforce" \in flags =>
    /\ \A w \in Issued : w.rule = "baseline-deviation" => Deviates(w.evt)
    /\ \A e \in handled :
         Deviates(e) => \E w \in Issued : w.rule = "baseline-deviation" /\ w.evt = e

\* The key is of the behaviour alone: no pid is in it.
LEMMA KeyOfBehaviour ==
  ASSUME NEW e, NEW f, SameBehaviour(e, f)
  PROVE  makeKey(e) = makeKey(f)
  BY Zenon DEF SameBehaviour, makeKey, Joined

\* Taking an event raises the deviation alert for it if it deviates, and no
\* other deviation alert.
LEMMA TakeDeviation ==
  ASSUME NEW e \in Produce, MTake(e), "enforce" \in flags
  PROVE  /\ \A w \in batch' : w.evt = e /\ (w.rule = "baseline-deviation" => Deviates(e))
         /\ Deviates(e) => \E w \in batch' : w.rule = "baseline-deviation" /\ w.evt = e
<1>1. batch' = {Reported(a, e) : a \in Surviving(AlertsOf(e)) \cup Deviation(e, profile)}
  BY DEF MTake, Take, Deviations
<1>2. \A a : Reported(a, e).rule = a.rule /\ Reported(a, e).evt = e
  BY DEF Reported
<1>3. \A a \in Surviving(AlertsOf(e)) : a.rule # "baseline-deviation"
  BY LoopAssumption, NoRuleIsDeviation DEF Surviving, AlertsOf
<1>4. \A a \in Deviation(e, profile) : Deviates(e)
  BY DEF Deviation, Deviates
<1>5. ASSUME Deviates(e)
      PROVE  Alert("baseline-deviation", SEV_MEDIUM) \in Deviation(e, profile)
  BY <1>5 DEF Deviation, Deviates
<1>6. Alert("baseline-deviation", SEV_MEDIUM).rule = "baseline-deviation"
  BY DEF Alert
<1>7. ASSUME NEW w \in batch'
      PROVE  w.evt = e /\ (w.rule = "baseline-deviation" => Deviates(e))
  <2>1. PICK a \in Surviving(AlertsOf(e)) \cup Deviation(e, profile) : w = Reported(a, e)
    BY <1>1
  <2> QED
    BY <1>2, <1>3, <1>4, <2>1
<1>8. ASSUME Deviates(e)
      PROVE  \E w \in batch' : w.rule = "baseline-deviation" /\ w.evt = e
  <2> DEFINE w == Reported(Alert("baseline-deviation", SEV_MEDIUM), e)
  <2>1. w \in batch'
    BY <1>1, <1>5, <1>8
  <2>2. w.rule = "baseline-deviation" /\ w.evt = e
    BY <1>2, <1>6
  <2> HIDE DEF w
  <2> QED
    BY <2>1, <2>2
<1> QED
  BY <1>7, <1>8

\* No step breaks DeviationInv.
LEMMA DeviationStep ==
  ASSUME MonitorInv, DeviationInv, [MNext]_mvars
  PROVE  DeviationInv'
<1>1. ASSUME NEW f \in FlagSets, Start(f) PROVE DeviationInv'
  <2>1. Issued' = {} /\ handled' = {}
    BY <1>1 DEF Start, sinks, MonitorInv, MControlInv, Issued
  <2> QED
    BY <2>1 DEF DeviationInv
<1>2. CASE Exit
  BY <1>2 DEF Exit, DeviationInv
<1>3. ASSUME NEW e \in Produce, MTake(e), "enforce" \in flags PROVE DeviationInv'
  <2>1. /\ profile' = profile /\ batch = {} /\ written' = written
        /\ handled' = handled \cup {e}
    BY <1>3 DEF MTake, Take, config, MonitorInv, MLoopInv, BatchInv
  <2>2. Issued' = Issued \cup batch'
    BY <2>1 DEF Issued
  <2>3. \A x : Deviates(x)' <=> Deviates(x)
    BY <2>1 DEF Deviates
  <2> QED
    BY <1>3, <2>1, <2>2, <2>3, TakeDeviation DEF DeviationInv
<1>4. ASSUME NEW e \in Produce, MTake(e), "enforce" \notin flags PROVE DeviationInv'
  BY <1>4 DEF MTake, config, DeviationInv
<1>5. CASE UNCHANGED <<flags, profile, handled, Issued>>
  BY <1>5 DEF DeviationInv, Deviates
<1>6. ASSUME NEW a \in batch, WriteAlertOut(a), UNCHANGED config PROVE DeviationInv'
  BY <1>5, <1>6, WriteIssues DEF WriteAlertOut, config, MonitorInv, MLoopInv
<1>7. CASE UNCHANGED <<batch, written, config, handled>>
  BY <1>5, <1>7 DEF config, Issued
<1>8. CASE (NextEvent \/ ReadClosed("done")) /\ UNCHANGED config
  BY <1>7, <1>8 DEF NextEvent, ReadClosed, sinks
<1>9. CASE Signal \/ SignalGoroutine
  BY <1>7, <1>9 DEF Signal, SignalGoroutine, Save, SaveReport, CloseLoader, sinks, loop
<1>10. CASE Poll \/ Environment \/ UNCHANGED mvars
  BY <1>7, <1>10 DEF Poll, Environment, Emit, mvars, config, sinks, loop
<1> QED
  BY <1>1, <1>2, <1>3, <1>4, <1>6, <1>8, <1>9, <1>10 DEF MNext, MLoop

\* A behaviour with a UTF-8 key that was learnt has its key in the profile.
LEMMA LearntIsKnown ==
  ASSUME NEW p, NEW e, NEW f \in p.of, SameBehaviour(e, f), KeyIsUTF8(e),
         makeKey(e) # NoKey
  PROVE  makeKey(e) \in Known(p)
<1>1. makeKey(e) = makeKey(f)
  BY KeyOfBehaviour
<1>2. makeKey(e) \in Keys(p.of)
  BY <1>1 DEF Keys
<1>3. OnDisk(makeKey(e)) \in Known(p)
  BY <1>2 DEF Known
<1> QED
  BY <1>3 DEF KeyIsUTF8

\* Learn, save, restart and enforce: no behaviour that the profile was learnt
\* from is ever reported as a deviation, if JSON can hold its key, and every
\* event whose key is not the saved form of a learnt one is.
THEOREM BaselineExact == MSpec => []BaselineRoundTrip
<1>1. MInit => DeviationInv
  BY DEF MInit, DeviationInv
<1>2. ASSUME RunsInv, DeviationInv PROVE BaselineRoundTrip
  <2> SUFFICES ASSUME "enforce" \in flags, NEW e \in handled
               PROVE  /\ KeyIsUTF8(e) /\ (\E f \in profile.of : SameBehaviour(e, f))
                             => ~Alerted(e, "baseline-deviation")
                      /\ makeKey(e) # NoKey /\ makeKey(e) \notin Known(profile)
                             => Alerted(e, "baseline-deviation")
    BY DEF BaselineRoundTrip
  <2>1. profile.seen = Known(profile)
    BY <1>2 DEF RunsInv
  <2>2. Alerted(e, "baseline-deviation") <=> Deviates(e)
    BY <1>2 DEF DeviationInv, Alerted, Issued
  <2>3. KeyIsUTF8(e) /\ (\E f \in profile.of : SameBehaviour(e, f)) => ~Deviates(e)
    BY <2>1, LearntIsKnown DEF Deviates
  <2>4. makeKey(e) # NoKey /\ makeKey(e) \notin Known(profile) => Deviates(e)
    BY <2>1 DEF Deviates
  <2> QED
    BY <2>2, <2>3, <2>4
<1>3. MonitorInv => RunsInv
  BY DEF MonitorInv
<1> QED
  BY <1>1, <1>2, <1>3, DeviationStep, MonitorInvariant, PTL DEF MSpec

-------------------------------------------------------------------------------
(* The report.                                                              *)

\* The report is of the first alerts.
Covers(doc, alerts) ==
  /\ Len(doc.results) \in 0 .. Len(alerts)
  /\ doc.results = [i \in 1 .. Len(doc.results) |-> sarifResult(alerts[i])]
  /\ DOMAIN doc.rules = {alerts[i].rule : i \in 1 .. Len(doc.results)}

\* What makes ReportIsAPrefix inductive: the length of the report is a number,
\* and its rules are those of the alerts it is of.
ReportInv ==
  main # "off" /\ report.state = "whole" /\ report.run = run => Covers(report, written)

\* The report of all alerts written by now.
LEMMA ReportOfNow ==
  ASSUME LoopTypeOK, RulesInv, NEW r
  PROVE  Covers(SarifDoc(r), written)
<1>1. DOMAIN written = 1 .. Len(written) /\ Len(written) \in Nat
  BY LenProperties DEF LoopTypeOK
<1>2. Results(written) = [i \in 1 .. Len(written) |-> sarifResult(written[i])]
  BY <1>1 DEF Results
<1>3. Len(Results(written)) = Len(written)
  <2> DEFINE S == {sarifResult(written[i]) : i \in 1 .. Len(written)}
  <2>1. Results(written) \in [1 .. Len(written) -> S]
    BY <1>2
  <2>2. Results(written) \in Seq(S)
    BY <1>1, <2>1, SeqDef
  <2> QED
    BY <1>1, <1>2, <2>2, LenProperties
<1>4. SarifDoc(r).results = Results(written) /\ SarifDoc(r).rules = rules
  BY DEF SarifDoc
<1>5. DOMAIN rules = {written[i].rule : i \in 1 .. Len(written)}
  BY <1>1 DEF RulesInv
<1> QED
  BY <1>1, <1>2, <1>3, <1>4, <1>5 DEF Covers

\* No step breaks ReportInv.
LEMMA ReportStep ==
  ASSUME MonitorInv, ReportInv, [MNext]_mvars
  PROVE  ReportInv'
<1>1. ASSUME NEW f \in FlagSets, Start(f) PROVE ReportInv'
  <2>1. run' = run + 1 /\ report' = report
    BY <1>1 DEF Start, disk
  <2> QED
    BY <2>1 DEF ReportInv, MonitorInv, RunsInv
<1>2. CASE Exit
  BY <1>2 DEF Exit, ReportInv
<1>3. CASE UNCHANGED <<report, run, written>> /\ main # "off"
  BY <1>3 DEF ReportInv
<1>4. CASE SaveReport
  <2>1. report' = report \/ report' = CutShort(run) \/ report' = SarifDoc(run)
    BY <1>4 DEF SaveReport, WriteFile
  <2>2. run' = run /\ written' = written /\ main # "off"
    BY <1>4 DEF SaveReport, config, sinks, Alive
  <2>3. CASE report' = CutShort(run)
    BY <2>3 DEF CutShort, ReportInv
  <2>4. CASE report' = SarifDoc(run)
    BY <2>2, <2>4, ReportOfNow DEF ReportInv, MonitorInv, MLoopInv
  <2> QED
    BY <1>3, <2>1, <2>2, <2>3, <2>4
<1>5. ASSUME NEW a \in batch, WriteAlertOut(a), UNCHANGED <<config, disk>> PROVE ReportInv'
  <2>1. /\ Len(written) \in Nat /\ Len(written') = Len(written) + 1
        /\ \A i \in 1 .. Len(written) : written'[i] = written[i]
    BY <1>5, WriteType DEF MonitorInv, MLoopInv
  <2>2. UNCHANGED <<report, run>> /\ main # "off"
    BY <1>5 DEF WriteAlertOut, config, disk
  <2>3. ASSUME Covers(report, written) PROVE Covers(report, written')
    <3> DEFINE n == Len(report.results)
    <3>1. n \in 0 .. Len(written') /\ \A i \in 1 .. n : written'[i] = written[i]
      BY <2>1, <2>3 DEF Covers
    <3>2. /\ [i \in 1 .. n |-> sarifResult(written'[i])]
                = [i \in 1 .. n |-> sarifResult(written[i])]
          /\ {written'[i].rule : i \in 1 .. n} = {written[i].rule : i \in 1 .. n}
      BY <3>1
    <3> QED
      BY <2>3, <3>1, <3>2 DEF Covers
  <2> QED
    BY <2>2, <2>3 DEF ReportInv
<1>6. ASSUME NEW e \in Produce, MTake(e) PROVE ReportInv'
  BY <1>3, <1>6 DEF MTake, Take, config, disk
<1>7. CASE (NextEvent \/ ReadClosed("done")) /\ UNCHANGED <<config, disk>>
  BY <1>3, <1>7 DEF NextEvent, ReadClosed, config, disk, sinks
<1>8. CASE Signal \/ Save \/ CloseLoader \/ Poll
  BY <1>3, <1>8 DEF Signal, Save, CloseLoader, Poll, Alive, config, disk, sinks
<1>9. CASE Environment \/ UNCHANGED mvars
  <2>1. UNCHANGED <<report, run, written, main>>
    BY <1>9 DEF Environment, Emit, mvars, config, disk, sinks, loop
  <2> QED
    BY <2>1 DEF ReportInv
<1> QED
  BY <1>1, <1>2, <1>4, <1>5, <1>6, <1>7, <1>8, <1>9 DEF MNext, MLoop, SignalGoroutine

\* The report is what was written up to some moment of the run, with exactly
\* the rules of its results, although the loop writes on while it is saved.
THEOREM ReportPrefix == MSpec => []ReportIsAPrefix
<1>1. MInit => ReportInv
  BY DEF MInit, ReportInv
<1>2. ReportInv => ReportIsAPrefix
  <2>1. \A a : sarifResult(a).rule = a.rule
    BY Zenon DEF sarifResult
  <2>2. ASSUME Covers(report, written)
        PROVE  DOMAIN report.rules = {report.results[i].rule : i \in DOMAIN report.results}
    <3>1. /\ DOMAIN report.results = 1 .. Len(report.results)
          /\ \A i \in DOMAIN report.results : report.results[i].rule = written[i].rule
      BY <2>1, <2>2 DEF Covers
    <3> QED
      BY <2>2, <3>1 DEF Covers
  <2>3. ASSUME Covers(report, written) PROVE Len(report.results) <= Len(written)
    BY <2>3 DEF Covers
  <2> QED
    BY <2>2, <2>3 DEF ReportInv, ReportIsAPrefix, Covers
<1> QED
  BY <1>1, <1>2, ReportStep, MonitorInvariant, PTL DEF MSpec

===============================================================================
