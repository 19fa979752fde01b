------------------------------- MODULE Monitor -------------------------------
(***************************************************************************)
(* main of cmd/chainscope/main.go over several runs of the process: the    *)
(* event loop with the learner or the enforcer, the goroutine that saves   *)
(* the profile and the report when a signal arrives while the loop is      *)
(* still running, the goroutine that polls the drop counter, and the two   *)
(* files that survive the process.  A run may be killed at any time.       *)
(***************************************************************************)
EXTENDS EventLoop

CONSTANTS
  FlagSets,  \* the flags a run may be started with
  MaxRuns    \* bound on the runs of the process

ASSUME MonitorAssumption ==
  /\ FlagSets \subseteq SUBSET {"learn", "enforce", "metrics"}
  /\ MaxRuns \in Nat

VARIABLES
  run,      \* number of the current run
  flags,    \* its flags (--learn, --enforce, --metrics-addr); --sarif is always on
  profile,  \* the enforcer's profile
  learned,  \* the events the learner was given; it keeps their keys
  sig,      \* pc of the signal goroutine
  failed,   \* files whose writing failed; main prints the error and goes on
  file,     \* the profile on disk
  report,   \* the SARIF file
  asked     \* history: the events handled when the signal arrived

disk   == <<file, report>>
mvars  == <<dvars, ring, closed, sinks, loop, run, flags, profile, learned, sig,
            failed, disk, asked>>
config == <<run, flags, profile>>

Alive == main \in {"read", "write"}

MInit ==
  /\ LoopInit
  /\ closed = TRUE
  /\ main = "off"
  /\ run = 0
  /\ flags = {}
  /\ profile = NoFile
  /\ learned = {}
  /\ sig = "off"
  /\ failed = {}
  /\ file = NoFile
  /\ report = NoFile
  /\ asked = {}

-------------------------------------------------------------------------------
(* Start-up.  A profile that cannot be loaded ends the process before the   *)
(* hooks are attached; so does an error of loader.New.                      *)

Start(f) ==
  /\ main = "off"
  /\ run < MaxRuns
  /\ \E p \in (IF "enforce" \in f THEN LoadProfile(file) ELSE {NoFile}) : profile' = p
  /\ run' = run + 1
  /\ flags' = f
  /\ main' = "read"
  /\ closed' = FALSE
  /\ sig' = "wait"
  /\ UNCHANGED <<dvars, ring, sinks, batch, nodes, handled, learned, failed, disk, asked>>

\* The process ends, after main has returned or because it is killed at any
\* time: what was in memory is lost.
Exit ==
  /\ main # "off"
  /\ main' = "off" /\ sig' = "off" /\ closed' = TRUE
  /\ now' = 0 /\ seen' = [k \in {} |-> 0] /\ offered' = {} /\ out' = {}
  /\ events' = <<>> /\ dropped' = 0 /\ batch' = {} /\ written' = <<>>
  /\ rules' = NoRules /\ metrics' = NoMetrics /\ nodes' = NoNodes /\ handled' = {}
  /\ flags' = {} /\ profile' = NoFile /\ learned' = {} /\ failed' = {} /\ asked' = {}
  /\ UNCHANGED <<made, run, disk>>

-------------------------------------------------------------------------------
(* The event loop.                                                          *)

\* The enforcer's alert joins after the deduplicator: it is never suppressed.
Deviations(e) == IF "enforce" \in flags THEN Deviation(e, profile) ELSE {}

MTake(e) ==
  /\ Take(e, Deviations(e))
  /\ learned' = IF "learn" \in flags THEN learned \cup {e} ELSE learned
  /\ UNCHANGED <<config, sig, failed, disk, asked>>

MLoop ==
  \/ \E e \in Produce : MTake(e)
  \/ /\ \/ \E a \in batch : WriteAlertOut(a)
        \/ NextEvent
        \/ ReadClosed("done")     \* main returns
     /\ UNCHANGED <<config, learned, sig, failed, disk, asked>>

-------------------------------------------------------------------------------
(* The signal goroutine: learner.Save, sarifWriter.Close, l.Close.          *)

Signal ==
  /\ Alive
  /\ sig = "wait"
  /\ sig' = "save"
  /\ asked' = handled
  /\ UNCHANGED <<dvars, ring, closed, sinks, loop, config, learned, failed, disk>>

\* Save holds the learner's lock throughout.
Save ==
  /\ Alive
  /\ sig = "save"
  /\ sig' = "report"
  /\ IF "learn" \in flags
     THEN /\ file' \in WriteFile(file, run, Profile(run, learned))
          /\ failed' = IF file' = Profile(run, learned) THEN failed ELSE failed \cup {"profile"}
     ELSE UNCHANGED <<file, failed>>
  /\ UNCHANGED <<dvars, ring, closed, sinks, loop, config, learned, report, asked>>

SaveReport ==
  /\ Alive
  /\ sig = "report"
  /\ sig' = "close"
  /\ report' \in WriteFile(report, run, SarifDoc(run))
  /\ failed' = IF report' = SarifDoc(run) THEN failed ELSE failed \cup {"report"}
  /\ UNCHANGED <<dvars, ring, closed, sinks, loop, config, learned, file, asked>>

\* MUTANT: the loader is closed first.
CloseLoader_first ==
  /\ Alive
  /\ sig # "wait" /\ ~closed
  /\ closed' = TRUE
  /\ sig' = IF sig = "close" THEN "done" ELSE sig
  /\ UNCHANGED <<dvars, ring, sinks, loop, config, learned, failed, disk, asked>>

\* MUTANT: the goroutine ends without closing the loader.
CloseLoader_forgotten ==
  /\ Alive
  /\ sig = "close"
  /\ sig' = "done"
  /\ UNCHANGED <<dvars, ring, closed, sinks, loop, config, learned, failed, disk, asked>>

\* l.Close(): the reader's next call returns nil, the hooks are gone.
CloseLoader ==
  /\ Alive
  /\ sig = "close"
  /\ sig' = "done"
  /\ closed' = TRUE
  /\ UNCHANGED <<dvars, ring, sinks, loop, config, learned, failed, disk, asked>>

SignalGoroutine == Save \/ SaveReport \/ CloseLoader

-------------------------------------------------------------------------------
(* The drop poller, the kernel and the clock.                               *)

\* MUTANT: the compiled object is taken for one without the counter.
DroppedEvents_legacy == 0

\* The look-up fails once the maps are closed.
DroppedEvents == IF closed THEN 0 ELSE dropped

\* The ticker exists only beside a metrics server.
Poll ==
  /\ Alive
  /\ "metrics" \in flags
  /\ metrics' = [metrics EXCEPT !.dropped = DroppedEvents]
  /\ UNCHANGED <<dvars, ring, closed, written, rules, loop, config, learned, sig, failed,
                 disk, asked>>

\* The clock is looked at only when an event is taken.
Environment ==
  /\ \/ \E e \in Produce : Emit(e)
     \/ main = "read" /\ ~closed /\ Tick /\ UNCHANGED <<ring, closed, sinks, loop>>
  /\ UNCHANGED <<config, learned, sig, failed, disk, asked>>

MNext ==
  \/ \E f \in FlagSets : Start(f)
  \/ Exit
  \/ MLoop
  \/ Signal
  \/ SignalGoroutine
  \/ Poll
  \/ Environment

\* The Go scheduler runs every goroutine that can run, and tickers fire.
\* Nothing is assumed of signals, events and the operator.
MSpec ==
  /\ MInit /\ [][MNext]_mvars
  /\ WF_mvars(MLoop) /\ WF_mvars(SignalGoroutine) /\ WF_mvars(Poll)

-------------------------------------------------------------------------------

Alerted(e, rule) ==
  \E w \in batch \cup {written[i] : i \in DOMAIN written} : w.rule = rule /\ w.evt = e

SameBehaviour(e, f) ==
  /\ e.type = f.type /\ e.phase = f.phase /\ e.comm = f.comm
  /\ e.path = f.path /\ e.arg = f.arg

\* What the learner was given, as the enforcer finds it in the profile.
Known(p) == {OnDisk(k) : k \in Keys(p.of)}

\* encoding/json leaves the key as it is, if there is one.
KeyIsUTF8(e) == makeKey(e) # NoKey => OnDisk(makeKey(e)) = makeKey(e)

\* Learn, save, restart, enforce: a behaviour the learner was given before it
\* saved is never a deviation in a later run, whatever its pids are then,
\* unless its name or path is not UTF-8; and whatever has a key that is not,
\* character by character, the saved key of one of those events is one, each
\* time it happens.
BaselineRoundTrip ==
  "enforce" \in flags =>
    \A e \in handled :
      /\ KeyIsUTF8(e) /\ (\E f \in profile.of : SameBehaviour(e, f))
           => ~Alerted(e, "baseline-deviation")
      /\ makeKey(e) # NoKey /\ makeKey(e) \notin Known(profile)
           => Alerted(e, "baseline-deviation")

\* A run killed in the middle of Save leaves a file that no later run takes
\* for a baseline: an enforce run works with everything one learn run knew.
EnforcesAWholeProfile ==
  Alive /\ "enforce" \in flags =>
    /\ profile.state = "whole" /\ profile.run < run
    /\ profile = file \/ file.run > profile.run

\* Ending the loop is the goroutine's last act: when main returns, each file
\* is complete or its error was printed, and covers what was handled before
\* the signal came.
ExitLeavesFiles ==
  main = "done" =>
    /\ "learn" \in flags /\ "profile" \notin failed =>
         file.state = "whole" /\ file.run = run /\ asked \subseteq file.of
    /\ "report" \notin failed => report.state = "whole" /\ report.run = run

\* The report is saved while alerts are still written: it holds a prefix of
\* them, and describes exactly the rules of the results it holds.
ReportIsAPrefix ==
  main # "off" /\ report.state = "whole" /\ report.run = run =>
    /\ Len(report.results) <= Len(written)
    /\ report.results = [i \in 1 .. Len(report.results) |-> sarifResult(written[i])]
    /\ DOMAIN report.rules = {report.results[i].rule : i \in DOMAIN report.results}

\* A signal ends the run.
SignalEndsRun == sig = "save" ~> ~Alive

\* A loss that the kernel program counted is not silent for good: it reaches
\* the metrics while a monitor that was started with them keeps running.
LossIsReported ==
  dropped > 0 /\ Alive /\ "metrics" \in flags ~> metrics.dropped > 0 \/ closed

\* main.go: "write SARIF 2.1.0 report to this path on exit".
ReportIsComplete ==
  main = "done" /\ "report" \notin failed => report.results = Results(written)

==============================================================================
