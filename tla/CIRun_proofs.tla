----------------------------- MODULE CIRun_proofs -----------------------------
(***************************************************************************)
(* Theorems about CIRun: the verdict, the report and the deduplication of  *)
(* a CI run, for every set of events, every capacity and every moment at   *)
(* which the command exits.                                                *)
(***************************************************************************)
EXTENDS CIRun, EventLoop_proofs

\* A step writes an alert, or leaves what was written and the count alone.
KeepsSinks == UNCHANGED <<written, rules, alertCount>>

WritesOne ==
  \E a \in batch :
    /\ WriteAlertOut(a)
    /\ alertCount' = IF Counts(a) THEN alertCount + 1 ELSE alertCount
    /\ UNCHANGED <<child, final>>

\* Every step is the loop's or leaves the loop's state alone.
LEMMA CIStepSplit ==
  ASSUME [CINext]_civars
  PROVE  (LoopStep \/ RestStep) /\ (WritesOne \/ KeepsSinks)
<1>1. ASSUME NEW e \in Produce, CmdEmits(e) PROVE LoopStep /\ KeepsSinks
  BY <1>1 DEF CmdEmits, LoopStep, Emit, KeepsSinks, sinks
<1>2. CASE CmdExit \/ Wait \/ Close \/ Send
  BY <1>2 DEF CmdExit, Wait, Close, Send, RestStep, KeepsSinks, sinks, loop
<1>3. CASE Clock
  BY <1>3 DEF Clock, RestStep, KeepsSinks, sinks, loop
<1>4. CASE CILoop
  <2>1. ASSUME NEW e \in Produce, Take(e, {}), UNCHANGED alertCount
        PROVE  LoopStep /\ KeepsSinks
    <3>1. {} \in SUBSET Deviant
      OBVIOUS
    <3>2. LoopStep
      BY <2>1, <3>1 DEF LoopStep
    <3> QED
      BY <2>1, <3>2 DEF Take, KeepsSinks
  <2>2. CASE (NextEvent \/ ReadClosed("join")) /\ UNCHANGED alertCount
    BY <2>2 DEF LoopStep, NextEvent, ReadClosed, KeepsSinks, sinks
  <2>3. CASE WritesOne
    BY <2>3 DEF LoopStep, WritesOne
  <2> QED
    BY <1>4, <2>1, <2>2, <2>3 DEF CILoop, WritesOne
<1>5. CASE Join \/ SarifClose \/ Return
  BY <1>5 DEF Join, SarifClose, Return, RestStep, KeepsSinks, sinks
<1>6. CASE UNCHANGED civars
  BY <1>6 DEF civars, RestStep, KeepsSinks, sinks, loop
<1> QED
  BY <1>1, <1>2, <1>3, <1>4, <1>5, <1>6 DEF CINext, Waiter, Main

-------------------------------------------------------------------------------
(* Deduplication.                                                           *)

\* A CI run uses the deduplicator as Dedup says it is used: one call per
\* event, with alerts of different rules.
LEMMA CIUsesDedup == CISpec => DSpec
<1>1. CIInit => DInit
  BY DEF CIInit, LoopInit
<1>2. [CINext]_civars => [DNext]_dvars
  BY CIStepSplit, LoopUsesDedup
<1> QED
  BY <1>1, <1>2, PTL DEF CISpec, DSpec

\* In a CI run the alerts that reach the writers are limited per rule and root
\* process as AlertLimiter says, whatever the loop does between two calls.
THEOREM CIImplementsLimiter == CISpec => ImplementsLimiter
  BY CIUsesDedup, DedupImplementsLimiter, PTL

\* The loop's invariants hold throughout a CI run.
LEMMA CILoopInvariant == CISpec => [](LoopTypeOK /\ BatchInv /\ KeyInv /\ RulesInv)
<1>1. CIInit => LoopTypeOK /\ BatchInv /\ KeyInv /\ RulesInv
  BY LoopTypeInit, LoopInvInit DEF CIInit
<1>2. LoopTypeOK /\ BatchInv /\ KeyInv /\ RulesInv /\ [CINext]_civars
        => (LoopTypeOK /\ BatchInv /\ KeyInv /\ RulesInv)'
  BY CIStepSplit, LoopTypeStep, BatchStep, KeyStep, RulesStep
<1> QED
  BY <1>1, <1>2, PTL DEF CISpec

\* Suppression loses no key: for whatever Check raised on an event the loop
\* took, an alert with its rule and root process is written or about to be.
THEOREM CINoKeyIsLost == CISpec => []NoKeyIsLost
  BY CILoopInvariant, KeyInvSuffices, PTL

-------------------------------------------------------------------------------
(* The verdict.                                                             *)

\* The loop is left for good only after the command has exited, so the code
\* that Return reads is the command's.
ControlInv ==
  /\ waiter # "wait" => cmd = "exited"
  /\ cmdDone # <<>> => cmd = "exited"
  /\ main \in {"sarif", "return", "done"} => cmd = "exited"

\* No step leaves the loop for good before the command has exited.
LEMMA ControlStep == ControlInv /\ [CINext]_civars => ControlInv'
<1> SUFFICES ASSUME ControlInv, [CINext]_civars PROVE ControlInv'
  OBVIOUS
<1>1. ASSUME NEW e \in Produce, CmdEmits(e) PROVE ControlInv'
  BY <1>1 DEF CmdEmits, Emit, child, loop, ControlInv
<1>2. CASE CmdExit \/ Clock \/ Wait \/ Close \/ Send
  BY <1>2 DEF CmdExit, Clock, Wait, Close, Send, child, loop, ControlInv
<1>3. CASE CILoop
  BY <1>3 DEF CILoop, Take, NextEvent, ReadClosed, WriteAlertOut, child, ControlInv
<1>4. CASE Join \/ SarifClose \/ Return
  BY <1>4 DEF Join, SarifClose, Return, child, ControlInv
<1>5. CASE UNCHANGED civars
  BY <1>5 DEF civars, child, loop, ControlInv
<1> QED
  BY <1>1, <1>2, <1>3, <1>4, <1>5 DEF CINext, Waiter, Main

\* alertCount tells whether an alert at or above the threshold was written.
CountsInv ==
  /\ alertCount \in Nat
  /\ alertCount > 0 <=> \E i \in DOMAIN written : Counts(written[i])

\* An alert is counted when it is written, and only then.
LEMMA CountsStep ==
  ASSUME LoopTypeOK, CountsInv, [CINext]_civars
  PROVE  CountsInv'
<1>1. CASE WritesOne
  <2>1. PICK a \in batch :
          /\ WriteAlertOut(a)
          /\ alertCount' = IF Counts(a) THEN alertCount + 1 ELSE alertCount
    BY <1>1 DEF WritesOne
  <2>2. (\E i \in DOMAIN written' : Counts(written'[i]))
          <=> Counts(a) \/ \E i \in DOMAIN written : Counts(written[i])
    BY <2>1, WriteType
  <2>3. (\E i \in DOMAIN written : Counts(written[i]))'
          <=> \E i \in DOMAIN written' : Counts(written'[i])
    BY DEF Counts
  <2> QED
    BY <2>1, <2>2, <2>3 DEF CountsInv
<1>2. CASE KeepsSinks
  BY <1>2 DEF KeepsSinks, CountsInv, Counts
<1> QED
  BY <1>1, <1>2, CIStepSplit

\* What Return returned still is what it would return.
VerdictInv == main = "done" => exitCode = IF alertCount > 0 THEN 1 ELSE code

\* Nothing the verdict depends on changes once it is returned.
LEMMA VerdictStep ==
  ASSUME ControlInv, VerdictInv, [CINext]_civars
  PROVE  VerdictInv'
<1>1. CASE main = "done"
  <2>1. UNCHANGED <<alertCount, code, exitCode, main>>
    <3>1. cmd = "exited"
      BY <1>1 DEF ControlInv
    <3>2. CASE CILoop
      BY <1>1, <3>2 DEF CILoop, Take, NextEvent, ReadClosed, WriteAlertOut
    <3>3. CASE Join \/ SarifClose \/ Return
      BY <1>1, <3>3 DEF Join, SarifClose, Return
    <3>4. CASE CmdExit
      BY <3>1, <3>4 DEF CmdExit
    <3>5. ASSUME NEW e \in Produce, CmdEmits(e)
          PROVE  UNCHANGED <<alertCount, code, exitCode, main>>
      BY <3>5 DEF CmdEmits, Emit, child, final, loop
    <3>6. CASE Clock \/ Wait \/ Close \/ Send \/ UNCHANGED civars
      BY <3>6 DEF Clock, Wait, Close, Send, civars, child, final, loop
    <3> QED
      BY <3>2, <3>3, <3>4, <3>5, <3>6 DEF CINext, Waiter, Main
  <2> QED
    BY <2>1 DEF VerdictInv
<1>2. CASE main # "done"
  <2>1. CASE Return
    BY <2>1 DEF Return, child, VerdictInv
  <2>2. CASE ~Return
    <3>1. main' # "done"
      BY <1>2, <2>2
      DEF CINext, CmdEmits, Emit, CmdExit, Clock, Waiter, Wait, Close, Send, Main, CILoop,
          Take, NextEvent, ReadClosed, WriteAlertOut, Join, SarifClose, civars, loop
    <3> QED
      BY <3>1 DEF VerdictInv
  <2> QED
    BY <2>1, <2>2
<1> QED
  BY <1>1, <1>2

\* The exit code is right whenever the command exits: 1 if some alert at or
\* above the threshold was written, and the command's own code otherwise.
THEOREM ExitCodeSound == CISpec => []ExitCodeIsSound
<1>1. CIInit => ControlInv /\ CountsInv /\ VerdictInv
  BY DEF CIInit, LoopInit, ControlInv, CountsInv, VerdictInv
<1>2. LoopTypeOK /\ ControlInv /\ CountsInv /\ VerdictInv /\ [CINext]_civars
        => (ControlInv /\ CountsInv /\ VerdictInv)'
  BY ControlStep, CountsStep, VerdictStep
<1>3. CountsInv /\ VerdictInv => ExitCodeIsSound
  BY DEF CountsInv, VerdictInv, ExitCodeIsSound, Counts
<1> QED
  BY <1>1, <1>2, <1>3, CILoopInvariant, PTL DEF CISpec

-------------------------------------------------------------------------------
(* The report.                                                              *)

\* There is no file before SarifClose, and afterwards nothing is written that
\* the file could miss.
SarifInv ==
  /\ main \notin {"return", "done"} => sarif = NoFile
  /\ main \in {"return", "done"} => sarif \in WriteFile(NoFile, 1, SarifDoc(1))

\* The file is written once, when the loop is over.
LEMMA SarifStep ==
  ASSUME SarifInv, [CINext]_civars
  PROVE  SarifInv'
<1>1. CASE SarifClose
  BY <1>1 DEF SarifClose, SarifInv, WriteFile, SarifDoc, Results, sinks
<1>2. CASE Return
  BY <1>2 DEF Return, SarifInv, WriteFile, SarifDoc, Results, sinks
<1>3. CASE ~SarifClose /\ ~Return
  <2>1. /\ sarif' = sarif
        /\ main' \in {"return", "done"} <=> main \in {"return", "done"}
        /\ main \in {"return", "done"} => UNCHANGED <<written, rules>>
    BY <1>3
    DEF CINext, CmdEmits, Emit, CmdExit, Clock, Waiter, Wait, Close, Send, Main, CILoop,
        Take, NextEvent, ReadClosed, WriteAlertOut, Join, civars, loop, sinks, final
  <2> QED
    BY <2>1 DEF SarifInv, WriteFile, SarifDoc, Results
<1> QED
  BY <1>1, <1>2, <1>3

\* Neither the waiting goroutine nor an early close costs the report an
\* alert: a complete SARIF file holds all of them, and describes exactly the
\* rules of its results.
THEOREM SarifComplete == CISpec => []SarifIsComplete
<1>1. CIInit => SarifInv
  BY DEF CIInit, SarifInv
<1>2. SarifInv /\ [CINext]_civars => SarifInv'
  BY SarifStep
<1>3. RulesInv /\ SarifInv => SarifIsComplete
  BY DEF RulesInv, SarifInv, SarifIsComplete, WriteFile, NoFile, CutShort, SarifDoc
<1> QED
  BY <1>1, <1>2, <1>3, CILoopInvariant, PTL DEF CISpec

===============================================================================
