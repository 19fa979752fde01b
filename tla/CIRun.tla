-------------------------------- MODULE CIRun --------------------------------
(***************************************************************************)
(* runCI of cmd/chainscope/main.go, from the moment the command runs: the  *)
(* event loop, the goroutine that waits for the command, the threshold and *)
(* what the run leaves behind: the SARIF file and the exit code.           *)
(***************************************************************************)
EXTENDS EventLoop

CONSTANTS
  ExitCodes,  \* exit codes of the command; -1 when a signal killed it
  MinSev      \* the string given to -min-sev

ASSUME CIAssumption == ExitCodes \subseteq -1 .. 255

VARIABLES
  cmd,       \* "running" or "exited"
  code,      \* the command's exit code
  waiter,    \* pc of the goroutine that waits for the command
  cmdDone,   \* the channel, of capacity 1
  alertCount,
  sarif,     \* the SARIF file
  exitCode   \* what runCI returned

child  == <<cmd, code, waiter, cmdDone>>
final  == <<sarif, exitCode>>
civars == <<dvars, ring, closed, sinks, loop, child, alertCount, final>>

NoCode == -2

parseSeverity(s) ==
  CASE s = "low"      -> SEV_LOW
    [] s = "medium"   -> SEV_MEDIUM
    [] s = "critical" -> SEV_CRITICAL
    [] OTHER          -> SEV_HIGH

threshold == parseSeverity(MinSev)

CIInit ==
  /\ LoopInit
  /\ closed = FALSE
  /\ main = "read"
  /\ cmd = "running"
  /\ code = NoCode
  /\ waiter = "wait"
  /\ cmdDone = <<>>
  /\ alertCount = 0
  /\ sarif = NoFile
  /\ exitCode = NoCode

-------------------------------------------------------------------------------
(* The command and the clock.  Descendants may outlive the command, so      *)
(* events keep coming until the loader is closed.                           *)

CmdEmits(e) == Emit(e) /\ UNCHANGED <<child, alertCount, final>>

CmdExit ==
  /\ cmd = "running"
  /\ cmd' = "exited"
  /\ code' \in ExitCodes
  /\ UNCHANGED <<dvars, ring, closed, sinks, loop, waiter, cmdDone, alertCount, final>>

Clock ==
  /\ Tick
  /\ UNCHANGED <<ring, closed, sinks, loop, child, alertCount, final>>

-------------------------------------------------------------------------------
(* The waiting goroutine: cmd.Wait, a sleep, l.Close, cmdDone <- code.      *)

Wait ==
  /\ waiter = "wait"
  /\ cmd = "exited"
  /\ waiter' = "sleep"
  /\ UNCHANGED <<dvars, ring, closed, sinks, loop, cmd, code, cmdDone, alertCount, final>>

\* MUTANT: the goroutine reports the exit without closing the loader.
Close_forgotten ==
  /\ waiter = "sleep"
  /\ waiter' = "send"
  /\ UNCHANGED <<dvars, ring, closed, sinks, loop, cmd, code, cmdDone, alertCount, final>>

\* The sleep bounds nothing the reader does: it may be arbitrarily slow.
\* What is left in the ring buffer is unreadable afterwards.
Close ==
  /\ waiter = "sleep"
  /\ closed' = TRUE
  /\ waiter' = "send"
  /\ UNCHANGED <<dvars, ring, sinks, loop, cmd, code, cmdDone, alertCount, final>>

Send ==
  /\ waiter = "send"
  /\ cmdDone = <<>>
  /\ cmdDone' = <<code>>
  /\ waiter' = "done"
  /\ UNCHANGED <<dvars, ring, closed, sinks, loop, cmd, code, alertCount, final>>

-------------------------------------------------------------------------------
(* The main goroutine.                                                      *)

\* MUTANT: only alerts above the threshold count.
Counts_above(a) == a.sev > threshold

Counts(a) == a.sev >= threshold

CILoop ==
  \/ /\ \/ \E e \in Produce : Take(e, {})
        \/ NextEvent
        \/ ReadClosed("join")
     /\ UNCHANGED <<child, alertCount, final>>
  \/ \E a \in batch :
       /\ WriteAlertOut(a)
       /\ alertCount' = IF Counts(a) THEN alertCount + 1 ELSE alertCount
       /\ UNCHANGED <<child, final>>

\* cmdExit := <-cmdDone.  What arrives is code, which no longer changes.
Join ==
  /\ main = "join"
  /\ cmdDone # <<>>
  /\ main' = "sarif"
  /\ cmdDone' = Tail(cmdDone)
  /\ UNCHANGED <<dvars, ring, closed, sinks, batch, nodes, handled, cmd, code, waiter,
                 alertCount, final>>

\* MUTANT: the report is written as soon as the loader is closed.
SarifClose_early ==
  /\ closed
  /\ main = "sarif" \/ sarif = NoFile
  /\ sarif' = IF sarif = NoFile THEN SarifDoc(1) ELSE sarif
  /\ main' = IF main = "sarif" THEN "return" ELSE main
  /\ UNCHANGED <<dvars, ring, closed, sinks, batch, nodes, handled, child, alertCount,
                 exitCode>>

\* sarifWriter.Close().  An error is printed, and the run goes on.
SarifClose ==
  /\ main = "sarif"
  /\ sarif' \in WriteFile(sarif, 1, SarifDoc(1))
  /\ main' = "return"
  /\ UNCHANGED <<dvars, ring, closed, sinks, batch, nodes, handled, child, alertCount,
                 exitCode>>

Return ==
  /\ main = "return"
  /\ exitCode' = IF alertCount > 0 THEN 1 ELSE code
  /\ main' = "done"
  /\ UNCHANGED <<dvars, ring, closed, sinks, batch, nodes, handled, child, alertCount,
                 sarif>>

-------------------------------------------------------------------------------

Waiter == Wait \/ Close \/ Send

Main == CILoop \/ Join \/ SarifClose \/ Return

CINext ==
  \/ \E e \in Produce : CmdEmits(e)
  \/ CmdExit
  \/ Clock
  \/ Waiter
  \/ Main

\* The Go scheduler runs every goroutine that can run.
CISpec == CIInit /\ [][CINext]_civars /\ WF_civars(Waiter) /\ WF_civars(Main)

-------------------------------------------------------------------------------

\* The exit code follows the documented table, whenever the command exits
\* relative to the events.
ExitCodeIsSound ==
  main = "done" =>
    exitCode = IF \E i \in DOMAIN written : written[i].sev >= threshold THEN 1 ELSE code

\* A complete SARIF file holds every alert that was written, none of them lost
\* to the shutdown order, and describes exactly the rules of its results.
SarifIsComplete ==
  sarif.state = "whole" /\ main \in {"return", "done"} =>
    /\ sarif.results = Results(written)
    /\ DOMAIN sarif.rules = {written[i].rule : i \in DOMAIN written}

\* Once the command has exited, runCI returns.
CommandExitEndsRun == cmd = "exited" ~> main = "done"

\* main.go: runCI "returns 1 if any HIGH+ alert was triggered".
TriggeredAlertFails ==
  main = "done" /\ (\E e \in handled : \E a \in AlertsOf(e) : a.sev >= threshold)
    => exitCode = 1

===============================================================================
