------------------------------- MODULE Pipeline -------------------------------
(***************************************************************************)
(* The kernel programs and the rule engine together: what the records that *)
(* BpfTracker can put into the ring buffer make Detector raise.  The       *)
(* engine keeps no state between events, so its verdict on a record is a   *)
(* function of the record, whenever the reader gets to it.                 *)
(***************************************************************************)
EXTENDS BpfTracker, Detector

Pending == {events[i] : i \in DOMAIN events}

\* The two sides rate an event alike: whatever the rule engine reports, it
\* never reports below the severity the kernel program put on the record.
\* That includes chmod-exec-bit, which takes over the record's severity and
\* so is HIGH on an install path.  And what the kernel program rates MEDIUM or
\* above is reported, except a write that passes the kernel program's
\* is_install_path and not the rule engine's isInstallPath (/usr/lib).
SeverityAgreement ==
  \A e \in Pending :
    /\ Check(e) # {} => \E a \in Check(e) : a.sev >= e.sev
    /\ Check(e) = {} /\ e.sev >= SEV_MEDIUM =>
         e.type = "file_write" /\ \A path \in e.arg : ~isInstallPath(path)

\* A connection or a name lookup by a process recorded as a compiler or a
\* linker is CRITICAL, under whatever tool it runs and whatever the policy file
\* allows.  This is about processes that the execve hook recorded: a compiler
\* that CI mode seeds has no phase, and one that execveat started is recorded
\* under the name of the program before it.
CompilerNetworkIsCritical ==
  \A e \in Pending :
    /\ e.type \in {"net_connect", "dns_lookup"}
    /\ e.comm \in Compilers \cup Linkers
    => \E a \in Check(e) : a.sev = SEV_CRITICAL

===============================================================================
