---------------------------- MODULE Pipeline_proofs ----------------------------
(***************************************************************************)
(* Theorems about Pipeline: what the rule engine says of any record the    *)
(* kernel programs can put into the ring buffer, for every set of          *)
(* processes, paths and destinations and every policy.                     *)
(***************************************************************************)
EXTENDS Pipeline, BpfTracker_proofs

\* A record keeps the severity the hook gave it for the phase it reports,
\* however the process's entry changes before the record is read.
RingRated ==
  \A i \in DOMAIN events : RatedAs(events[i].type, events[i].phase, events[i].sev)

\* No step changes a record in the ring or adds one rated otherwise.
LEMMA RatedStep ==
  ASSUME TypeOK, RingRated, [Next]_vars
  PROVE  RingRated'
<1> SUFFICES ASSUME NEW i \in DOMAIN events'
             PROVE  RatedAs(events'[i].type, events'[i].phase, events'[i].sev)
  BY DEF RingRated
<1>1. CASE \E j \in DOMAIN events : events'[i] = events[j]
  BY <1>1 DEF RingRated
<1>2. ASSUME NEW p \in Pid, NEW type, NEW sev, NEW info, NEW arg,
             events'[i] = Event(type, sev, p, info, arg),
             RatedAs(type, info.phase, sev)
      PROVE  RatedAs(events'[i].type, events'[i].phase, events'[i].sev)
  <2>1. /\ events'[i].type = type
        /\ events'[i].phase = info.phase
        /\ events'[i].sev = sev
    BY <1>2 DEF Event
  <2> QED
    BY <1>2, <2>1
<1> QED
  BY <1>1, <1>2, Sources DEF RingSources

\* Check's dispatch.
LEMMA Dispatch ==
  ASSUME NEW e
  PROVE  /\ e.type = "net_connect" => Check(e) = checkNet(e)
         /\ e.type = "dns_lookup" => Check(e) = checkDns(e)
<1>1. e.type = "net_connect" => Check(e) = checkNet(e)
  BY DEF Check
<1>2. e.type = "dns_lookup" => Check(e) = checkDns(e)
  BY DEF Check
<1> QED
  BY <1>1, <1>2

\* Whatever rule fires on a record rated that way, one rates it as high.
LEMMA RatedAgrees ==
  ASSUME NEW e \in EventRecord, RatedAs(e.type, e.phase, e.sev), Check(e) # {}
  PROVE  \E a \in Check(e) : a.sev >= e.sev
<1>0. e.sev \in 0 .. 4 /\ e.type \in EventTypes
  BY DEF EventRecord, Severities, SEV_INFO, SEV_CRITICAL
<1>1. CASE e.type \in {"exec", "file_open", "dns_lookup"}
  <2>1. e.sev = 0
    BY <1>1 DEF RatedAs, SEV_INFO
  <2>2. \A a \in Check(e) : a.sev \in Nat
    BY <1>1
    DEF Check, checkExec, checkFileRead, checkDns, Alert, SEV_HIGH, SEV_CRITICAL
  <2> QED
    BY <2>1, <2>2
<1>2. CASE e.type = "net_connect"
  BY <1>2
  DEF RatedAs, Check, checkNet, RegistryNet, UnknownNet, CompilerPhase, Alert, SEV_INFO,
      SEV_LOW, SEV_MEDIUM, SEV_HIGH, SEV_CRITICAL
<1>3. CASE e.type = "file_write"
  BY <1>3
  DEF RatedAs, Check, checkFileWrite, WriteAlert, Alert, SEV_LOW, SEV_MEDIUM, SEV_HIGH,
      PHASE_COMPILE, PHASE_BUILD, PHASE_INSTALL, PHASE_POSTINST
<1>4. CASE e.type = "chmod"
  BY <1>0, <1>4 DEF Check, checkChmod, Alert, SEV_CRITICAL
<1>5. CASE e.type = "memfd_create"
  BY <1>5 DEF RatedAs, Check, checkMemfd, Alert, SEV_HIGH
<1>6. CASE e.type \in {"execveat_anon", "bpf_load"}
  BY <1>0, <1>6 DEF Check, checkExecveat, checkBpfLoad, Alert, SEV_CRITICAL
<1> QED
  BY <1>0, <1>1, <1>2, <1>3, <1>4, <1>5, <1>6 DEF EventTypes

\* What the kernel program rates MEDIUM or above raises an alert, except a
\* write outside the paths the rule engine knows.
LEMMA RatedReported ==
  ASSUME NEW e \in EventRecord, RatedAs(e.type, e.phase, e.sev), Check(e) = {},
         e.sev >= SEV_MEDIUM
  PROVE  e.type = "file_write" /\ \A path \in e.arg : ~isInstallPath(path)
<1>0. e.sev \in 0 .. 4 /\ e.type \in EventTypes
  BY DEF EventRecord, Severities, SEV_INFO, SEV_CRITICAL
<1>1. e.type \notin {"exec", "file_open", "dns_lookup"}
  BY DEF RatedAs, SEV_INFO, SEV_MEDIUM
<1>2. e.type # "net_connect"
  BY DEF RatedAs, Check, checkNet, RegistryNet, UnknownNet, CompilerPhase, SEV_INFO,
         SEV_MEDIUM, SEV_CRITICAL
<1>3. e.type \notin {"chmod", "memfd_create", "execveat_anon", "bpf_load"}
  BY DEF Check, checkChmod, checkMemfd, checkExecveat, checkBpfLoad
<1>4. e.type = "file_write"
  BY <1>0, <1>1, <1>2, <1>3 DEF EventTypes
<1>5. e.phase # PHASE_INSTALL
  BY <1>4 DEF RatedAs, SEV_LOW, SEV_MEDIUM, PHASE_COMPILE, PHASE_BUILD, PHASE_INSTALL
<1>6. \A path \in e.arg : ~isInstallPath(path)
  BY <1>4, <1>5 DEF Check, checkFileWrite
<1> QED
  BY <1>4, <1>6

\* The two sides rate an event alike: no rule that fires reports below the
\* severity the kernel program put on the record, and only writes outside the
\* rule engine's install paths go unreported with a severity of MEDIUM or more.
THEOREM SeveritiesAgree == Spec => []SeverityAgreement
<1>1. Init => RingRated
  BY DEF Init, RingRated
<1>2. TypeOK /\ RingRated /\ [Next]_vars => RingRated'
  BY RatedStep
<1>3. TypeOK /\ RingRated => SeverityAgreement
  BY RatedAgrees, RatedReported DEF TypeOK, RingRated, SeverityAgreement, Pending
<1> QED
  BY <1>1, <1>2, <1>3, TypeCorrect, PTL DEF Spec

\* phase_from_comm puts compilers and linkers into phases of their own.
LEMMA CompilerPhases ==
  ASSUME NEW c \in Compilers \cup Linkers
  PROVE  phase_from_comm(c) \in {PHASE_COMPILE, PHASE_LINK}
<1>1. c \notin PackageManagers \cup BuildTools \cup PostinstScripts
  BY DEF Compilers, Linkers, PackageManagers, BuildTools, PostinstScripts
<1>2. ~(c \in Compilers /\ c \in Linkers)
  BY DEF Compilers, Linkers
<1>3. /\ c \in Compilers => phase_from_comm(c) = PHASE_COMPILE
      /\ c \in Linkers => phase_from_comm(c) = PHASE_LINK
  BY <1>1, <1>2, Zenon DEF phase_from_comm
<1> QED
  BY <1>3

\* Whatever tool a compiler or a linker runs under and whatever the policy
\* file allows, its connections and name lookups are reported as CRITICAL:
\* the record carries the compiler's own phase, and checkNet looks at that
\* phase before it consults the policy.
THEOREM CompilerNetworkCritical == Spec => []CompilerNetworkIsCritical
<1>1. TypeOK /\ ChainsAreClassified => CompilerNetworkIsCritical
  <2> SUFFICES ASSUME TypeOK, ChainsAreClassified, NEW i \in DOMAIN events,
                      events[i].type \in {"net_connect", "dns_lookup"},
                      events[i].comm \in Compilers \cup Linkers
               PROVE  \E a \in Check(events[i]) : a.sev = SEV_CRITICAL
    BY DEF CompilerNetworkIsCritical, Pending
  <2>1. phase_from_comm(events[i].comm) \in {PHASE_COMPILE, PHASE_LINK}
    BY CompilerPhases
  <2>2. CompilerPhase(events[i])
    BY <2>1 DEF ChainsAreClassified, Classified, IsTool, CompilerPhase, PHASE_COMPILE,
                PHASE_LINK, PHASE_UNKNOWN
  <2>3. CASE events[i].type = "net_connect"
    <3>1. Check(events[i]) = checkNet(events[i])
      BY <2>3, Dispatch
    <3>2. Alert("compiler-network", SEV_CRITICAL) \in checkNet(events[i])
      BY <2>2 DEF checkNet
    <3>3. Alert("compiler-network", SEV_CRITICAL).sev = SEV_CRITICAL
      BY DEF Alert
    <3> QED
      BY <3>1, <3>2, <3>3
  <2>4. CASE events[i].type = "dns_lookup"
    <3>1. Check(events[i]) = checkDns(events[i])
      BY <2>4, Dispatch
    <3>2. Alert("compiler-dns-lookup", SEV_CRITICAL) \in checkDns(events[i])
      BY <2>2 DEF checkDns
    <3>3. Alert("compiler-dns-lookup", SEV_CRITICAL).sev = SEV_CRITICAL
      BY DEF Alert
    <3> QED
      BY <3>1, <3>2, <3>3
  <2> QED
    BY <2>3, <2>4
<1> QED
  BY <1>1, TypeCorrect, ChainsClassified, PTL

===============================================================================
