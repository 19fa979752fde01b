------------------------------- MODULE Detector -------------------------------
(***************************************************************************)
(* The rule engine of internal/detector/detector.go: Check maps an event   *)
(* to the alerts it raises.  An event is a record as BpfTracker submits    *)
(* it.  No rule fires twice for one event, so the alerts are a set; an     *)
(* alert is its rule and severity (descriptions are left out).             *)
(***************************************************************************)
EXTENDS ChainTypes, FiniteSets

CONSTANTS
  HasPolicy,    \* a policy file was loaded
  AllowedDests  \* destinations inside some registry CIDR

Alert(rule, sev) == [rule |-> rule, sev |-> sev]

IsAllowedIP(dest) == HasPolicy /\ dest \in AllowedDests

CompilerPhase(e) == e.phase \in {PHASE_COMPILE, PHASE_LINK}

checkExec(e) ==
  {a \in {Alert("exec-from-temp", SEV_HIGH)} : "TEMP_PATH" \in e.arg}
    \cup {a \in {Alert("shell-stdin-pipe", SEV_CRITICAL)} :
            {"IS_SHELL", "STDIN_PIPE"} \subseteq e.arg}
    \cup {a \in {Alert("ld-preload-injection", SEV_CRITICAL)} :
            "LD_PRELOAD" \in e.arg}
    \cup {a \in {Alert("ld-library-path-redirect", SEV_HIGH)} :
            "LD_LIBRARY_PATH" \in e.arg}
    \cup {a \in {Alert("credential-in-env", SEV_HIGH)} :
            e.arg \cap CredentialEnvKeys # {}}

\* A connection to a registry is expected while downloading or installing.
RegistryNet(e) ==
  IF e.phase \in {PHASE_DOWNLOAD, PHASE_INSTALL} THEN {}
  ELSE {Alert("unexpected-phase-network", SEV_LOW)}

UnknownNet(e) ==
  {Alert("unknown-network",
         IF e.phase \in {PHASE_POSTINST, PHASE_BUILD} THEN SEV_HIGH ELSE SEV_MEDIUM)}

\* MUTANT: the policy is consulted before the compiler rule.
checkNet_policyFirst(e) ==
  CASE \E dest \in e.arg : IsAllowedIP(dest) -> RegistryNet(e)
    [] CompilerPhase(e) -> {Alert("compiler-network", SEV_CRITICAL)}
    [] OTHER -> UnknownNet(e)

checkNet(e) ==
  IF CompilerPhase(e) THEN {Alert("compiler-network", SEV_CRITICAL)}
  ELSE IF \E dest \in e.arg : IsAllowedIP(dest) THEN RegistryNet(e)
  ELSE UnknownNet(e)

checkFileRead(e) ==
  {a \in {Alert("sensitive-file-read",
                IF CompilerPhase(e) THEN SEV_CRITICAL ELSE SEV_HIGH)} :
     \E path \in e.arg : isSensitivePath(path)}

\* MUTANT: compilers are left out of the build group.
WriteAlert_buildOnly(e) ==
  CASE e.phase = PHASE_BUILD ->
         Alert("build-writes-system-path", SEV_HIGH)
    [] e.phase = PHASE_POSTINST ->
         Alert("postinst-writes-system-path", SEV_HIGH)
    [] OTHER ->
         Alert("unexpected-install-write", SEV_MEDIUM)

WriteAlert(e) ==
  CASE e.phase \in {PHASE_COMPILE, PHASE_BUILD} ->
         Alert("build-writes-system-path", SEV_HIGH)
    [] e.phase = PHASE_POSTINST ->
         Alert("postinst-writes-system-path", SEV_HIGH)
    [] OTHER ->
         Alert("unexpected-install-write", SEV_MEDIUM)

checkFileWrite(e) ==
  {a \in {WriteAlert(e)} : /\ \E path \in e.arg : isInstallPath(path)
                           /\ e.phase # PHASE_INSTALL}

checkMemfd(e) == {Alert("memfd-create", SEV_HIGH)}

checkExecveat(e) == {Alert("execveat-anon", SEV_CRITICAL)}

checkChmod(e) ==
  {IF e.arg \cap {"suid", "sgid"} # {} THEN Alert("chmod-suid-sgid", SEV_CRITICAL)
   ELSE Alert("chmod-exec-bit", e.sev)}

checkDns(e) ==
  {a \in {Alert("compiler-dns-lookup", SEV_CRITICAL)} : CompilerPhase(e)}

checkBpfLoad(e) == {Alert("bpf-prog-load", SEV_CRITICAL)}

Check(e) ==
  CASE e.type = "exec"          -> checkExec(e)
    [] e.type = "net_connect"   -> checkNet(e)
    [] e.type = "file_open"     -> checkFileRead(e)
    [] e.type = "file_write"    -> checkFileWrite(e)
    [] e.type = "memfd_create"  -> checkMemfd(e)
    [] e.type = "execveat_anon" -> checkExecveat(e)
    [] e.type = "chmod"         -> checkChmod(e)
    [] e.type = "dns_lookup"    -> checkDns(e)
    [] e.type = "bpf_load"      -> checkBpfLoad(e)

===============================================================================
