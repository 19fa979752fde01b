------------------------------- MODULE Baseline -------------------------------
(***************************************************************************)
(* internal/baseline: the keys a learn run collects and an enforce run     *)
(* compares with, and the profile file between the two.  path is the       *)
(* event's PathStr.  Names and paths are raw bytes: they may contain the   *)
(* separator of makeKey, and need not be UTF-8.                            *)
(***************************************************************************)
EXTENDS Detector, Sequences

Dir(path) ==
  CASE path \in {"/home/u/.ssh/id_rsa", "/home/u/.ssh/config"} -> "/home/u/.ssh"
    [] path \in {"/usr/bin/x", "/usr/bin/y"}                   -> "/usr/bin"
    [] path \in {"/tmp/x", "/tmp/c|e"}                         -> "/tmp"
    [] path = "e|/tmp/c"                                       -> "e|/tmp"
    [] OTHER                                                   -> "."

NoKey == <<>>

\* A string as its parts between the separators '|'.
Parts(s) ==
  CASE s = "c|e"    -> <<"c", "e">>
    [] s = "e|/tmp" -> <<"e", "/tmp">>
    [] OTHER        -> <<s>>

\* The string fmt.Sprintf joins with '|', read back as its parts: the kind and
\* the phase, the parts that come from raw bytes, and what is printed from a
\* number (address and port, mode).  Only the middle can contain a '|', so two
\* of these are equal exactly if the strings are.
Joined(kind, e, names, printed) == <<kind, e.phase, names, printed>>

\* MUTANT: the key names the process.
makeKey_pid(e) ==
  IF e.type = "net_connect" THEN Joined("net", e, Parts(e.comm), <<e.pid, e.arg>>) ELSE NoKey

makeKey(e) ==
  CASE e.type = "net_connect" -> Joined("net", e, Parts(e.comm), e.arg)
    [] e.type \in {"file_open", "file_write"} ->
         Joined("file", e, Parts(e.comm) \o Parts(Dir(e.path)), {})
    [] e.type = "exec"        -> Joined("exec", e, Parts(e.comm) \o Parts(Dir(e.path)), {})
    [] e.type = "chmod"       -> Joined("chmod", e, Parts(e.comm), e.arg \ {e.path})
    [] e.type = "dns_lookup"  -> Joined("dns", e, Parts(e.comm) \o Parts(e.path), {})
    [] OTHER                  -> NoKey

Keys(E) == {makeKey(e) : e \in E} \ {NoKey}

\* encoding/json writes U+FFFD for every byte that is not UTF-8.  "mak<C3>" is
\* a name that was cut in the middle of a character.
Coerce(s) == IF s = "mak<C3>" THEN "mak<FFFD>" ELSE s

\* A key as it is found in the file.  '|' is one byte, so that the parts are
\* coerced one by one.
OnDisk(k) == <<k[1], k[2], [i \in DOMAIN k[3] |-> Coerce(k[3][i])], k[4]>>

\* A file: not there, cut short, or complete, with the run that wrote it.
NoFile     == [state |-> "absent", run |-> 0]
CutShort(run) == [state |-> "partial", run |-> run]

\* os.WriteFile truncates, then writes.  It fails before, or leaves a part of
\* the content behind; so does a process that is killed in the middle of it.
WriteFile(old, run, new) == {old, CutShort(run), new}

\* What Learner.Save marshals.  of is a ghost: the events the keys stand for.
Profile(run, E) ==
  [state |-> "whole", run |-> run, seen |-> {OnDisk(k) : k \in Keys(E)}, of |-> E]

\* MUTANT: a profile that does not parse is an empty one.
LoadProfile_lenient(file) ==
  IF file.state = "partial" THEN {Profile(file.run, {})}
  ELSE {f \in {file} : f.state = "whole"}

\* The profile, or nothing: a missing file and one that does not parse are
\* errors.  What is in a complete file is valid UTF-8 and parsed as it is.
LoadProfile(file) == {f \in {file} : f.state = "whole"}

\* Enforcer.Check.
Deviation(e, profile) ==
  {a \in {Alert("baseline-deviation", SEV_MEDIUM)} :
     makeKey(e) # NoKey /\ makeKey(e) \notin profile.seen}

===============================================================================
