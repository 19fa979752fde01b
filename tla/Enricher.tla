------------------------------- MODULE Enricher -------------------------------
(***************************************************************************)
(* internal/enricher: the container a process runs in, from the two files  *)
(* /proc/<pid>/cgroup and /proc/<pid>/environ.  A cgroup line is the regular *)
(* expression it matches first (one of Runtimes, "hex" for a bare 64-digit *)
(* segment, or "none"), the id captured, and the hints found in it.  The   *)
(* environment is the sequence of its entries.  An unreadable file reads   *)
(* as an empty one.                                                        *)
(***************************************************************************)
EXTENDS Naturals

Runtimes == {"docker", "containerd", "podman", "cri-o"}

\* ContainerInfo{}: a host process, or one that is gone.
Host == [id |-> "", runtime |-> "", pod |-> "", ns |-> ""]

First(S) == CHOOSE i \in S : \A j \in S : i <= j
Last(S)  == CHOOSE i \in S : \A j \in S : i >= j

Matching(lines, res) == {i \in DOMAIN lines : lines[i].re \in res}

\* A line that names a runtime wins over a bare id on an earlier line, which
\* counts below kubepods only.
parseCgroup(lines) ==
  LET named == Matching(lines, Runtimes)
      bare  == Matching(lines, {"hex"})
  IN CASE named # {} ->
            [Host EXCEPT !.id = lines[First(named)].id,
                         !.runtime = lines[First(named)].re]
       [] named = {} /\ bare # {} /\ (\E i \in DOMAIN lines : lines[i].kube) ->
            [Host EXCEPT !.id = lines[First(bare)].id,
                         !.runtime = IF lines[First(bare)].crio THEN "cri-o"
                                     ELSE "containerd"]
       [] OTHER -> Host

\* The last HOSTNAME and the last POD_NAMESPACE count.
Value(environ, key) ==
  LET found == {i \in DOMAIN environ : environ[i].key = key}
  IN IF found = {} THEN "" ELSE environ[Last(found)].value

parseEnviron(info, environ) ==
  [info EXCEPT !.pod = Value(environ, "HOSTNAME"),
               !.ns  = Value(environ, "POD_NAMESPACE")]

\* Host processes have a HOSTNAME as well: nothing is read for them.
Enrich(cgroup, environ) ==
  IF parseCgroup(cgroup) = Host THEN Host
  ELSE parseEnviron(parseCgroup(cgroup), environ)

===============================================================================
