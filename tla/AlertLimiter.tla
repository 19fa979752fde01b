----------------------------- MODULE AlertLimiter -----------------------------
(***************************************************************************)
(* What the deduplicator promises, without its table of times: after an    *)
(* alert is let through, its key is silent for TTL ticks of the clock;     *)
(* silence is not prolonged by the alerts it swallows, and no key silences *)
(* another.                                                                *)
(***************************************************************************)
EXTENDS Integers

CONSTANTS
  Rule,     \* rule names
  RootPid,  \* root pids
  Sev,      \* severities
  TTL       \* length of the silence

AlertRec == [rule : Rule, root_pid : RootPid, sev : Sev]
AllKeys  == Rule \X RootPid
Key(a)   == <<a.rule, a.root_pid>>

\* The alerts of one event: no two of them have the same rule.
Batches == {B \in SUBSET AlertRec : \A a, b \in B : Key(a) = Key(b) => a = b}

VARIABLES
  quiet,    \* quiet[k]: ticks of silence left for key k
  offered,  \* the alerts given to the latest call
  out       \* the alerts it let through

LInit ==
  /\ quiet = [k \in AllKeys |-> 0]
  /\ offered = {}
  /\ out = {}

LOffer(alerts) ==
  /\ offered' = alerts
  /\ out' = {a \in alerts : quiet[Key(a)] = 0}
  /\ quiet' = [k \in AllKeys |->
                 IF quiet[k] = 0 /\ \E a \in alerts : Key(a) = k
                 THEN TTL ELSE quiet[k]]

LTick ==
  /\ quiet' = [k \in AllKeys |-> IF quiet[k] > 0 THEN quiet[k] - 1 ELSE 0]
  /\ UNCHANGED <<offered, out>>

LNext == (\E alerts \in Batches : LOffer(alerts)) \/ LTick

LSpec == LInit /\ [][LNext]_<<quiet, offered, out>>

===============================================================================
