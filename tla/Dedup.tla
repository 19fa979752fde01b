-------------------------------- MODULE Dedup --------------------------------
(***************************************************************************)
(* The deduplicator of internal/detector/dedup.go: a table of the time at  *)
(* which each key, rule and root_pid, was last let through.  Filter runs   *)
(* under the deduplicator's mutex, so one call is one step; time.Now() is  *)
(* Go's monotonic clock.                                                   *)
(***************************************************************************)
EXTENDS Integers

CONSTANTS Rule, RootPid, Sev, TTL,
          MaxTime    \* bound on the clock

ASSUME TTLAssumption == TTL \in Nat \ {0}

AlertRec == [rule : Rule, root_pid : RootPid, sev : Sev]

Key(a) == <<a.rule, a.root_pid>>

\* The alerts of one event: no two of them have the same rule.
Batches == {B \in SUBSET AlertRec : \A a, b \in B : a.rule = b.rule => a = b}

VARIABLES
  now,      \* the clock
  seen,     \* key -> when it was last let through
  offered,  \* the argument of the latest call of Filter
  out       \* what it returned

dvars == <<now, seen, offered, out>>

DInit ==
  /\ now = 0
  /\ seen = [k \in {} |-> 0]
  /\ offered = {}
  /\ out = {}

\* MUTANT: a repeat at exactly TTL is still suppressed.
Fresh_offByOne(k) == k \in DOMAIN seen /\ now - seen[k] <= TTL

Fresh(k) == k \in DOMAIN seen /\ now - seen[k] < TTL

Surviving(alerts) == {a \in alerts : ~Fresh(Key(a))}

\* MUTANT: the table stores the end of the silence instead of its start.
SeenAfter_deadline(alerts) ==
  IF alerts = {} THEN seen
  ELSE [k \in {k \in DOMAIN seen : Fresh(k)} \cup {Key(a) : a \in alerts} |->
          IF Fresh(k) THEN seen[k] ELSE now + TTL]

\* Stale entries are evicted, but not by a call without alerts: that returns
\* at once.  An entry that suppresses an alert keeps its time.
SeenAfter(alerts) ==
  IF alerts = {} THEN seen
  ELSE [k \in {k \in DOMAIN seen : Fresh(k)} \cup {Key(a) : a \in alerts} |->
          IF Fresh(k) THEN seen[k] ELSE now]

Filter(alerts) ==
  /\ offered' = alerts
  /\ out' = Surviving(alerts)
  /\ seen' = SeenAfter(alerts)
  /\ UNCHANGED now

Tick ==
  /\ now < MaxTime
  /\ now' = now + 1
  /\ UNCHANGED <<seen, offered, out>>

DNext == (\E alerts \in Batches : Filter(alerts)) \/ Tick

DSpec == DInit /\ [][DNext]_dvars

-------------------------------------------------------------------------------

\* The type invariant: every time in the table lies in the past, and Filter
\* returns some of the alerts it was given.
DTypeOK ==
  /\ now \in Nat
  /\ DOMAIN seen \subseteq Rule \X RootPid
  /\ \A k \in DOMAIN seen : seen[k] \in 0 .. now
  /\ out \subseteq offered /\ offered \subseteq AlertRec

\* The silence the table still holds for a key.
Quiet == [k \in Rule \X RootPid |-> IF Fresh(k) THEN TTL - (now - seen[k]) ELSE 0]

Limiter == INSTANCE AlertLimiter WITH quiet <- Quiet

\* The deduplicator implements the limiter: "fires once per package manager
\* invocation per TTL period", eviction and all.
ImplementsLimiter == Limiter!LSpec

===============================================================================
