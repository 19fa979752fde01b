----------------------------- MODULE Dedup_proofs -----------------------------
(***************************************************************************)
(* Dedup implements AlertLimiter, for every set of rules, root pids and    *)
(* severities, every TTL and every run of the clock.                       *)
(***************************************************************************)
EXTENDS Dedup, TLAPS

USE TTLAssumption

\* The keys of alerts.
LEMMA KeyType ==
  ASSUME NEW a \in AlertRec
  PROVE  Key(a) \in Rule \X RootPid
  BY DEF AlertRec, Key

\* What Filter leaves in the table: every entry is fresh or brand new.
LEMMA SeenAfterFacts ==
  ASSUME NEW alerts \in Batches, alerts # {}
  PROVE  LET new == SeenAfter(alerts) IN
         /\ \A k : k \in DOMAIN new <=> Fresh(k) \/ \E a \in alerts : Key(a) = k
         /\ \A k \in DOMAIN new : new[k] = IF Fresh(k) THEN seen[k] ELSE now
  BY DEF SeenAfter, Fresh

\* Every time in the table of the deduplicator lies in the past.
THEOREM DedupTypeCorrect == DSpec => []DTypeOK
<1>1. DInit => DTypeOK
  BY DEF DInit, DTypeOK
<1>2. DTypeOK /\ [DNext]_dvars => DTypeOK'
  <2> SUFFICES ASSUME DTypeOK, [DNext]_dvars PROVE DTypeOK'
    OBVIOUS
  <2>1. ASSUME NEW alerts \in Batches, Filter(alerts) PROVE DTypeOK'
    <3>1. alerts \subseteq AlertRec
      BY DEF Batches
    <3>2. out' \subseteq offered' /\ offered' \subseteq AlertRec
      BY <2>1, <3>1 DEF Filter, Surviving
    <3>3. CASE alerts = {}
      BY <2>1, <3>2, <3>3 DEF Filter, SeenAfter, DTypeOK
    <3>4. CASE alerts # {}
      <4>1. /\ \A k : k \in DOMAIN seen' <=> Fresh(k) \/ \E a \in alerts : Key(a) = k
            /\ \A k \in DOMAIN seen' : seen'[k] = IF Fresh(k) THEN seen[k] ELSE now
        BY <2>1, <3>4, SeenAfterFacts DEF Filter
      <4>2. DOMAIN seen' \subseteq Rule \X RootPid
        BY <3>1, <4>1, KeyType DEF Fresh, DTypeOK
      <4>3. \A k \in DOMAIN seen' : seen'[k] \in 0 .. now
        BY <4>1 DEF Fresh, DTypeOK
      <4> QED
        BY <2>1, <3>2, <4>2, <4>3 DEF Filter, DTypeOK
    <3> QED
      BY <3>3, <3>4
  <2>2. CASE Tick
    BY <2>2 DEF Tick, DTypeOK
  <2>3. CASE UNCHANGED dvars
    BY <2>3 DEF dvars, DTypeOK
  <2> QED
    BY <2>1, <2>2, <2>3 DEF DNext
<1> QED
  BY <1>1, <1>2, PTL DEF DSpec

-------------------------------------------------------------------------------

\* A key is silent exactly while its entry is fresh.
LEMMA QuietFacts ==
  ASSUME DTypeOK, NEW k \in Rule \X RootPid
  PROVE  /\ Quiet[k] \in Nat
         /\ Fresh(k) => Quiet[k] = TTL - (now - seen[k]) /\ Quiet[k] > 0
         /\ ~Fresh(k) => Quiet[k] = 0
  BY DEF Quiet, Fresh, DTypeOK

\* A call of Filter is an offer to the limiter.
LEMMA FilterOffers ==
  ASSUME DTypeOK, DTypeOK', NEW alerts \in Batches, Filter(alerts)
  PROVE  Limiter!LOffer(alerts)
<1>1. alerts \subseteq AlertRec /\ \A a \in alerts : Key(a) \in Rule \X RootPid
  BY KeyType DEF Batches
<1>2. now' = now
  BY DEF Filter
<1>3. out' = {a \in alerts : Quiet[Limiter!Key(a)] = 0}
  <2>1. \A a \in alerts : Limiter!Key(a) = Key(a)
    BY DEF Limiter!Key, Key
  <2>2. \A a \in alerts : Fresh(Key(a)) <=> Quiet[Key(a)] # 0
    BY <1>1, QuietFacts
  <2> QED
    BY <2>1, <2>2 DEF Filter, Surviving
<1>4. ASSUME NEW k \in Rule \X RootPid
      PROVE  Quiet'[k] = IF Quiet[k] = 0 /\ \E a \in alerts : Limiter!Key(a) = k
                         THEN TTL ELSE Quiet[k]
  <2>1. \A a \in alerts : Limiter!Key(a) = Key(a)
    BY DEF Limiter!Key, Key
  <2>2. Quiet'[k] = IF k \in DOMAIN seen' /\ now - seen'[k] < TTL
                    THEN TTL - (now - seen'[k]) ELSE 0
    BY <1>2 DEF Quiet, Fresh
  <2>3. CASE alerts = {}
    BY <2>2, <2>3 DEF Filter, SeenAfter, Quiet, Fresh
  <2>4. CASE alerts # {}
    <3>1. /\ k \in DOMAIN seen' <=> Fresh(k) \/ \E a \in alerts : Key(a) = k
          /\ k \in DOMAIN seen' => seen'[k] = IF Fresh(k) THEN seen[k] ELSE now
      BY <2>4, SeenAfterFacts DEF Filter
    <3>2. CASE Fresh(k)
      BY <2>2, <3>1, <3>2, QuietFacts DEF Fresh
    <3>3. CASE ~Fresh(k)
      BY <2>1, <2>2, <3>1, <3>3, QuietFacts DEF DTypeOK
    <3> QED
      BY <3>2, <3>3
  <2> QED
    BY <2>3, <2>4
<1>5. Quiet' = [k \in Rule \X RootPid |->
                  IF Quiet[k] = 0 /\ \E a \in alerts : Limiter!Key(a) = k
                  THEN TTL ELSE Quiet[k]]
  BY <1>4 DEF Quiet
<1> QED
  BY <1>3, <1>5 DEF Filter, Limiter!LOffer, Limiter!AllKeys

\* A tick of the clock is a tick of the limiter.
LEMMA TickTicks ==
  ASSUME DTypeOK, Tick
  PROVE  Limiter!LTick
<1>1. ASSUME NEW k \in Rule \X RootPid
      PROVE  Quiet'[k] = IF Quiet[k] > 0 THEN Quiet[k] - 1 ELSE 0
  <2>0. now' = now + 1 /\ seen' = seen
    BY DEF Tick
  <2>1. Quiet'[k] = IF k \in DOMAIN seen' /\ now' - seen'[k] < TTL
                    THEN TTL - (now' - seen'[k]) ELSE 0
    BY DEF Quiet, Fresh
  <2>2. CASE Fresh(k)
    BY <2>0, <2>1, <2>2, QuietFacts DEF Fresh, DTypeOK
  <2>3. CASE ~Fresh(k)
    BY <2>0, <2>1, <2>3, QuietFacts DEF Fresh, DTypeOK
  <2> QED
    BY <2>2, <2>3
<1>2. Quiet' = [k \in Rule \X RootPid |-> IF Quiet[k] > 0 THEN Quiet[k] - 1 ELSE 0]
  BY <1>1 DEF Quiet
<1> QED
  BY <1>2 DEF Tick, Limiter!LTick, Limiter!AllKeys

\* The deduplicator is an alert limiter: a key it let through is silent for
\* exactly TTL, repeats do not prolong the silence, eviction is invisible.
THEOREM DedupImplementsLimiter == DSpec => ImplementsLimiter
<1>1. DInit => Limiter!LInit
  BY DEF DInit, Limiter!LInit, Limiter!AllKeys, Quiet, Fresh
<1>2. DTypeOK /\ DTypeOK' /\ [DNext]_dvars => [Limiter!LNext]_<<Quiet, offered, out>>
  <2> SUFFICES ASSUME DTypeOK, DTypeOK', [DNext]_dvars
               PROVE  [Limiter!LNext]_<<Quiet, offered, out>>
    OBVIOUS
  <2>1. ASSUME NEW alerts \in Batches, Filter(alerts)
        PROVE  Limiter!LNext
    <3>1. alerts \in Limiter!Batches
      BY DEF Batches, Limiter!Batches, AlertRec, Limiter!AlertRec, Limiter!Key
    <3> QED
      BY <2>1, <3>1, FilterOffers DEF Limiter!LNext
  <2>2. CASE Tick
    BY <2>2, TickTicks DEF Limiter!LNext
  <2>3. CASE UNCHANGED dvars
    BY <2>3 DEF dvars, Quiet, Fresh
  <2> QED
    BY <2>1, <2>2, <2>3 DEF DNext
<1> QED
  BY <1>1, <1>2, DedupTypeCorrect, PTL DEF DSpec, ImplementsLimiter, Limiter!LSpec

===============================================================================
