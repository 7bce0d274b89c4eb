---------------------------- MODULE AutonomyProofs ---------------------------
(***************************************************************************)
(* What Autonomy promises for any number of supervisors, observatories,    *)
(* bounds and policies: alerts are posted once an episode, a remedy is     *)
(* submitted once a look, and every probe sent is judged once.             *)
(***************************************************************************)
EXTENDS Autonomy, TLAPS

-----------------------------------------------------------------------------
(* Alerts: only a look at the health and a restart touch what is active.   *)

AlertInv ==
  /\ DOMAIN active = Supervisor /\ DOMAIN told = Supervisor
  /\ repeated \in [Supervisor -> BOOLEAN]
  /\ AlertsArePostedOnce

LEMMA AlertSteps ==
  ASSUME [Next]_vars
  PROVE  \/ UNCHANGED <<active, told, repeated>>
         \/ \E p \in Supervisor :
              \/ \E written \in BOOLEAN : RecordHealth(p, HealthOf[site], written)
              \/ Restart(p)
  <1>1. CASE UNCHANGED vars
    BY <1>1 DEF vars, alerts
  <1>2. CASE \/ LeaseChanges \/ StopsChange \/ SiteChanges
             \/ MatchComes \/ MatchesGo \/ WindowMoves
    BY <1>2 DEF LeaseChanges, StopsChange, SiteChanges, MatchComes, MatchesGo, WindowMoves,
                alerts
  <1>3. ASSUME NEW p \in Supervisor, Tick(p)
        PROVE  \/ UNCHANGED <<active, told, repeated>>
               \/ \E written \in BOOLEAN : RecordHealth(p, HealthOf[site], written)
    <2>1. CASE Look(p)
      BY <2>1 DEF Look, alerts
    <2>2. CASE Recover(p) \/ Verify(p) \/ BeginFire(p) \/ Fire(p) \/ NothingToFire(p)
      BY <2>2 DEF Recover, Verify, BeginFire, Fire, NothingToFire, alerts
    <2> QED
      BY <1>3, <2>1, <2>2 DEF Tick
  <1>4. ASSUME NEW p \in Supervisor, TickRaises(p) \/ ProbeRipens(p)
        PROVE  UNCHANGED <<active, told, repeated>>
    BY <1>4 DEF TickRaises, ProbeRipens, alerts
  <1>5. ASSUME NEW p \in Supervisor, NEW l \in waiting[p], IntervalPasses(p, l)
        PROVE  UNCHANGED <<active, told, repeated>>
    BY <1>5 DEF IntervalPasses, alerts
  <1> QED
    BY <1>1, <1>2, <1>3, <1>4, <1>5 DEF Next

\* Of a set that has been told whole, only what is new is told.
LEMMA ToldAgain ==
  ASSUME NEW old, NEW now
  PROVE  /\ (old \cap now) \cup (now \ old) = now
         /\ old \cap (now \ old) = {}
  OBVIOUS

LEMMA AlertStepInv ==
  ASSUME AlertInv, [Next]_vars
  PROVE  AlertInv'
  <1>1. CASE UNCHANGED <<active, told, repeated>>
    BY <1>1 DEF AlertInv, AlertsArePostedOnce
  <1>2. ASSUME NEW p \in Supervisor, NEW written \in BOOLEAN,
               RecordHealth(p, HealthOf[site], written)
        PROVE  AlertInv'
    <2> DEFINE now == AlertCodes(HealthOf[site])
    <2>1. told[p] = active[p] /\ ~repeated[p]
      BY DEF AlertInv, AlertsArePostedOnce
    <2>2. active' = [active EXCEPT ![p] = now]
      BY <1>2 DEF RecordHealth
    <2>3. told' = [told EXCEPT ![p] = now]
      <3>1. told' = [told EXCEPT ![p] = (told[p] \cap now) \cup (now \ active[p])]
        BY <1>2 DEF RecordHealth, NewAlerts
      <3> QED
        BY <2>1, <3>1, ToldAgain
    <2>4. repeated' = [repeated EXCEPT ![p] = FALSE]
      <3>1. repeated' = [repeated EXCEPT ![p] =
                           repeated[p] \/ told[p] \cap (now \ active[p]) # {}]
        BY <1>2 DEF RecordHealth, NewAlerts
      <3>2. (repeated[p] \/ told[p] \cap (now \ active[p]) # {}) = FALSE
        BY <2>1, ToldAgain
      <3> QED
        BY <3>1, <3>2
    <2> HIDE DEF now
    <2>5. repeated' \in [Supervisor -> BOOLEAN] /\ \A q \in Supervisor : ~repeated'[q]
      BY <2>4, Zenon DEF AlertInv, AlertsArePostedOnce
    <2> QED
      BY <2>2, <2>3, <2>5 DEF AlertInv, AlertsArePostedOnce
  <1>3. ASSUME NEW p \in Supervisor, Restart(p)
        PROVE  AlertInv'
    <2>1. repeated' = [repeated EXCEPT ![p] = FALSE]
      BY <1>3 DEF Restart
    <2>2. repeated' \in [Supervisor -> BOOLEAN] /\ \A q \in Supervisor : ~repeated'[q]
      BY <2>1, Zenon DEF AlertInv, AlertsArePostedOnce
    <2> QED
      BY <1>3, <2>2 DEF Restart, AlertInv, AlertsArePostedOnce
  <1> QED
    BY <1>1, <1>2, <1>3, AlertSteps

\* Every active alert has been posted exactly once in its episode, for any number of
\* supervisors and any observatories (supervisor.py:251-262).
THEOREM AlertsOnce == Spec => []AlertsArePostedOnce
  <1>1. Init => AlertInv
    BY DEF Init, Each, AlertInv, AlertsArePostedOnce
  <1>2. AlertInv /\ [Next]_vars => AlertInv'
    BY AlertStepInv
  <1>3. AlertInv => AlertsArePostedOnce
    BY DEF AlertInv
  <1> QED
    BY <1>1, <1>2, <1>3, PTL DEF Spec

-----------------------------------------------------------------------------
(* Remedies: a tick that has a report has just reset them.                 *)

FreshReport ==
  \A p \in Supervisor : pc[p] = "recover" /\ report[p] # NoReport => remedies[p] = 0

RemedyInv ==
  /\ DOMAIN pc = Supervisor /\ DOMAIN report = Supervisor
  /\ remedies \in [Supervisor -> Nat]
  /\ OneRemedyPerLook
  /\ FreshReport

LEMMA RemedyStepInv ==
  ASSUME RemedyInv, [Next]_vars
  PROVE  RemedyInv'
  <1> USE DEF RemedyInv, OneRemedyPerLook, FreshReport
  <1>1. CASE UNCHANGED <<pc, report, remedies>>
    BY <1>1
  <1>2. ASSUME NEW p \in Supervisor, Look(p)
        PROVE  RemedyInv'
    <2>1. CASE LooksAtHealth(p)
      <3>1. remedies' = [remedies EXCEPT ![p] = 0]
        BY <1>2, <2>1 DEF Look
      <3>2. \/ Goto(p, "recover") /\ report' = [report EXCEPT ![p] = HealthOf[site]]
            \/ UNCHANGED <<pc, report>>
        BY <1>2, <2>1 DEF Look
      <3> QED
        BY <3>1, <3>2 DEF Goto
    <2>2. CASE ~LooksAtHealth(p)
      <3>1. UNCHANGED remedies
        BY <1>2, <2>2 DEF Look, alerts
      <3>2. \/ Goto(p, "recover") /\ report' = [report EXCEPT ![p] = NoReport]
            \/ UNCHANGED <<pc, report>>
        BY <1>2, <2>2 DEF Look
      <3> QED
        BY <3>1, <3>2 DEF Goto
    <2> QED
      BY <2>1, <2>2
  <1>3. ASSUME NEW p \in Supervisor, Recover(p)
        PROVE  RemedyInv'
    <2>1. /\ pc[p] = "recover"
          /\ pc' = [pc EXCEPT ![p] = "probe"]
          /\ report' = [report EXCEPT ![p] = NoReport]
      BY <1>3 DEF Recover, Goto
    <2>2. \/ UNCHANGED remedies
          \/ remedies[p] = 0 /\ remedies' = [remedies EXCEPT ![p] = 1]
      <3>1. CASE Remedies(p) = {}
        BY <1>3, <3>1 DEF Recover
      <3>2. CASE Remedies(p) # {}
        <4>1. remedies[p] = 0
          BY <2>1, <3>2 DEF Remedies
        <4>2. PICK o : remedies' = [remedies EXCEPT ![p] =
                                      IF o = "executed" /\ remedies[p] < 2
                                      THEN remedies[p] + 1 ELSE remedies[p]]
          BY <1>3, <3>2 DEF Recover
        <4>3. CASE o = "executed"
          <5>1. (IF o = "executed" /\ remedies[p] < 2 THEN remedies[p] + 1 ELSE remedies[p]) = 1
            BY <4>1, <4>3
          <5> QED
            BY <4>1, <4>2, <5>1
        <4>4. CASE o # "executed"
          <5>1. remedies' = [remedies EXCEPT ![p] = remedies[p]]
            BY <4>2, <4>4
          <5> QED
            BY <5>1
        <4> QED
          BY <4>3, <4>4
      <3> QED
        BY <3>1, <3>2
    <2> QED
      BY <2>1, <2>2
  <1>4. ASSUME NEW p \in Supervisor, Restart(p)
        PROVE  RemedyInv'
    BY <1>4 DEF Restart, Goto
  <1>5. ASSUME NEW p \in Supervisor,
               Verify(p) \/ BeginFire(p) \/ Fire(p) \/ NothingToFire(p)
        PROVE  RemedyInv'
    <2>1. /\ UNCHANGED <<report, remedies>>
          /\ UNCHANGED pc \/ \E l \in {"idle", "fire"} : pc' = [pc EXCEPT ![p] = l]
      BY <1>5 DEF Verify, BeginFire, Fire, NothingToFire, Goto, alerts
    <2> QED
      BY <2>1
  <1>6. ASSUME NEW p \in Supervisor, TickRaises(p)
        PROVE  RemedyInv'
    <2>1. /\ UNCHANGED remedies
          /\ pc' = [pc EXCEPT ![p] = "idle"]
          /\ report' = [report EXCEPT ![p] = NoReport]
      BY <1>6 DEF TickRaises, Goto, alerts
    <2> QED
      BY <2>1
  <1>7. CASE \/ LeaseChanges \/ StopsChange \/ SiteChanges
             \/ MatchComes \/ MatchesGo \/ WindowMoves
    BY <1>1, <1>7 DEF LeaseChanges, StopsChange, SiteChanges, MatchComes, MatchesGo,
                      WindowMoves, alerts
  <1>8. ASSUME NEW p \in Supervisor,
               ProbeRipens(p) \/ \E l \in waiting[p] : IntervalPasses(p, l)
        PROVE  RemedyInv'
    BY <1>1, <1>8 DEF ProbeRipens, IntervalPasses, alerts
  <1>9. CASE UNCHANGED vars
    BY <1>1, <1>9 DEF vars, alerts
  <1> QED
    BY <1>2, <1>3, <1>4, <1>5, <1>6, <1>7, <1>8, <1>9 DEF Next, Tick

\* A remedy is submitted at most once for each look at the health: a tick whose health was
\* not due has no report to act on (supervisor.py:192).
THEOREM RemedyOnce == Spec => []OneRemedyPerLook
  <1>1. Init => RemedyInv
    BY DEF Init, Each, RemedyInv, OneRemedyPerLook, FreshReport
  <1>2. RemedyInv /\ [Next]_vars => RemedyInv'
    BY RemedyStepInv
  <1>3. RemedyInv => OneRemedyPerLook
    BY DEF RemedyInv
  <1> QED
    BY <1>1, <1>2, <1>3, PTL DEF Spec

-----------------------------------------------------------------------------
(* Probes: one in flight at a time, and none is fired beside it.           *)

InFlight(p) == IF pending[p] # NoProbe /\ pending[p].outcome = "executed" THEN 1 ELSE 0

ProbeType ==
  /\ DOMAIN pc = Supervisor
  /\ matches \in Nat /\ faults \in Nat
  /\ baseline \in [Supervisor -> Nat]
  /\ pending \in [Supervisor -> Probe \cup {NoProbe}]
  /\ unjudged \in [Supervisor -> Nat]

OneInFlight == \A p \in Supervisor : pc[p] = "fire" => pending[p] = NoProbe

Accounted ==
  \A p \in Supervisor : InFlight(p) <= unjudged[p] /\ unjudged[p] <= InFlight(p) + faults

ProbeInv == ProbeType /\ OneInFlight /\ Accounted

\* A step that leaves the probes alone.
LEMMA ProbesApart ==
  ASSUME ProbeInv, UNCHANGED <<baseline, pending, unjudged>>, DOMAIN pc' = Supervisor,
         \A p \in Supervisor : pc'[p] = "fire" => pc[p] = "fire",
         matches' \in Nat, faults' \in Nat, faults <= faults'
  PROVE  ProbeInv'
  BY DEF ProbeInv, ProbeType, OneInFlight, Accounted, InFlight

LEMMA FaultsGrow ==
  ASSUME faults \in Nat, UNCHANGED faults \/ Fault \/ \E ok \in BOOLEAN : Succeeds(ok)
  PROVE  faults' \in Nat /\ faults <= faults'
  BY DEF Succeeds, Fault

\* People and the observatory.
LEMMA WorldProbeInv ==
  ASSUME ProbeInv,
         \/ LeaseChanges \/ StopsChange \/ SiteChanges
         \/ MatchComes \/ MatchesGo \/ WindowMoves
  PROVE  ProbeInv'
  <1>1. UNCHANGED <<pc, baseline, pending, unjudged, faults>> /\ matches' \in Nat
    BY DEF LeaseChanges, StopsChange, SiteChanges, MatchComes, MatchesGo, WindowMoves,
           probes, ProbeInv, ProbeType
  <1> QED
    BY <1>1, ProbesApart DEF ProbeInv, ProbeType

LEMMA QuietTickProbeInv ==
  ASSUME ProbeInv, NEW p \in Supervisor,
         \/ Look(p) \/ Recover(p) \/ NothingToFire(p)
         \/ \E l \in waiting[p] : IntervalPasses(p, l)
  PROVE  ProbeInv'
  <1>1. UNCHANGED <<baseline, pending, unjudged, matches>>
    BY DEF Look, Recover, NothingToFire, IntervalPasses, probes
  <1>2. UNCHANGED pc \/ \E l \in {"recover", "probe", "idle"} : pc' = [pc EXCEPT ![p] = l]
    BY DEF Look, Recover, NothingToFire, IntervalPasses, Goto
  <1>3. UNCHANGED faults \/ \E ok \in BOOLEAN : Succeeds(ok)
    <2>1. CASE Look(p)
      BY <2>1 DEF Look
    <2>2. CASE Recover(p)
      BY <2>2 DEF Recover
    <2>3. CASE NothingToFire(p) \/ \E l \in waiting[p] : IntervalPasses(p, l)
      BY <2>3 DEF NothingToFire, IntervalPasses
    <2> QED
      BY <2>1, <2>2, <2>3
  <1>4. faults' \in Nat /\ faults <= faults'
    BY <1>3, FaultsGrow DEF ProbeInv, ProbeType
  <1> QED
    BY <1>1, <1>2, <1>4, ProbesApart DEF ProbeInv, ProbeType

\* The verdict takes the probe out of flight and off the account.
LEMMA VerifyInv ==
  ASSUME ProbeInv, NEW p \in Supervisor, Verify(p)
  PROVE  ProbeInv'
  <1>1. /\ pending[p] # NoProbe
        /\ pending' = [pending EXCEPT ![p] = NoProbe]
        /\ unjudged' = [unjudged EXCEPT ![p] = IF pending[p].outcome = "executed"
                                              THEN unjudged[p] - 1 ELSE unjudged[p]]
        /\ UNCHANGED <<pc, matches, baseline, faults>>
    BY DEF Verify, DueToVerify
  <1>2. InFlight(p) <= unjudged[p] /\ unjudged[p] <= InFlight(p) + faults
    BY DEF ProbeInv, Accounted
  <1>3. unjudged' = [unjudged EXCEPT ![p] = unjudged[p] - InFlight(p)]
    <2>1. unjudged[p] \in Nat
      BY DEF ProbeInv, ProbeType
    <2>2. (IF pending[p].outcome = "executed" THEN unjudged[p] - 1 ELSE unjudged[p])
            = unjudged[p] - InFlight(p)
      BY <1>1, <2>1 DEF InFlight
    <2> QED
      BY <1>1, <2>2
  <1>4. InFlight(p) \in {0, 1}
    BY DEF InFlight
  <1>5. unjudged[p] - InFlight(p) \in 0..faults
    BY <1>2, <1>4 DEF ProbeInv, ProbeType
  <1>6. ProbeType' /\ OneInFlight'
    BY <1>1, <1>3, <1>5 DEF ProbeInv, ProbeType, OneInFlight
  <1>7. ASSUME NEW q \in Supervisor
        PROVE  InFlight(q)' <= unjudged'[q] /\ unjudged'[q] <= InFlight(q)' + faults'
    <2>1. CASE q = p
      <3>1. InFlight(q)' = 0 /\ unjudged'[q] \in 0..faults
        BY <1>1, <1>3, <1>5, <2>1 DEF InFlight, ProbeInv, ProbeType
      <3> QED
        BY <1>1, <3>1 DEF ProbeInv, ProbeType
    <2>2. CASE q # p
      BY <1>1, <1>3, <2>2 DEF ProbeInv, ProbeType, Accounted, InFlight
    <2> QED
      BY <2>1, <2>2
  <1> QED
    BY <1>6, <1>7 DEF ProbeInv, Accounted

LEMMA BeginFireInv ==
  ASSUME ProbeInv, NEW p \in Supervisor, BeginFire(p)
  PROVE  ProbeInv'
  <1>1. /\ pending[p] = NoProbe
        /\ pc' = [pc EXCEPT ![p] = "fire"]
        /\ baseline' = [baseline EXCEPT ![p] = MatchCount]
        /\ UNCHANGED <<matches, pending, unjudged, faults>>
    BY DEF BeginFire, DueToFire, Goto
  <1>2. MatchCount \in Nat
    BY DEF MatchCount, ProbeInv, ProbeType
  <1>3. ProbeType' /\ OneInFlight'
    BY <1>1, <1>2 DEF ProbeInv, ProbeType, OneInFlight
  <1>4. Accounted'
    BY <1>1 DEF ProbeInv, Accounted, InFlight
  <1> QED
    BY <1>3, <1>4 DEF ProbeInv

\* A probe that goes out is counted; it is in flight unless its evaluation failed.
LEMMA FireInv ==
  ASSUME ProbeInv, NEW p \in Supervisor, Fire(p)
  PROVE  ProbeInv'
  <1>1. /\ pc[p] = "fire"
        /\ pc' = [pc EXCEPT ![p] = "idle"]
        /\ baseline' = [baseline EXCEPT ![p] = 0]
        /\ UNCHANGED matches
    BY DEF Fire, Goto
  <1>2. pending[p] = NoProbe /\ unjudged[p] \in 0..faults /\ faults \in Nat
    BY <1>1 DEF ProbeInv, ProbeType, OneInFlight, Accounted, InFlight
  <1>3. PICK o \in Outcomes("fire_injection") :
          /\ Succeeds(o # "failed")
          /\ \/ o \in {"executed", "failed"} /\ Send(p)
             \/ o # "executed" /\ UNCHANGED unjudged
          /\ pending' = [pending EXCEPT ![p] =
                           IF o \in InFlightOutcomes
                           THEN [baseline |-> baseline[p], outcome |-> o, ripe |-> FALSE]
                           ELSE @]
    BY DEF Fire
  <1>4. o \in {"denied", "executed", "failed", "shadow"}
    BY <1>3 DEF Outcomes
  <1>5. faults' \in Nat /\ faults <= faults' /\ (o = "failed" => faults' = faults + 1)
    BY <1>2, <1>3 DEF Succeeds, Fault
  <1> DEFINE probe == [baseline |-> baseline[p], outcome |-> o, ripe |-> FALSE]
  <1>6. /\ unjudged' \in [Supervisor -> Nat]
        /\ \A q \in Supervisor \ {p} : unjudged'[q] = unjudged[q]
        /\ o = "executed" => unjudged'[p] = unjudged[p] + 1
        /\ o = "failed" => unjudged'[p] \in {unjudged[p], unjudged[p] + 1}
        /\ o \in {"denied", "shadow"} => unjudged'[p] = unjudged[p]
    BY <1>3 DEF Send, ProbeInv, ProbeType
  <1>7. o \in {"executed", "shadow"} => probe \in Probe /\ probe # NoProbe /\ probe.outcome = o
    <2>1. baseline[p] \in Nat
      BY DEF ProbeInv, ProbeType
    <2>2. o \in {"executed", "shadow"} => probe \in Probe
      BY <2>1 DEF Probe
    <2>3. NoProbe \notin Probe
      BY AutonomyAssumption
    <2> QED
      BY <2>2, <2>3
  <1>8. /\ pending' \in [Supervisor -> Probe \cup {NoProbe}]
        /\ \A q \in Supervisor \ {p} : pending'[q] = pending[q]
        /\ pending'[p] = IF o \in {"executed", "shadow"} THEN probe ELSE NoProbe
    BY <1>2, <1>3, <1>7 DEF InFlightOutcomes, ProbeInv, ProbeType
  <1>9. ProbeType' /\ OneInFlight'
    BY <1>1, <1>5, <1>6, <1>8 DEF ProbeInv, ProbeType, OneInFlight
  <1>10. InFlight(p)' = IF o = "executed" THEN 1 ELSE 0
    BY <1>4, <1>7, <1>8 DEF InFlight
  <1>11. InFlight(p)' <= unjudged'[p] /\ unjudged'[p] <= InFlight(p)' + faults'
    BY <1>2, <1>4, <1>5, <1>6, <1>10
  <1>12. ASSUME NEW q \in Supervisor \ {p}
         PROVE  InFlight(q)' <= unjudged'[q] /\ unjudged'[q] <= InFlight(q)' + faults'
    <2>1. InFlight(q)' = InFlight(q) /\ unjudged'[q] = unjudged[q] /\ InFlight(q) \in {0, 1}
      BY <1>6, <1>8 DEF InFlight
    <2> QED
      BY <1>2, <1>5, <2>1 DEF ProbeInv, ProbeType, Accounted
  <1> QED
    BY <1>9, <1>11, <1>12 DEF ProbeInv, Accounted

\* What an exception or a restart loses is one probe, and a fault.
LEMMA CutOffInv ==
  ASSUME ProbeInv, NEW p \in Supervisor, TickRaises(p) \/ Restart(p)
  PROVE  ProbeInv'
  <1>1. /\ faults' = faults + 1
        /\ pc' = [pc EXCEPT ![p] = "idle"]
        /\ baseline' = [baseline EXCEPT ![p] = 0]
        /\ UNCHANGED matches
    BY DEF TickRaises, Restart, Fault, Goto
  <1>2. \/ UNCHANGED <<pending, unjudged>>
        \/ UNCHANGED pending /\ pc[p] = "fire" /\ Send(p)
        \/ pending' = [pending EXCEPT ![p] = NoProbe] /\ UNCHANGED unjudged
    BY DEF TickRaises, Restart
  <1>3. CASE UNCHANGED <<pending, unjudged>>
    BY <1>1, <1>3 DEF ProbeInv, ProbeType, OneInFlight, Accounted, InFlight
  <1>4. CASE UNCHANGED pending /\ pc[p] = "fire" /\ Send(p)
    BY <1>1, <1>4 DEF Send, ProbeInv, ProbeType, OneInFlight, Accounted, InFlight
  <1>5. CASE pending' = [pending EXCEPT ![p] = NoProbe] /\ UNCHANGED unjudged
    <2>1. ProbeType' /\ OneInFlight'
      BY <1>1, <1>5 DEF ProbeInv, ProbeType, OneInFlight
    <2>2. ASSUME NEW q \in Supervisor
          PROVE  InFlight(q)' <= unjudged'[q] /\ unjudged'[q] <= InFlight(q)' + faults'
      <3>1. InFlight(q)' = InFlight(q) \/ InFlight(q)' = 0
        BY <1>5 DEF InFlight, ProbeInv, ProbeType
      <3>2. InFlight(q) \in {0, 1} /\ unjudged[q] \in Nat /\ faults \in Nat
        BY DEF InFlight, ProbeInv, ProbeType
      <3> QED
        BY <1>1, <1>5, <3>1, <3>2 DEF ProbeInv, Accounted
    <2> QED
      BY <2>1, <2>2 DEF ProbeInv, Accounted
  <1> QED
    BY <1>2, <1>3, <1>4, <1>5

LEMMA RipensInv ==
  ASSUME ProbeInv, NEW p \in Supervisor, ProbeRipens(p)
  PROVE  ProbeInv'
  <1> DEFINE ripe == [pending[p] EXCEPT !.ripe = TRUE]
  <1>1. /\ pending[p] \in Probe
        /\ pending' = [pending EXCEPT ![p] = ripe]
        /\ UNCHANGED <<pc, matches, baseline, unjudged, faults>>
    BY DEF ProbeRipens, ProbeInv, ProbeType
  <1>2. ripe \in Probe /\ ripe.outcome = pending[p].outcome
    BY <1>1 DEF Probe
  <1>3. ripe # NoProbe /\ pending[p] # NoProbe
    BY <1>1, <1>2, AutonomyAssumption
  <1> HIDE DEF ripe
  <1>4. ProbeType' /\ OneInFlight'
    BY <1>1, <1>2, <1>3 DEF ProbeInv, ProbeType, OneInFlight
  <1>5. \A q \in Supervisor : InFlight(q)' = InFlight(q)
    <2>1. ASSUME NEW q \in Supervisor
          PROVE  \/ pending'[q] = pending[q]
                 \/ /\ pending'[q] # NoProbe /\ pending[q] # NoProbe
                    /\ pending'[q].outcome = pending[q].outcome
      BY <1>1, <1>2, <1>3 DEF ProbeInv, ProbeType
    <2> QED
      BY <2>1 DEF InFlight
  <1> QED
    BY <1>1, <1>4, <1>5 DEF ProbeInv, Accounted

LEMMA ProbeStepInv ==
  ASSUME ProbeInv, [Next]_vars
  PROVE  ProbeInv'
  <1>1. CASE UNCHANGED vars
    <2>1. UNCHANGED <<pc, matches, baseline, pending, unjudged, faults>>
      BY <1>1 DEF vars, probes
    <2> QED
      BY <2>1, ProbesApart DEF ProbeInv, ProbeType
  <1>2. CASE \/ LeaseChanges \/ StopsChange \/ SiteChanges
             \/ MatchComes \/ MatchesGo \/ WindowMoves
    BY <1>2, WorldProbeInv
  <1>3. ASSUME NEW p \in Supervisor, Tick(p)
        PROVE  ProbeInv'
    BY <1>3, QuietTickProbeInv, VerifyInv, BeginFireInv, FireInv DEF Tick
  <1>4. ASSUME NEW p \in Supervisor,
               \/ TickRaises(p) \/ Restart(p) \/ ProbeRipens(p)
               \/ \E l \in waiting[p] : IntervalPasses(p, l)
        PROVE  ProbeInv'
    BY <1>4, QuietTickProbeInv, CutOffInv, RipensInv
  <1> QED
    BY <1>1, <1>2, <1>3, <1>4 DEF Next

\* Every probe sent gets its verdict, but for the one in flight and those an exception or a
\* restart has cut off, for any number of supervisors, matches and faults
\* (monitor/injection.py:94-96, 113-118).
THEOREM ProbesJudgedOnce == Spec => []EachProbeIsJudged
  <1>1. Init => ProbeInv
    BY DEF Init, Each, ProbeInv, ProbeType, OneInFlight, Accounted, InFlight
  <1>2. ProbeInv /\ [Next]_vars => ProbeInv'
    BY ProbeStepInv
  <1>3. ProbeInv => EachProbeIsJudged
    BY DEF ProbeInv, Accounted, InFlight, EachProbeIsJudged
  <1> QED
    BY <1>1, <1>2, <1>3, PTL DEF Spec

-----------------------------------------------------------------------------
(* Verdicts: what has happened since the baseline bounds the count.        *)

Counting(p) == pc[p] = "fire" \/ pending[p] # NoProbe

Base(p) == IF pc[p] = "fire" THEN baseline[p] ELSE pending[p].baseline

\* The keys counted now, against those of the baseline, as what has happened allows.
Bounded(base, seen) ==
  /\ seen \cap {"came", "misread"} = {} => matches <= base
  /\ seen \cap {"went", "misread"} = {} =>
       base <= matches /\ ("came" \in seen => base < matches)

Witnessed == \A p \in Supervisor : Counting(p) => Bounded(Base(p), evidence[p])

EvidenceInv == /\ ProbeInv
               /\ DOMAIN evidence = Supervisor
               /\ Witnessed

LEMMA BaseIsNat ==
  ASSUME ProbeInv, NEW p \in Supervisor, Counting(p)
  PROVE  Base(p) \in Nat
  <1>1. pending[p] # NoProbe => pending[p] \in Probe
    BY DEF ProbeInv, ProbeType
  <1>2. pending[p] \in Probe => pending[p].baseline \in Nat
    BY DEF Probe
  <1>3. baseline[p] \in Nat
    BY DEF ProbeInv, ProbeType
  <1> QED
    BY <1>1, <1>2, <1>3 DEF Counting, Base

\* A step that changes neither matches nor evidence, and starts no count.
LEMMA EvidenceApart ==
  ASSUME EvidenceInv, ProbeInv', UNCHANGED matches, DOMAIN evidence' = Supervisor,
         \A q \in Supervisor :
           Counting(q)' => Counting(q) /\ Base(q)' = Base(q) /\ evidence'[q] = evidence[q]
  PROVE  EvidenceInv'
  BY DEF EvidenceInv, Witnessed, Bounded

LEMMA MatchesEvidenceInv ==
  ASSUME EvidenceInv, ProbeInv', MatchComes \/ MatchesGo
  PROVE  EvidenceInv'
  <1>1. UNCHANGED <<pc, baseline, pending>> /\ matches \in Nat
    BY DEF MatchComes, MatchesGo, EvidenceInv, ProbeInv, ProbeType
  <1>2. \A q \in Supervisor :
          /\ Counting(q)' = Counting(q)
          /\ Counting(q) => Base(q)' = Base(q) /\ Base(q) \in Nat
    BY <1>1, BaseIsNat DEF Counting, Base, EvidenceInv
  <1>3. DOMAIN evidence' = Supervisor
    BY DEF MatchComes, MatchesGo, Note
  <1>4. CASE MatchComes
    <2>1. /\ matches' = matches + 1
          /\ \A q \in Supervisor :
               Counting(q) => evidence'[q] = evidence[q] \cup {"came"}
      BY <1>4 DEF MatchComes, Note, Counting
    <2>2. ASSUME NEW q \in Supervisor, Counting(q)
          PROVE  Bounded(Base(q), evidence[q])'
      <3>1. Bounded(Base(q), evidence[q]) /\ Base(q) \in Nat
        BY <1>2, <2>2 DEF EvidenceInv, Witnessed
      <3>2. Base(q)' = Base(q) /\ evidence'[q] = evidence[q] \cup {"came"}
        BY <1>2, <2>1, <2>2
      <3> QED
        BY <1>1, <2>1, <3>1, <3>2 DEF Bounded
    <2> QED
      BY <1>2, <1>3, <2>2 DEF EvidenceInv, Witnessed
  <1>5. CASE MatchesGo
    <2>1. /\ matches' = 0
          /\ \A q \in Supervisor :
               Counting(q) => evidence'[q] = evidence[q] \cup {"went"}
      BY <1>5 DEF MatchesGo, Note, Counting
    <2>2. ASSUME NEW q \in Supervisor, Counting(q)
          PROVE  Bounded(Base(q), evidence[q])'
      <3>1. Base(q)' = Base(q) /\ Base(q) \in Nat
        BY <1>2, <2>2
      <3>2. evidence'[q] = evidence[q] \cup {"went"}
        BY <2>1, <2>2
      <3>3. evidence'[q] \cap {"went", "misread"} # {}
        BY <3>2
      <3> QED
        BY <2>1, <3>1, <3>3 DEF Bounded
    <2> QED
      BY <1>2, <1>3, <2>2 DEF EvidenceInv, Witnessed
  <1> QED
    BY <1>4, <1>5

\* The baseline is what was counted, or could not be.
LEMMA BeginFireEvidenceInv ==
  ASSUME EvidenceInv, ProbeInv', NEW p \in Supervisor, BeginFire(p)
  PROVE  EvidenceInv'
  <1>1. /\ pc' = [pc EXCEPT ![p] = "fire"]
        /\ baseline' = [baseline EXCEPT ![p] = MatchCount]
        /\ evidence' = [evidence EXCEPT ![p] = Misread]
        /\ UNCHANGED <<matches, pending>>
    BY DEF BeginFire, Goto
  <1>2. /\ Base(p)' = MatchCount /\ evidence'[p] = Misread
        /\ matches \in Nat /\ DOMAIN evidence' = Supervisor
    BY <1>1 DEF Base, EvidenceInv, ProbeInv, ProbeType
  <1>3. Bounded(Base(p), evidence[p])'
    BY <1>1, <1>2 DEF Bounded, MatchCount, Misread
  <1>4. ASSUME NEW q \in Supervisor \ {p}, Counting(q)'
        PROVE  Bounded(Base(q), evidence[q])'
    <2>1. Counting(q) /\ Base(q)' = Base(q) /\ evidence'[q] = evidence[q]
      BY <1>1, <1>4 DEF Counting, Base, EvidenceInv, ProbeInv, ProbeType
    <2> QED
      BY <1>1, <2>1 DEF EvidenceInv, Witnessed, Bounded
  <1> QED
    BY <1>2, <1>3, <1>4 DEF EvidenceInv, Witnessed

\* A probe that is in flight keeps the baseline it was fired with.
LEMMA FireEvidenceInv ==
  ASSUME EvidenceInv, ProbeInv', NEW p \in Supervisor, Fire(p)
  PROVE  EvidenceInv'
  <1>1. /\ pc[p] = "fire" /\ pending[p] = NoProbe
        /\ pc' = [pc EXCEPT ![p] = "idle"]
        /\ baseline' = [baseline EXCEPT ![p] = 0]
        /\ UNCHANGED matches
    BY DEF Fire, Goto, EvidenceInv, ProbeInv, OneInFlight
  <1>2. \E o \in Outcomes("fire_injection") :
          \/ /\ pending' = [pending EXCEPT ![p] =
                              [baseline |-> baseline[p], outcome |-> o, ripe |-> FALSE]]
             /\ evidence' = [evidence EXCEPT ![p] = evidence[p]]
          \/ pending' = [pending EXCEPT ![p] = NoProbe]
             /\ evidence' = [evidence EXCEPT ![p] = {}]
    BY <1>1 DEF Fire
  <1>3. /\ DOMAIN evidence' = Supervisor
        /\ \/ pending'[p].baseline = baseline[p] /\ evidence'[p] = evidence[p]
           \/ pending'[p] = NoProbe
        /\ \A q \in Supervisor \ {p} : pending'[q] = pending[q] /\ evidence'[q] = evidence[q]
    BY <1>2 DEF EvidenceInv, ProbeInv, ProbeType
  <1>4. /\ pc'[p] = "idle"
        /\ \A q \in Supervisor \ {p} : pc'[q] = pc[q] /\ baseline'[q] = baseline[q]
    BY <1>1 DEF EvidenceInv, ProbeInv, ProbeType
  <1>5. ASSUME NEW q \in Supervisor, Counting(q)'
        PROVE  Counting(q) /\ Base(q)' = Base(q) /\ evidence'[q] = evidence[q]
    <2>1. CASE q = p
      BY <1>1, <1>3, <1>4, <1>5, <2>1 DEF Counting, Base
    <2>2. CASE q # p
      BY <1>3, <1>4, <1>5, <2>2 DEF Counting, Base
    <2> QED
      BY <2>1, <2>2
  <1> QED
    BY <1>1, <1>3, <1>5, EvidenceApart

\* The other steps end a count or leave it alone.
LEMMA RestEvidenceInv ==
  ASSUME EvidenceInv, ProbeInv', NEW p \in Supervisor,
         \/ Look(p) \/ Recover(p) \/ NothingToFire(p) \/ Verify(p)
         \/ TickRaises(p) \/ Restart(p) \/ ProbeRipens(p)
         \/ \E l \in waiting[p] : IntervalPasses(p, l)
  PROVE  EvidenceInv'
  <1> USE DEF EvidenceInv, ProbeInv, ProbeType
  <1>1. CASE \/ Look(p) \/ Recover(p) \/ NothingToFire(p)
             \/ \E l \in waiting[p] : IntervalPasses(p, l)
    <2>1. UNCHANGED <<baseline, pending, evidence, matches>>
      BY <1>1 DEF Look, Recover, NothingToFire, IntervalPasses, probes
    <2>2. \/ UNCHANGED pc
          \/ pc[p] # "fire" /\ \E l \in {"recover", "probe", "idle"} : pc' = [pc EXCEPT ![p] = l]
      BY <1>1 DEF Look, Recover, NothingToFire, IntervalPasses, Goto
    <2>3. \A q \in Supervisor : (pc'[q] = "fire") = (pc[q] = "fire")
      BY <2>2
    <2> QED
      BY <2>1, <2>3, EvidenceApart DEF Counting, Base
  <1>2. CASE Verify(p)
    <2>1. /\ pc[p] = "probe"
          /\ pending' = [pending EXCEPT ![p] = NoProbe]
          /\ evidence' = [evidence EXCEPT ![p] = {}]
          /\ UNCHANGED <<pc, baseline, matches>>
      BY <1>2 DEF Verify
    <2> QED
      BY <2>1, EvidenceApart DEF Counting, Base
  <1>3. CASE TickRaises(p)
    <2>1. /\ pc[p] = "fire" => pending[p] = NoProbe
          /\ pc' = [pc EXCEPT ![p] = "idle"]
          /\ baseline' = [baseline EXCEPT ![p] = 0]
          /\ evidence' = [evidence EXCEPT ![p] = IF pending[p] = NoProbe THEN {} ELSE evidence[p]]
          /\ UNCHANGED <<pending, matches>>
      BY <1>3 DEF TickRaises, Goto, OneInFlight
    <2> QED
      BY <2>1, EvidenceApart DEF Counting, Base
  <1>4. CASE Restart(p)
    <2>1. /\ pc' = [pc EXCEPT ![p] = "idle"]
          /\ baseline' = [baseline EXCEPT ![p] = 0]
          /\ pending' = [pending EXCEPT ![p] = NoProbe]
          /\ evidence' = [evidence EXCEPT ![p] = {}]
          /\ UNCHANGED matches
      BY <1>4 DEF Restart, Goto
    <2> QED
      BY <2>1, EvidenceApart DEF Counting, Base
  <1>5. CASE ProbeRipens(p)
    <2> DEFINE ripe == [pending[p] EXCEPT !.ripe = TRUE]
    <2>1. /\ pending[p] \in Probe
          /\ pending' = [pending EXCEPT ![p] = ripe]
          /\ UNCHANGED <<pc, matches, baseline, evidence>>
      BY <1>5 DEF ProbeRipens
    <2>2. ripe.baseline = pending[p].baseline
      BY <2>1 DEF Probe
    <2>3. pending[p] # NoProbe
      BY <1>5 DEF ProbeRipens
    <2> HIDE DEF ripe
    <2> QED
      BY <2>1, <2>2, <2>3, EvidenceApart DEF Counting, Base
  <1> QED
    BY <1>1, <1>2, <1>3, <1>4, <1>5

LEMMA EvidenceStepInv ==
  ASSUME EvidenceInv, [Next]_vars
  PROVE  EvidenceInv'
  <1>1. ProbeInv'
    BY ProbeStepInv DEF EvidenceInv
  <1>2. CASE \/ LeaseChanges \/ StopsChange \/ SiteChanges \/ WindowMoves
             \/ UNCHANGED vars
    <2>1. UNCHANGED <<pc, matches, baseline, pending, evidence>>
      BY <1>2 DEF LeaseChanges, StopsChange, SiteChanges, WindowMoves, vars, probes
    <2> QED
      BY <1>1, <2>1, EvidenceApart DEF EvidenceInv, Counting, Base
  <1>3. ASSUME NEW p \in Supervisor, Tick(p)
        PROVE  EvidenceInv'
    BY <1>1, <1>3, BeginFireEvidenceInv, FireEvidenceInv, RestEvidenceInv DEF Tick
  <1>4. ASSUME NEW p \in Supervisor,
               \/ TickRaises(p) \/ Restart(p) \/ ProbeRipens(p)
               \/ \E l \in waiting[p] : IntervalPasses(p, l)
        PROVE  EvidenceInv'
    BY <1>1, <1>4, RestEvidenceInv
  <1> QED
    BY <1>1, <1>2, <1>3, <1>4, MatchesEvidenceInv DEF Next

\* A verdict is earned, whoever else fires probes and whatever cannot be read
\* (monitor/injection.py:89-134).
THEOREM Verdicts == Spec => []VerdictsAreEarned
  <1>1. Init => EvidenceInv
    BY DEF Init, Each, EvidenceInv, ProbeInv, ProbeType, OneInFlight, Accounted, InFlight,
           Witnessed, Counting
  <1>2. EvidenceInv /\ [Next]_vars => EvidenceInv'
    BY EvidenceStepInv
  <1>3. EvidenceInv => VerdictsAreEarned
    <2> SUFFICES ASSUME EvidenceInv, NEW p \in Supervisor, pc[p] = "probe", DueToVerify(p)
                 PROVE  Earned(p)
      BY DEF VerdictsAreEarned
    <2>1. /\ Base(p) = pending[p].baseline /\ Base(p) \in Nat
          /\ Bounded(Base(p), evidence[p]) /\ matches \in Nat
      BY BaseIsNat DEF DueToVerify, Counting, Base, EvidenceInv, Witnessed, ProbeInv, ProbeType
    <2>2. CASE Fails(site, "injections")
      <3>1. "misread" \in evidence[p] \cup Misread
        BY <2>2 DEF Misread
      <3> QED
        BY <3>1 DEF Earned
    <2>3. CASE ~Fails(site, "injections")
      <3>1. MatchCount = matches /\ evidence[p] \cup Misread = evidence[p]
        BY <2>3 DEF MatchCount, Misread
      <3>2. /\ Judgement(p) = "detected" => pending[p].baseline < matches
            /\ Judgement(p) = "missed" => matches <= pending[p].baseline
        BY <2>1, <3>1 DEF Judgement, Exceeds
      <3>3. pending[p].baseline < matches => evidence[p] \cap {"came", "misread"} # {}
        BY <2>1 DEF Bounded
      <3>4. matches <= pending[p].baseline => evidence[p] # {"came"}
        BY <2>1 DEF Bounded
      <3> QED
        BY <3>1, <3>2, <3>3, <3>4 DEF Earned
    <2> QED
      BY <2>2, <2>3
  <1> QED
    BY <1>1, <1>2, <1>3, PTL DEF Spec
=============================================================================
