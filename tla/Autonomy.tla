------------------------------- MODULE Autonomy ------------------------------
(***************************************************************************)
(* The autonomy supervisor (monitor/supervisor.py): a tick that looks at   *)
(* the observatory's health, and, if it may act, proposes a remedy, probes *)
(* the search with a synthetic burst and judges the last probe             *)
(* (monitor/injection.py).  One runs on h23 and keeps the executor lease;  *)
(* every console has one too (web/app.py), of the same session name.       *)
(* Between the steps of a tick people pause, lock out, take the lease and  *)
(* fire probes of their own.  Evaluations are one step, as in Observing.   *)
(***************************************************************************)
EXTENDS Health

CONSTANTS
  Supervisor,   \* supervisors: the standing one, those of consoles
  Console,      \* Supervisor: those of consoles
  Session,      \* sessions that may hold the lease
  Sup,          \* the session every supervisor acts for
  Loops,        \* the loops the policy turns on
  Stop,         \* what people stop the agents with: the e-stop, the lockout
  Promoted,     \* control actions executed live
  MaxMatches,   \* bound on match keys in etcd
  MaxRows,      \* bound on the rows in the window looked back at
  MaxFaults,    \* bound on exceptions, failed reads, writes and posts, restarts
  NoSession, NoReport, NoProbe

Loop == {"auto_recover", "injection_health_check"}

\* The probe's decision and whether verify_after_s has passed.
Probe == [baseline : Nat, outcome : {"executed", "shadow"}, ripe : BOOLEAN]

ASSUME AutonomyAssumption ==
  /\ Sup \in Session /\ NoSession \notin Session
  /\ Loops \subseteq Loop
  /\ MaxMatches \in Nat /\ MaxRows \in Nat /\ MaxFaults \in Nat
  /\ NoProbe \notin Probe

VARIABLES
  site,         \* the observatory, as the tools would read it
  holder,       \* the session that holds the lease, or NoSession
  stops,        \* which of the e-stop and the lockout are engaged
  matches,      \* match keys at /mon/dsart/inject/matches
  rows,         \* changes of health in the window of audit rows looked back at
  pc,           \* where each supervisor's tick is
  waiting,      \* loops whose interval has not passed since they last ran
  report,       \* the health report of this tick, or NoReport
  lastState,    \* _last_health_state: level and codes, or NoReport
  active,       \* _last_alert_codes
  baseline,     \* fire: the matches counted before the probe is submitted
  pending,      \* InjectionHealthCheck._pending, or NoProbe
  evidence,     \* history: what has happened to the matches since the baseline
  unjudged,     \* history: probes of its own sent and never given a verdict
  told,         \* history: the alerts posted in their present episode
  repeated,     \* history: an alert was posted again in one
  remedies,     \* history: remedies executed since the health was last looked at
  unwritten,    \* history: the last change of health left no row
  faults

world   == <<site, holder, stops>>
alerts  == <<lastState, active, told, repeated, remedies, unwritten>>
probes  == <<baseline, pending, evidence, unjudged>>
vars == <<world, matches, rows, pc, waiting, report, alerts, probes, faults>>

Executor == INSTANCE SingleExecutor

Row == [level : Level, report : SUBSET Finding, by : Supervisor]

\* Since the baseline: a match has arrived, keys have gone, a count was unreadable.
Happening == {"came", "went", "misread"}

TypeOK ==
  /\ site \in Sites
  /\ holder \in Session \cup {NoSession}
  /\ stops \subseteq Stop
  /\ matches \in 0..MaxMatches
  /\ rows \in Seq(Row) /\ Len(rows) <= MaxRows
  /\ pc \in [Supervisor -> {"idle", "recover", "probe", "fire"}]
  /\ waiting \in [Supervisor -> SUBSET {"health", "injection"}]
  /\ \A p \in Supervisor : report[p] = NoReport \/ report[p] \subseteq Finding
  /\ \A p \in Supervisor : lastState[p] = NoReport \/ lastState[p] \in Level \X SUBSET Code
  /\ active \in [Supervisor -> SUBSET AlertCode]
  /\ baseline \in [Supervisor -> Nat]
  /\ pending \in [Supervisor -> Probe \cup {NoProbe}]
  /\ evidence \in [Supervisor -> SUBSET Happening]
  /\ unjudged \in [Supervisor -> Nat]
  /\ told \in [Supervisor -> SUBSET AlertCode]
  /\ repeated \in [Supervisor -> BOOLEAN]
  /\ remedies \in [Supervisor -> 0..2]
  /\ unwritten \in [Supervisor -> BOOLEAN]
  /\ faults \in 0..MaxFaults

Each(x) == [p \in Supervisor |-> x]

Init ==
  /\ site \in Sites
  /\ holder = NoSession
  /\ stops = {}
  /\ matches = 0
  /\ rows = <<>>
  /\ pc = Each("idle")
  /\ waiting = Each({})
  /\ report = Each(NoReport) /\ lastState = Each(NoReport)
  /\ active = Each({})
  /\ baseline = Each(0)
  /\ pending = Each(NoProbe)
  /\ evidence = Each({})
  /\ unjudged = Each(0)
  /\ told = Each({}) /\ repeated = Each(FALSE) /\ remedies = Each(0)
  /\ unwritten = Each(FALSE)
  /\ faults = 0

Fault ==
  /\ faults < MaxFaults
  /\ faults' = faults + 1

\* What is done succeeds; or it fails, which is a fault.
Succeeds(ok) == \/ ok /\ UNCHANGED faults
                \/ ~ok /\ Fault

Goto(p, l) == pc' = [pc EXCEPT ![p] = l]

\* The window keeps the last rows.
Push(s, r) == LET t == Append(s, r)
              IN SubSeq(t, Max({1, Len(t) - MaxRows + 1}), Len(t))

\* It happens between the baseline of a probe and the verdict.
Note(e) == [p \in Supervisor |->
              IF pc[p] = "fire" \/ pending[p] # NoProbe THEN evidence[p] \cup {e}
              ELSE evidence[p]]

-----------------------------------------------------------------------------
(* People, the observatory, time.                                          *)

LeaseChanges ==
  /\ Executor!SENext
  /\ UNCHANGED <<site, stops, matches, rows, pc, waiting, report, alerts, probes, faults>>

\* A person engages or clears the e-stop or the lockout.
StopsChange ==
  /\ \E s \in SUBSET Stop : s # stops /\ stops' = s
  /\ UNCHANGED <<site, holder, matches, rows, pc, waiting, report, alerts, probes, faults>>

SiteChanges ==
  /\ \E s \in Sites : s # site /\ site' = s
  /\ UNCHANGED <<holder, stops, matches, rows, pc, waiting, report, alerts, probes, faults>>

\* The search finds a burst that was injected, by the supervisor or a person.
MatchComes ==
  /\ matches < MaxMatches
  /\ matches' = matches + 1
  /\ evidence' = Note("came")
  /\ UNCHANGED <<world, rows, pc, waiting, report, alerts, baseline, pending, unjudged,
                 faults>>

\* The keys of recent matches go.
MatchesGo ==
  /\ matches > 0
  /\ matches' = 0
  /\ evidence' = Note("went")
  /\ UNCHANGED <<world, rows, pc, waiting, report, alerts, baseline, pending,
                 unjudged, faults>>

IntervalPasses(p, l) ==
  /\ l \in waiting[p]
  /\ waiting' = [waiting EXCEPT ![p] = @ \ {l}]
  /\ UNCHANGED <<world, matches, rows, pc, report, alerts, probes, faults>>

ProbeRipens(p) ==
  /\ pending[p] # NoProbe /\ ~pending[p].ripe
  /\ pending' = [pending EXCEPT ![p].ripe = TRUE]
  /\ UNCHANGED <<world, matches, rows, pc, waiting, report, alerts, baseline,
                 evidence, unjudged, faults>>

\* The window slides past its oldest row.
WindowMoves ==
  /\ rows # <<>>
  /\ rows' = Tail(rows)
  /\ UNCHANGED <<world, matches, pc, waiting, report, alerts, probes, faults>>

-----------------------------------------------------------------------------
(* A tick.                                                                 *)

\* What evaluate_health says of each observatory.
HealthOf == [s \in Sites |-> EvaluateHealth(s)]

StateOf(f) == <<LevelOf(f), Codes(f)>>

\* Mutant: only a new alert is an edge.
EdgeOfAlerts(p, f) == AlertCodes(f) \ active[p] # {}

Edge(p, f) == lastState[p] # StateOf(f)

\* Mutant: every alert is posted at each look.
EveryAlert(p, f) == AlertCodes(f)

NewAlerts(p, f) == AlertCodes(f) \ active[p]

\* _record_health: a row if the state has changed, unless it cannot be written; a
\* post of the alerts that are new, whether it is delivered or not.
RecordHealth(p, f, written) ==
  /\ Edge(p, f) \/ written
  /\ lastState' = [lastState EXCEPT ![p] = StateOf(f)]
  /\ rows' = IF Edge(p, f) /\ written
             THEN Push(rows, [level |-> LevelOf(f), report |-> f, by |-> p]) ELSE rows
  /\ unwritten' = [unwritten EXCEPT ![p] = IF Edge(p, f) THEN ~written ELSE @]
  /\ active' = [active EXCEPT ![p] = AlertCodes(f)]
  /\ told' = [told EXCEPT ![p] = (@ \cap AlertCodes(f)) \cup NewAlerts(p, f)]
  /\ repeated' = [repeated EXCEPT ![p] = @ \/ told[p] \cap NewAlerts(p, f) # {}]

\* Mutant: only the executor monitors.
LooksIfExecutor(p) == "health" \notin waiting[p] /\ holder = Sup

\* 1. Health, if due.
LooksAtHealth(p) == "health" \notin waiting[p]

\* 2. _mutation_gate.  A lockout or e-stop that cannot be read counts as open, a lease
\* that cannot be read as not held.
GateOpens(stopped, held) == stopped = {} /\ held

\* Nothing of the health depends on what the gate reads: they are one step.
Look(p) ==
  /\ pc[p] = "idle"
  /\ \E written, held \in BOOLEAN, stopped \in SUBSET stops :
       /\ held => holder = Sup
       /\ Succeeds(written /\ held = (holder = Sup) /\ stopped = stops)
       /\ \/ /\ LooksAtHealth(p)
             /\ waiting' = [waiting EXCEPT ![p] = @ \cup {"health"}]
             /\ remedies' = [remedies EXCEPT ![p] = 0]
             /\ RecordHealth(p, HealthOf[site], written)
          \/ /\ ~LooksAtHealth(p) /\ written
             /\ UNCHANGED <<waiting, rows, alerts>>
       /\ \/ /\ GateOpens(stopped, held)
             /\ Goto(p, "recover")
             /\ report' = [report EXCEPT ![p] = IF LooksAtHealth(p)
                                               THEN HealthOf[site] ELSE NoReport]
          \/ ~GateOpens(stopped, held) /\ UNCHANGED <<pc, report>>
  /\ UNCHANGED <<world, matches, probes>>

\* What an evaluation for the supervisors' session comes to; one that failed may have
\* reached the pipeline all the same.
Outcomes(a) ==
  IF stops # {} \/ holder # Sup THEN {"denied"}
  ELSE IF a \in Promoted THEN {"executed", "failed"} ELSE {"shadow"}

\* Mutant: for what the last look has shown.
RemediesOfLastLook(p) ==
  IF "auto_recover" \in Loops /\ "search_nodes_down" \in active[p]
  THEN {"bounce_search"} ELSE {}

\* 3. Recovery, for what the health of this very tick shows.
Remedies(p) ==
  IF "auto_recover" \in Loops /\ report[p] # NoReport THEN Propose(report[p]) ELSE {}

Recover(p) ==
  /\ pc[p] = "recover"
  /\ \/ /\ Remedies(p) = {}
        /\ UNCHANGED <<remedies, faults>>
     \/ \E a \in Remedies(p) : \E o \in Outcomes(a) :
          /\ Succeeds(o # "failed")
          /\ remedies' = [remedies EXCEPT ![p] =
                            IF o = "executed" /\ @ < 2 THEN @ + 1 ELSE @]
  /\ Goto(p, "probe")
  /\ report' = [report EXCEPT ![p] = NoReport]
  /\ UNCHANGED <<world, matches, rows, waiting, lastState, active, told, repeated, unwritten, probes>>

Probing == "injection_health_check" \in Loops

\* _match_count: none if the registry cannot be read.
MatchCount == IF Fails(site, "injections") THEN 0 ELSE matches

Misread == IF Fails(site, "injections") THEN {"misread"} ELSE {}

\* Mutant: as many matches as before are enough.
NoFewer(count, base) == count >= base

Exceeds(count, base) == count > base

Judgement(p) ==
  IF pending[p].outcome = "shadow" THEN "shadow"
  ELSE IF Exceeds(MatchCount, pending[p].baseline) THEN "detected" ELSE "missed"

\* Mutant: it is judged when a match shows up.
DueWhenMatched(p) == Probing /\ pending[p] # NoProbe /\ Exceeds(MatchCount, pending[p].baseline)

\* 4. Verify the probe in flight, if it is time.
DueToVerify(p) == Probing /\ pending[p] # NoProbe /\ pending[p].ripe

Verify(p) ==
  /\ pc[p] = "probe"
  /\ DueToVerify(p)
  /\ pending' = [pending EXCEPT ![p] = NoProbe]
  /\ evidence' = [evidence EXCEPT ![p] = {}]
  /\ unjudged' = [unjudged EXCEPT ![p] = IF pending[p].outcome = "executed" THEN @ - 1 ELSE @]
  /\ UNCHANGED <<world, matches, rows, pc, waiting, report, alerts, baseline, faults>>

\* Mutant: a probe in flight does not hold the next one back.
DueWheneverTime(p) == Probing /\ "injection" \notin waiting[p]

\* Then fire, if none is in flight and the interval has passed; it starts anew whatever
\* comes of the probe.
DueToFire(p) == Probing /\ pending[p] = NoProbe /\ "injection" \notin waiting[p]

BeginFire(p) ==
  /\ pc[p] = "probe"
  /\ ~DueToVerify(p) /\ DueToFire(p)
  /\ waiting' = [waiting EXCEPT ![p] = @ \cup {"injection"}]
  /\ baseline' = [baseline EXCEPT ![p] = MatchCount]
  /\ evidence' = [evidence EXCEPT ![p] = Misread]
  /\ Goto(p, "fire")
  /\ UNCHANGED <<world, matches, rows, report, alerts, pending, unjudged, faults>>

\* 5. What is left of the tick is the plan runner's, which Observing looks into.
NothingToFire(p) ==
  /\ pc[p] = "probe"
  /\ ~DueToVerify(p) /\ ~DueToFire(p)
  /\ Goto(p, "idle")
  /\ UNCHANGED <<world, matches, rows, waiting, report, alerts, probes, faults>>

Send(p) == unjudged' = [unjudged EXCEPT ![p] = @ + 1]

\* Mutant: a probe that was not carried out counts as in flight.
AnyOutcome == {"executed", "shadow", "denied", "failed"}

InFlightOutcomes == {"executed", "shadow"}

Fire(p) ==
  /\ pc[p] = "fire"
  /\ Goto(p, "idle")
  /\ \E o \in Outcomes("fire_injection") :
       /\ Succeeds(o # "failed")
       /\ \/ o \in {"executed", "failed"} /\ Send(p)
          \/ o # "executed" /\ UNCHANGED unjudged
       /\ pending' = [pending EXCEPT ![p] =
                        IF o \in InFlightOutcomes
                        THEN [baseline |-> baseline[p], outcome |-> o, ripe |-> FALSE]
                        ELSE @]
       /\ evidence' = [evidence EXCEPT ![p] = IF o \in InFlightOutcomes THEN @ ELSE {}]
  /\ baseline' = [baseline EXCEPT ![p] = 0]
  /\ UNCHANGED <<world, matches, rows, waiting, report, alerts>>

\* An evaluation raises and run() goes on with the next tick.  What was executed before
\* its row could not be written stays executed.
TickRaises(p) ==
  /\ pc[p] \in {"recover", "fire"}
  /\ Fault
  /\ Goto(p, "idle")
  /\ report' = [report EXCEPT ![p] = NoReport]
  /\ baseline' = [baseline EXCEPT ![p] = 0]
  /\ \/ UNCHANGED unjudged
     \/ pc[p] = "fire" /\ "executed" \in Outcomes("fire_injection") /\ Send(p)
  /\ evidence' = [evidence EXCEPT ![p] = IF pending[p] = NoProbe THEN {} ELSE @]
  /\ UNCHANGED <<world, matches, rows, waiting, alerts, pending>>

\* A process that starts remembers nothing.
Restart(p) ==
  /\ Fault
  /\ Goto(p, "idle")
  /\ waiting' = [waiting EXCEPT ![p] = {}]
  /\ report' = [report EXCEPT ![p] = NoReport]
  /\ lastState' = [lastState EXCEPT ![p] = NoReport]
  /\ active' = [active EXCEPT ![p] = {}]
  /\ told' = [told EXCEPT ![p] = {}]
  /\ repeated' = [repeated EXCEPT ![p] = FALSE]
  /\ remedies' = [remedies EXCEPT ![p] = 0]
  /\ unwritten' = [unwritten EXCEPT ![p] = FALSE]
  /\ baseline' = [baseline EXCEPT ![p] = 0]
  /\ pending' = [pending EXCEPT ![p] = NoProbe]
  /\ evidence' = [evidence EXCEPT ![p] = {}]
  /\ UNCHANGED <<world, matches, rows, unjudged>>

-----------------------------------------------------------------------------

Tick(p) == Look(p) \/ Recover(p) \/ Verify(p) \/ BeginFire(p) \/ Fire(p) \/ NothingToFire(p)

Next ==
  \/ LeaseChanges \/ StopsChange \/ SiteChanges
  \/ MatchComes \/ MatchesGo \/ WindowMoves
  \/ \E p \in Supervisor :
       \/ Tick(p) \/ TickRaises(p) \/ Restart(p) \/ ProbeRipens(p)
       \/ \E l \in waiting[p] : IntervalPasses(p, l)

Spec == Init /\ [][Next]_vars

\* run() catches every exception and ticks again (supervisor.py:280-291); time passes.
Fairness ==
  \A p \in Supervisor :
    /\ WF_vars(Tick(p))
    /\ WF_vars(ProbeRipens(p))
    /\ \A l \in {"health", "injection"} : WF_vars(IntervalPasses(p, l))

FairSpec == Spec /\ Fairness

-----------------------------------------------------------------------------
(* Properties.                                                             *)

\* A verdict is earned: a probe is called detected only if a match arrived after its
\* baseline was counted, and missed only if none did, unless a count could not be read
\* or keys have gone meanwhile (monitor/injection.py:89-134).
Earned(p) ==
  LET seen == evidence[p] \cup Misread
  IN /\ Judgement(p) = "detected" => seen \cap {"came", "misread"} # {}
     /\ Judgement(p) = "missed" => seen # {"came"}

VerdictsAreEarned == \A p \in Supervisor : pc[p] = "probe" /\ DueToVerify(p) => Earned(p)

\* Every probe sent gets its verdict: the only ones without are the one in flight and
\* those an exception or a restart has cut off (monitor/injection.py:94-96, 113-118,
\* supervisor.py:207-215).
EachProbeIsJudged ==
  \A p \in Supervisor :
    LET inFlight == IF pending[p] # NoProbe /\ pending[p].outcome = "executed" THEN 1 ELSE 0
    IN inFlight <= unjudged[p] /\ unjudged[p] <= inFlight + faults

\* Every active alert has been posted exactly once in its episode (supervisor.py:251-262).
AlertsArePostedOnce ==
  \A p \in Supervisor : told[p] = active[p] /\ ~repeated[p]

\* The last row of a supervisor in the window.
LastOf(p, i) == /\ rows[i].by = p
                /\ \A j \in DOMAIN rows : rows[j].by = p => j <= i

\* The audit rows keep the edges: the last row of a supervisor in the window is the state
\* it has seen last, unless that row could not be written or the supervisor is new; and
\* the history rebuilt from the window tells of that state and of the alerts that are
\* active (supervisor.py:235-250, readonly.py:615-687).
EdgesTellTheState ==
  \A p \in Supervisor, i \in DOMAIN rows :
    (LastOf(p, i) /\ lastState[p] # NoReport /\ ~unwritten[p])
      => /\ StateOf(rows[i].report) = lastState[p]
         /\ Rank(lastState[p][1]) <= Rank(History(rows).worst)
         /\ active[p] \subseteq History(rows).alertCodes

\* The remedy is submitted at most once for each look at the health (supervisor.py:192).
OneRemedyPerLook == \A p \in Supervisor : remedies[p] <= 1

\* The report card a person asks for and the supervisor judge the same observatory by
\* separate rules.  With the default thresholds they agree on whether it deserves an
\* alert, also when reads fail, but for a recording over its cap, which the card does not
\* look at, and for unreadable heartbeats, which the supervisor only warns of
\* (health.py:27-33, 128-216, readonly.py:539-611).
Agrees(s) ==
  (Overall(s) = "alert")
    <=> (Fails(s, "fleet") \/ AlertCodes(EvaluateHealth(s)) \ {"obs_overrun"} # {})

CardAgrees ==
  DefaultThresholds =>
    \A t \in {"fleet", "capture"} :
      /\ Agrees([site EXCEPT !.failing = @ \ {t}])
      /\ Agrees([site EXCEPT !.failing = @ \cup {t}])

\* When the observatory stays as it is, the active alerts become those it deserves and
\* stay them, also while the supervisor is gated out (supervisor.py:173-187, 251-254).
AlertsSettle ==
  \A p \in Supervisor :
    []<><<TRUE>>_site \/ <>[](active[p] = AlertCodes(HealthOf[site]))

\* While the supervisor may act, a probe in flight is judged in the end
\* (supervisor.py:205-209).
MayAct == stops = {} /\ holder = Sup

ProbesAreJudged ==
  \A p \in Supervisor : pending[p] # NoProbe ~> (pending[p] = NoProbe \/ ~MayAct)

\* Only a supervisor in a process that holds the lease acts
\* (web/app.py:184-187: "its mutating loops are gated out").
ConsoleOnlyMonitors == \A p \in Console : pc[p] \notin {"recover", "probe", "fire"}
=============================================================================
