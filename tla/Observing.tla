------------------------------ MODULE Observing ------------------------------
(***************************************************************************)
(* An observing plan and what acts on it: PlanStore (observing/plan.py) as *)
(* several consoles edit it, PlanRunner (observing/runner.py), and the     *)
(* bring-up sequencer (observing/session.py) as the console's autopilot    *)
(* (web/app.py), the standing supervisor (monitor/supervisor.py) and a     *)
(* manual step drive it.  An evaluation by the control engine is one step  *)
(* here, and the lease is the one SingleExecutor specifies; ControlEngine  *)
(* and ExecutorLease look inside them.                                     *)
(***************************************************************************)
EXTENDS Naturals, FiniteSets

CONSTANTS
  Session,      \* sessions that may hold the lease, one per process
  Driver,       \* threads that drive a bring-up: autopilots, supervisors,
                \* manual steps
  Autopilot,    \* Driver: the loop of a console
  Supervisor,   \* Driver: the tick of a standing supervisor
  SessionOf,    \* the session of a driver's process
  Dec,          \* declinations, further apart than the tolerance
  Mode,         \* keys of a segment's setup
  KnownMode,    \* those with an applier
  Segment,      \* segments of a plan
  DecOf,        \* where a segment points
  SetupOf,      \* its setup: the modes to apply
  SlotOf,       \* the time slot it covers
  LastSlot,     \* bound on time
  Policies,     \* the policies a process may run with
  MaxEdits,     \* bound on changes of the plan
  MaxFaults,    \* bound on exceptions and restarts
  NoSession, NoSegment, NoDec, Nothing

\* What the bring-up submits of itself, and with the modes of a setup.
OwnAction == {"point_array", "build_fstable", "deploy_fstable", "start_fleet",
              "restart_all", "utc_start"}

Action == OwnAction \cup Mode

\* Whether the mode is live, a live executor is wired, and dec-ready is enough to
\* arm (arm_on_dec_ready); and the actions promoted.
Policy == [live : BOOLEAN, wired : BOOLEAN, relaxed : BOOLEAN,
           promoted : SUBSET Action]

ASSUME ObservingAssumption ==
  /\ Autopilot \subseteq Driver /\ Supervisor \subseteq Driver \ Autopilot
  /\ SessionOf \in [Driver -> Session]
  /\ KnownMode \subseteq Mode /\ Mode \cap OwnAction = {}
  /\ DecOf \in [Segment -> Dec]
  /\ SetupOf \in [Segment -> SUBSET Mode]
  /\ LastSlot \in Nat
  /\ SlotOf \in [Segment -> 0..LastSlot]
  /\ Policies \subseteq Policy
  /\ MaxEdits \in Nat /\ MaxFaults \in Nat
  /\ NoSession \notin Session /\ NoSegment \notin Segment
  /\ NoDec \notin Dec /\ Nothing \notin Action

VARIABLES
  policy,       \* read at startup: never changes
  holder,       \* the session that holds the lease, or NoSession
  plan,         \* PLAN_KEY; without segments it reads as no plan
  edit,         \* per session: the plan an arm or disarm has read and changed,
                \* and is about to write
  slot,         \* the time
  pc,           \* where each driver is
  sid,          \* whom its sequencer acts for; NoSession without a sequencer
  key,          \* the segment its bring-up is about, or NoSegment
  stage,        \* BringUp.stage
  pointed, built, modesDone, deadline,    \* the other fields of a BringUp
  todo,         \* the action its step is about to submit
  did,          \* history: what its bring-up has executed and seen
  confirmed,    \* history: segments of plans that a person armed
  dec,          \* the site: the declination commanded
  fleet,        \* its state
  fleetDec,     \* the declination it was last started for
  edits, faults

planVars == <<plan, edit, confirmed, edits>>
bringUp  == <<stage, pointed, built, modesDone, deadline, did>>
site     == <<dec, fleet, fleetDec>>
vars == <<policy, holder, planVars, slot, pc, sid, key, bringUp, todo, site, faults>>

Executor == INSTANCE SingleExecutor

Plan == [segments : SUBSET Segment, armed : BOOLEAN]

NoPlan == [segments |-> {}, armed |-> FALSE]

Stage == {"init", "point", "settle", "fstable", "modes", "fleet", "warm", "arm",
          "done", "blocked"}

\* What a bring-up may find to be so without acting.
Seen == {"on_target", "table", "running", "warm", "observing"}

TypeOK ==
  /\ policy \in Policies
  /\ holder \in Session \cup {NoSession}
  /\ plan \in Plan
  /\ edit \in [Session -> Plan]
  /\ slot \in 0..LastSlot
  /\ pc \in [Driver -> {"idle", "plan", "holder", "apply", "step", "act"}]
  /\ sid \in [Driver -> Session \cup {NoSession}]
  /\ key \in [Driver -> Segment \cup {NoSegment}]
  /\ stage \in [Driver -> Stage]
  /\ pointed \in [Driver -> BOOLEAN]
  /\ built \in [Driver -> BOOLEAN]
  /\ modesDone \in [Driver -> SUBSET KnownMode]
  /\ deadline \in [Driver -> {"none", "set", "past"}]
  /\ todo \in [Driver -> OwnAction \cup KnownMode \cup {Nothing}]
  /\ did \in [Driver -> SUBSET (Action \cup Seen)]
  /\ confirmed \subseteq Segment
  /\ dec \in Dec \cup {NoDec}
  /\ fleet \in {"offline", "preparing", "prepared", "observing"}
  /\ fleetDec \in Dec \cup {NoDec}
  /\ edits \in 0..MaxEdits
  /\ faults \in 0..MaxFaults

Init ==
  /\ policy \in Policies
  /\ holder = NoSession
  /\ plan = NoPlan
  /\ edit = [s \in Session |-> NoPlan]
  /\ slot = 0
  /\ pc = [d \in Driver |-> "idle"]
  /\ sid = [d \in Driver |-> IF d \in Supervisor THEN SessionOf[d] ELSE NoSession]
  /\ key = [d \in Driver |-> NoSegment]
  /\ stage = [d \in Driver |-> "init"]
  /\ pointed = [d \in Driver |-> FALSE]
  /\ built = [d \in Driver |-> FALSE]
  /\ modesDone = [d \in Driver |-> {}]
  /\ deadline = [d \in Driver |-> "none"]
  /\ todo = [d \in Driver |-> Nothing]
  /\ did = [d \in Driver |-> {}]
  /\ confirmed = {}
  /\ dec \in Dec \cup {NoDec}
  /\ fleet = "offline"
  /\ fleetDec = NoDec
  /\ edits = 0
  /\ faults = 0

Fault ==
  /\ faults < MaxFaults
  /\ faults' = faults + 1

-----------------------------------------------------------------------------
(* The lease, the clock and the site.                                      *)

LeaseChanges ==
  /\ Executor!SENext
  /\ UNCHANGED <<policy, planVars, slot, pc, sid, key, bringUp, todo, site, faults>>

NextSlot ==
  /\ slot < LastSlot
  /\ slot' = slot + 1
  /\ UNCHANGED <<policy, holder, planVars, pc, sid, key, bringUp, todo, site, faults>>

\* The fleet warms up, is stopped, or fails.
SiteChanges ==
  /\ \/ fleet \in {"preparing", "observing"} /\ fleet' = "prepared"
     \/ fleet # "offline" /\ fleet' = "offline"
  /\ UNCHANGED <<policy, holder, planVars, slot, pc, sid, key, bringUp, todo, dec,
                 fleetDec, faults>>

Timeout(d) ==
  /\ deadline[d] = "set"
  /\ deadline' = [deadline EXCEPT ![d] = "past"]
  /\ UNCHANGED <<policy, holder, planVars, slot, pc, sid, key, stage, pointed, built,
                 modesDone, did, todo, site, faults>>

-----------------------------------------------------------------------------
(* PlanStore, as a console's routes and the agent's tools use it: each     *)
(* looks at the lease first.                                               *)

PlanEdit ==
  /\ edits < MaxEdits
  /\ edits' = edits + 1
  /\ UNCHANGED <<policy, holder, slot, pc, sid, key, bringUp, todo, site, faults>>

\* validate(): no two segments overlap.
Valid(segments) ==
  \A g, h \in segments : g # h => SlotOf[g] # SlotOf[h]

\* Mutant: the new plan is armed if the old one was.
SetPlanAsItWas(s) ==
  /\ holder = s
  /\ \E segments \in SUBSET Segment :
       Valid(segments) /\ plan' = [segments |-> segments, armed |-> plan.armed]
  /\ PlanEdit
  /\ UNCHANGED <<edit, confirmed>>

\* Also clear(), with no segments.  A plan is staged until a person arms it.
SetPlan(s) ==
  /\ holder = s
  /\ \E segments \in SUBSET Segment :
       Valid(segments) /\ plan' = [segments |-> segments, armed |-> FALSE]
  /\ PlanEdit
  /\ UNCHANGED <<edit, confirmed>>

\* arm() and disarm() read the plan, change it and write it, in two requests.
ReadToArm(s, armed) ==
  /\ holder = s
  /\ edit[s] = NoPlan /\ plan.segments # {}
  /\ edit' = [edit EXCEPT ![s] = [segments |-> plan.segments, armed |-> armed]]
  /\ confirmed' = IF armed THEN confirmed \cup plan.segments ELSE confirmed
  /\ PlanEdit
  /\ UNCHANGED plan

WriteArmed(s) ==
  /\ edit[s] # NoPlan
  /\ plan' = edit[s]
  /\ edit' = [edit EXCEPT ![s] = NoPlan]
  /\ UNCHANGED <<policy, holder, confirmed, edits, slot, pc, sid, key, bringUp, todo,
                 site, faults>>

\* active_at(): the segment of now, or NoSegment.
SegmentNow ==
  IF \E g \in plan.segments : SlotOf[g] = slot
    THEN CHOOSE g \in plan.segments : SlotOf[g] = slot
    ELSE NoSegment

Executes(a) == policy.live /\ policy.wired /\ a \in policy.promoted

\* A read of the commanded declination may fail.
DecReading == {dec, NoDec}

\* PlanRunner.apply(), by the tick route: armed or not, point where the plan says.
RunnerTick(s) ==
  /\ holder = s
  /\ SegmentNow # NoSegment
  /\ \E cur \in DecReading : cur # DecOf[SegmentNow]
  /\ Executes("point_array")
  /\ dec' = DecOf[SegmentNow]
  /\ UNCHANGED <<policy, holder, planVars, slot, pc, sid, key, bringUp, todo, fleet,
                 fleetDec, faults>>

-----------------------------------------------------------------------------
(* Who drives.  A tick runs from its first read to "idle" again.           *)

\* The bring-up of driver d is a new one, about g, or none.
NewBringUp(d, g) ==
  /\ key' = [key EXCEPT ![d] = g]
  /\ stage' = [stage EXCEPT ![d] = "init"]
  /\ pointed' = [pointed EXCEPT ![d] = FALSE]
  /\ built' = [built EXCEPT ![d] = FALSE]
  /\ modesDone' = [modesDone EXCEPT ![d] = {}]
  /\ deadline' = [deadline EXCEPT ![d] = "none"]
  /\ did' = [did EXCEPT ![d] = {}]

\* The sequencer of driver d is a new one that acts for s, or none.
NewSequencer(d, s) ==
  /\ sid' = [sid EXCEPT ![d] = s]
  /\ NewBringUp(d, NoSegment)

Goto(d, to) == pc' = [pc EXCEPT ![d] = to]

Same == UNCHANGED <<sid, key, bringUp>>

TickRest == UNCHANGED <<policy, holder, planVars, slot, todo, site, faults>>

Armed == plan.armed /\ plan.segments # {}

\* The autopilot drops its sequencer when the lease is not its process's; mine() is
\* also false when the process has no lease on record (see ExecutorLease).
CheckMine(d) ==
  /\ d \in Autopilot /\ pc[d] = "idle"
  /\ \/ holder = SessionOf[d] /\ Goto(d, "plan") /\ Same
     \/ NewSequencer(d, NoSession) /\ UNCHANGED pc
  /\ TickRest

CheckArmed(d) ==
  /\ pc[d] = "plan"
  /\ \/ Armed /\ Goto(d, "holder") /\ Same
     \/ ~Armed /\ Goto(d, "idle") /\ NewSequencer(d, NoSession)
  /\ TickRest

\* It acts for whoever holds the lease now.
ReadHolder(d) ==
  /\ pc[d] = "holder"
  /\ \/ holder = NoSession /\ Goto(d, "idle") /\ Same
     \/ holder \in {sid[d]} \ {NoSession} /\ Goto(d, "apply") /\ Same
     \/ holder \notin {sid[d], NoSession} /\ Goto(d, "apply") /\ NewSequencer(d, holder)
  /\ TickRest

\* The supervisor has one sequencer for good; its mutation gate reads the lease.
SupervisorTick(d) ==
  /\ d \in Supervisor /\ pc[d] = "idle"
  /\ holder = SessionOf[d]
  /\ Goto(d, "apply") /\ Same
  /\ TickRest

\* Each manual step has a sequencer of its own.
ManualStep(d) ==
  /\ d \notin Autopilot \cup Supervisor /\ pc[d] = "idle"
  /\ holder = SessionOf[d]
  /\ Goto(d, "apply") /\ NewSequencer(d, holder)
  /\ TickRest

\* A bring-up is known by its start and its declination: a change of the setup
\* alone does not make a new one.
SameKey(g, h) ==
  g = h \/ (/\ NoSegment \notin {g, h}
           /\ SlotOf[g] = SlotOf[h] /\ DecOf[g] = DecOf[h])

\* Mutant: a staged plan will do.
ApplyStaged(d) ==
  LET g == SegmentNow IN
  /\ pc[d] = "apply"
  /\ \/ g = NoSegment /\ Goto(d, "idle") /\ NewBringUp(d, NoSegment)
     \/ /\ g # NoSegment /\ Goto(d, "step")
        /\ IF SameKey(g, key[d]) THEN UNCHANGED <<key, bringUp>> ELSE NewBringUp(d, g)
  /\ UNCHANGED sid /\ TickRest

\* ObservingSequencer.apply() up to the run of steps.
Apply(d) ==
  LET g == IF Armed THEN SegmentNow ELSE NoSegment IN
  /\ pc[d] = "apply"
  /\ \/ g = NoSegment /\ Goto(d, "idle") /\ NewBringUp(d, NoSegment)
     \/ /\ g # NoSegment /\ Goto(d, "step")
        /\ IF SameKey(g, key[d]) THEN UNCHANGED <<key, bringUp>> ELSE NewBringUp(d, g)
  /\ UNCHANGED sid /\ TickRest

-----------------------------------------------------------------------------
(* BringUp.step(), one per stage.  run() goes on until a step waits or     *)
(* ends; its bound of 12 steps is beyond what a segment with one mode      *)
(* needs.                                                                  *)

At(d, s) == pc[d] = "step" /\ stage[d] = s

\* _advance(), with what the step has seen to be so.
Advance(d, to, seen) ==
  /\ stage' = [stage EXCEPT ![d] = to]
  /\ deadline' = [deadline EXCEPT ![d] = "none"]
  /\ did' = [did EXCEPT ![d] = @ \cup seen]
  /\ UNCHANGED <<pc, sid, key, pointed, built, modesDone, todo>>

Block(d) ==
  /\ stage' = [stage EXCEPT ![d] = "blocked"]
  /\ Goto(d, "idle")
  /\ UNCHANGED <<sid, key, pointed, built, modesDone, deadline, did, todo>>

\* Mutant: a wait has no deadline.
WaitForever(d) ==
  /\ deadline[d] # "past"
  /\ Goto(d, "idle")
  /\ Same /\ UNCHANGED todo

\* The first wait sets the deadline.
Wait(d) ==
  /\ deadline[d] # "past"
  /\ deadline' = [deadline EXCEPT ![d] = "set"]
  /\ Goto(d, "idle")
  /\ UNCHANGED <<sid, key, stage, pointed, built, modesDone, did, todo>>

WaitOrBlock(d) ==
  \/ Wait(d)
  \/ deadline[d] = "past" /\ Block(d)

Submit(d, a) ==
  /\ todo' = [todo EXCEPT ![d] = a]
  /\ Goto(d, "act")
  /\ UNCHANGED <<sid, key, stage, built, modesDone, deadline, did>>

StepRest == UNCHANGED <<policy, holder, planVars, slot, site, faults>>

Target(d) == DecOf[key[d]]

StepInit(d) ==
  /\ At(d, "init")
  /\ \E cur \in DecReading :
       \/ cur # Target(d) /\ Advance(d, "point", {})
       \/ cur = Target(d) /\ Advance(d, "fstable", {"on_target"})
  /\ StepRest

StepPoint(d) ==
  /\ At(d, "point")
  /\ pointed' = [pointed EXCEPT ![d] = TRUE]
  /\ Submit(d, "point_array")
  /\ StepRest

\* How many dishes are moving: none, few enough to arm, more, or no answer.
Moving == {"none", "few", "many", "unknown"}

StepSettle(d) ==
  /\ At(d, "settle")
  /\ \/ ~policy.live /\ Advance(d, "fstable", {})
     \/ policy.live /\ \E n \in Moving :
          IF n = "none" \/ (policy.relaxed /\ n = "few")
            THEN Advance(d, "fstable", {})
            ELSE WaitOrBlock(d)
  /\ StepRest

\* The table is ready, or not (or nobody answers); once it has been built, its
\* status names a file to deploy or not.  A deploy goes before the deadline.
StepTable(d) ==
  /\ At(d, "fstable")
  /\ \/ Advance(d, "modes", {"table"})
     \/ /\ ~policy.live \/ ~built[d]
        /\ Submit(d, "build_fstable") /\ UNCHANGED pointed
     \/ /\ policy.live /\ built[d]
        /\ \/ Submit(d, "deploy_fstable") /\ UNCHANGED pointed
           \/ WaitOrBlock(d)
  /\ StepRest

\* Mutant: an action is submitted for whatever the setup names.
SubmitAnyMode(d) ==
  LET left == SetupOf[key[d]] \ modesDone[d] IN
  /\ At(d, "modes")
  /\ \/ left = {} /\ Advance(d, "fleet", {})
     \/ \E m \in left : Submit(d, m) /\ UNCHANGED pointed
  /\ StepRest

StepModes(d) ==
  LET left == SetupOf[key[d]] \ modesDone[d] IN
  /\ At(d, "modes")
  /\ \/ left = {} /\ Advance(d, "fleet", {})
     \/ \E m \in left \cap KnownMode : Submit(d, m) /\ UNCHANGED pointed
     \/ left \ KnownMode # {} /\ Block(d)
  /\ StepRest

FleetReading == {fleet, "unknown"}

\* Mutant: a fleet that runs is never restarted.
StartIfOff(d) ==
  /\ At(d, "fleet")
  /\ \E state \in FleetReading :
       IF state \in {"offline", "unknown"}
         THEN Submit(d, "start_fleet") /\ UNCHANGED pointed
         ELSE Advance(d, "warm", {"running"})
  /\ StepRest

StepFleet(d) ==
  /\ At(d, "fleet")
  /\ \E state \in FleetReading :
       IF state \in {"offline", "unknown"}
         THEN Submit(d, "start_fleet") /\ UNCHANGED pointed
       ELSE IF pointed[d]
         THEN Submit(d, "restart_all") /\ UNCHANGED pointed
         ELSE Advance(d, "warm", {"running"})
  /\ StepRest

\* Safe to arm, or on target with few dishes moving where that is enough.
StepWarm(d) ==
  /\ At(d, "warm")
  /\ \/ ~policy.live /\ Advance(d, "arm", {})
     \/ policy.live /\ \E state \in FleetReading, safe \in BOOLEAN,
                          cur \in DecReading, n \in Moving :
          IF state = "observing"
            THEN Advance(d, "done", {"observing"})
          ELSE IF \/ state = "prepared"
                  \/ state # "unknown" /\ safe
                  \/ policy.relaxed /\ cur = Target(d) /\ n \in {"none", "few"}
            THEN Advance(d, "arm", {"warm"})
            ELSE WaitOrBlock(d)
  /\ StepRest

StepArm(d) ==
  /\ At(d, "arm")
  /\ Submit(d, "utc_start") /\ UNCHANGED pointed
  /\ StepRest

StepDone(d) ==
  /\ pc[d] = "step" /\ stage[d] \in {"done", "blocked"}
  /\ Goto(d, "idle") /\ Same /\ UNCHANGED todo
  /\ StepRest

-----------------------------------------------------------------------------
(* ControlEngine.evaluate(), and what the sequencer makes of the answer.   *)

\* What executing an action does to the site.
Effect(a, target) ==
  /\ dec' = IF a = "point_array" THEN target ELSE dec
  /\ fleet' = CASE a \in {"start_fleet", "restart_all"} -> "preparing"
                [] a = "utc_start" -> "observing"
                [] OTHER -> fleet
  /\ fleetDec' = IF a \in {"start_fleet", "restart_all"} THEN target ELSE fleetDec

\* A denial has many reasons; an answer other than that needs the lease.
Outcomes(d) ==
  {"denied"} \cup
    IF holder # sid[d] THEN {}
    ELSE IF Executes(todo[d]) THEN {"executed"} ELSE {"shadow"}

\* Mutant: a dry run is as good as an execution.
AnyAnswer(outcome) == outcome \in {"executed", "shadow"}

\* A dry run will do only where nothing could be executed.
Accepts(outcome) ==
  \/ outcome = "executed"
  \/ outcome = "shadow" /\ ~(policy.live /\ policy.wired)

NextStage(a) ==
  CASE a = "point_array" -> "settle"
    [] a \in {"start_fleet", "restart_all"} -> "warm"
    [] a = "utc_start" -> "done"
    [] a = "build_fstable" -> IF policy.live THEN "fstable" ELSE "modes"
    [] a = "deploy_fstable" -> "fstable"
    [] a \in Mode -> "modes"

\* A table that is being built or deployed ends the tick; the build's deadline is
\* of its own.
Accepted(d, a) ==
  /\ stage' = [stage EXCEPT ![d] = NextStage(a)]
  /\ Goto(d, IF NextStage(a) = "fstable" THEN "idle" ELSE "step")
  /\ built' = [built EXCEPT ![d] = @ \/ (a = "build_fstable" /\ policy.live)]
  /\ modesDone' = [modesDone EXCEPT ![d] = @ \cup ({a} \cap Mode)]
  /\ deadline' = [deadline EXCEPT ![d] =
                    CASE a = "build_fstable" /\ policy.live -> "set"
                      [] a = "deploy_fstable" \/ a \in Mode -> @
                      [] OTHER -> "none"]
  /\ UNCHANGED <<sid, key, pointed>>

\* Only a refused deploy is tried again.
Refused(d, a) ==
  /\ stage' = IF a = "deploy_fstable" /\ deadline[d] # "past" THEN stage
              ELSE [stage EXCEPT ![d] = "blocked"]
  /\ Goto(d, "idle")
  /\ UNCHANGED <<sid, key, pointed, built, modesDone, deadline>>

ActRest == UNCHANGED <<policy, holder, planVars, slot>>

Evaluate(d) ==
  /\ pc[d] = "act"
  /\ \E outcome \in Outcomes(d) :
       /\ IF outcome = "executed"
            THEN /\ Effect(todo[d], Target(d))
                 /\ did' = [did EXCEPT ![d] = @ \cup {todo[d]}]
            ELSE UNCHANGED <<site, did>>
       /\ IF Accepts(outcome) THEN Accepted(d, todo[d]) ELSE Refused(d, todo[d])
  /\ todo' = [todo EXCEPT ![d] = Nothing]
  /\ ActRest /\ UNCHANGED faults

\* A read raises, or evaluate() does, before or after it has executed; the loop
\* logs it and comes back.
TickRaises(d) ==
  /\ Fault
  /\ pc[d] \in {"plan", "holder", "apply", "act"}
  /\ \/ UNCHANGED site
     \/ pc[d] = "act" /\ "executed" \in Outcomes(d) /\ Effect(todo[d], Target(d))
  /\ todo' = [todo EXCEPT ![d] = Nothing]
  /\ Goto(d, "idle")
  /\ ActRest /\ Same

\* A process dies, and starts again: its drivers and edits are gone, and it clears
\* the plan, unless that fails.
Restart(s) ==
  LET here == {d \in Driver : SessionOf[d] = s}
      Reset(f, v) == [d \in Driver |-> IF d \in here THEN v ELSE f[d]]
  IN /\ Fault
     /\ plan' \in {plan, NoPlan}
     /\ edit' = [edit EXCEPT ![s] = NoPlan]
     /\ pc' = Reset(pc, "idle")
     /\ sid' = [d \in Driver |-> IF d \in here \ Supervisor THEN NoSession ELSE sid[d]]
     /\ key' = Reset(key, NoSegment)
     /\ stage' = Reset(stage, "init")
     /\ pointed' = Reset(pointed, FALSE)
     /\ built' = Reset(built, FALSE)
     /\ modesDone' = Reset(modesDone, {})
     /\ deadline' = Reset(deadline, "none")
     /\ did' = Reset(did, {})
     /\ todo' = Reset(todo, Nothing)
     /\ UNCHANGED <<policy, holder, confirmed, edits, slot, site>>

-----------------------------------------------------------------------------
StepOf(d) ==
  \/ StepInit(d) \/ StepPoint(d) \/ StepSettle(d) \/ StepTable(d) \/ StepModes(d)
  \/ StepFleet(d) \/ StepWarm(d) \/ StepArm(d) \/ StepDone(d)

DriverStep(d) ==
  \/ CheckMine(d) \/ CheckArmed(d) \/ ReadHolder(d) \/ SupervisorTick(d)
  \/ Apply(d) \/ StepOf(d) \/ Evaluate(d)

Person(s) ==
  \/ SetPlan(s) \/ WriteArmed(s) \/ RunnerTick(s)
  \/ \E armed \in BOOLEAN : ReadToArm(s, armed)

Next ==
  \/ LeaseChanges \/ NextSlot \/ SiteChanges
  \/ \E s \in Session : Person(s) \/ Restart(s)
  \/ \E d \in Driver : DriverStep(d) \/ ManualStep(d) \/ Timeout(d) \/ TickRaises(d)

Spec == Init /\ [][Next]_vars

\* The loops catch every exception and tick for ever (supervisor.py:288-293,
\* app.py:737-791), and time passes; nobody has to press a button.
Fairness ==
  \A d \in Driver : WF_vars(Timeout(d)) /\ WF_vars(DriverStep(d))

FairSpec == Spec /\ Fairness

-----------------------------------------------------------------------------
(* Properties.                                                             *)

\* A driver brings up only segments of a plan that a person has armed, whatever
\* edits, restarts and hand-overs come in between (session.py:535-537).
OnlyConfirmed ==
  \A d \in Driver : key[d] # NoSegment => key[d] \in confirmed

\* With a live executor a bring-up is done only if it has started recording or found
\* it started; an action that was only rendered blocks it (session.py:276-290).
DoneMeansObserving ==
  \A d \in Driver :
    stage[d] = "done" /\ policy.live /\ policy.wired =>
      did[d] \cap {"utc_start", "observing"} # {}

\* A bring-up that is about to start recording has been through the list: on target
\* or pointed there, the table in place, each mode set, the fleet warm, and started
\* anew if it has slewed the array (session.py:7-17).
ThroughTheList ==
  \A d \in Driver :
    todo[d] = "utc_start" /\ policy.live /\ policy.wired =>
      /\ did[d] \cap {"on_target", "point_array"} # {}
      /\ {"table", "warm"} \cup SetupOf[key[d]] \subseteq did[d]
      /\ did[d] \cap {"start_fleet", "restart_all", "running"} # {}
      /\ "point_array" \in did[d] => did[d] \cap {"start_fleet", "restart_all"} # {}

\* Supervisor d goes on ticking about the segment it brings up.
Ticking(d) ==
  holder = SessionOf[d] /\ Armed /\ SegmentNow # NoSegment

\* A supervisor that keeps the lease does not wait for ever for the dishes or for
\* the fleet: what it waits for comes, or its deadline passes, however the site
\* answers (session.py:386-402, 468-492).
WaitsEnd ==
  \A d \in Supervisor :
    <>[]Ticking(d) => []<>(stage[d] \notin {"settle", "warm"})

\* "start the fleet, or restart_all it if it's already running (so it re-reads the
\* new dec / fstable)" (session.py:12-13): recording starts on a fleet that was
\* started for this declination.
RecordsAtTheFleetsDec ==
  [][\A d \in Driver :
       todo[d] = "utc_start" /\ fleet # "observing" /\ fleet' = "observing"
         => fleetDec = Target(d)]_vars
=============================================================================
