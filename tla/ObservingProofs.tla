---------------------------- MODULE ObservingProofs ----------------------------
(***************************************************************************)
(* What Observing promises for any sessions, drivers, plans, setups,       *)
(* policies and bounds: only what a person has armed is brought up, and    *)
(* recording starts at the end of the list.                                *)
(***************************************************************************)
EXTENDS Observing, TLAPS

-----------------------------------------------------------------------------
(* Types.  A driver at work has a segment: the target of what it submits.  *)

AtWork ==
  \A d \in Driver :
    /\ pc[d] \in {"step", "act"} => key[d] \in Segment
    /\ pc[d] = "act" <=> todo[d] # Nothing

TypeInv == TypeOK /\ AtWork

\* Step forms that TypeOK and AtWork need only the outline of.
LEMMA NewBringUpType ==
  ASSUME TypeInv, NEW d \in Driver, NEW g \in Segment \cup {NoSegment}, NewBringUp(d, g)
  PROVE  /\ key' \in [Driver -> Segment \cup {NoSegment}]
         /\ stage' \in [Driver -> Stage]
         /\ pointed' \in [Driver -> BOOLEAN]
         /\ built' \in [Driver -> BOOLEAN]
         /\ modesDone' \in [Driver -> SUBSET KnownMode]
         /\ deadline' \in [Driver -> {"none", "set", "past"}]
         /\ did' \in [Driver -> SUBSET (Action \cup Seen)]
  BY DEF TypeInv, TypeOK, NewBringUp, Stage

LEMMA SegmentNowType ==
  ASSUME TypeInv
  PROVE  SegmentNow \in plan.segments \cup {NoSegment} /\ plan.segments \subseteq Segment
  BY DEF SegmentNow, TypeInv, TypeOK, Plan

LEMMA EditTypeInv ==
  ASSUME TypeInv, NEW s \in Session,
         SetPlan(s) \/ WriteArmed(s) \/ \E armed \in BOOLEAN : ReadToArm(s, armed)
  PROVE  TypeInv'
  <1>1. UNCHANGED <<policy, holder, slot, pc, sid, key, bringUp, todo, site, faults>>
    BY DEF SetPlan, WriteArmed, ReadToArm, PlanEdit
  <1>2. plan' \in Plan /\ edit' \in [Session -> Plan] /\ confirmed' \subseteq Segment
        /\ edits' \in 0..MaxEdits
    <2>1. CASE SetPlan(s)
      BY <2>1, ObservingAssumption DEF SetPlan, PlanEdit, TypeInv, TypeOK, Plan
    <2>2. CASE WriteArmed(s)
      BY <2>2 DEF WriteArmed, TypeInv, TypeOK, Plan, NoPlan
    <2>3. ASSUME NEW armed \in BOOLEAN, ReadToArm(s, armed)
          PROVE  plan' \in Plan /\ edit' \in [Session -> Plan] /\ confirmed' \subseteq Segment
                 /\ edits' \in 0..MaxEdits
      BY <2>3, ObservingAssumption DEF ReadToArm, PlanEdit, TypeInv, TypeOK, Plan
    <2> QED
      BY <2>1, <2>2, <2>3
  <1> QED
    BY <1>1, <1>2 DEF TypeInv, TypeOK, AtWork, bringUp, site

LEMMA WorldTypeInv ==
  ASSUME TypeInv, LeaseChanges \/ NextSlot \/ SiteChanges
  PROVE  TypeInv'
  <1>1. CASE LeaseChanges
    BY <1>1 DEF LeaseChanges, Executor!SENext, Executor!Claim, Executor!Vacate,
                TypeInv, TypeOK, AtWork,
                planVars, bringUp, site
  <1>2. CASE NextSlot
    BY <1>2, ObservingAssumption
       DEF NextSlot, TypeInv, TypeOK, AtWork, planVars, bringUp, site
  <1>3. CASE SiteChanges
    BY <1>3 DEF SiteChanges, TypeInv, TypeOK, AtWork, planVars, bringUp
  <1> QED
    BY <1>1, <1>2, <1>3

\* The reads that begin a tick.
LEMMA TickTypeInv ==
  ASSUME TypeInv, NEW d \in Driver,
         \/ CheckMine(d) \/ CheckArmed(d) \/ ReadHolder(d)
         \/ SupervisorTick(d) \/ ManualStep(d)
  PROVE  TypeInv'
  <1>1. TickRest
    BY DEF CheckMine, CheckArmed, ReadHolder, SupervisorTick, ManualStep
  <1>2. PICK to \in {"idle", "plan", "holder", "apply"} : pc' = [pc EXCEPT ![d] = to]
    BY DEF CheckMine, CheckArmed, ReadHolder, SupervisorTick, ManualStep, Goto, TypeInv, TypeOK
  <1>3. todo[d] = Nothing
    BY DEF CheckMine, CheckArmed, ReadHolder, SupervisorTick, ManualStep, TypeInv, AtWork
  <1>4. Same \/ \E s \in Session \cup {NoSession} : NewSequencer(d, s)
    BY DEF CheckMine, CheckArmed, ReadHolder, SupervisorTick, ManualStep, TypeInv, TypeOK
  <1>5. CASE Same
    BY <1>1, <1>2, <1>3, <1>5
       DEF TickRest, Same, TypeInv, TypeOK, AtWork, planVars, bringUp, site
  <1>6. ASSUME NEW s \in Session \cup {NoSession}, NewSequencer(d, s)
        PROVE  TypeInv'
    <2>1. NewBringUp(d, NoSegment)
      BY <1>6 DEF NewSequencer
    <2>2. AtWork'
      BY <1>1, <1>2, <1>3, <2>1 DEF TickRest, NewBringUp, TypeInv, TypeOK, AtWork
    <2> QED
      BY <1>1, <1>2, <1>6, <2>1, <2>2, NewBringUpType
         DEF TickRest, NewSequencer, TypeInv, TypeOK, planVars, site
  <1> QED
    BY <1>4, <1>5, <1>6

LEMMA ApplyTypeInv ==
  ASSUME TypeInv, NEW d \in Driver, Apply(d)
  PROVE  TypeInv'
  <1> DEFINE g == IF Armed THEN SegmentNow ELSE NoSegment
  <1>1. g \in Segment \cup {NoSegment}
    BY SegmentNowType
  <1>2. /\ pc[d] = "apply"
        /\ \/ pc' = [pc EXCEPT ![d] = "idle"] /\ NewBringUp(d, NoSegment)
           \/ /\ g # NoSegment /\ pc' = [pc EXCEPT ![d] = "step"]
              /\ \/ SameKey(g, key[d]) /\ UNCHANGED <<key, bringUp>>
                 \/ NewBringUp(d, g)
        /\ UNCHANGED sid /\ TickRest
    BY DEF Apply, Goto
  <1> HIDE DEF g
  <1>3. todo[d] = Nothing
    BY <1>2 DEF TypeInv, AtWork
  <1>4. g # NoSegment /\ SameKey(g, key[d]) => key[d] \in Segment
    BY <1>1, ObservingAssumption DEF SameKey, TypeInv, TypeOK
  <1>5. AtWork'
    BY <1>1, <1>2, <1>3, <1>4 DEF TickRest, NewBringUp, TypeInv, TypeOK, AtWork
  <1>6. CASE UNCHANGED <<key, bringUp>>
    BY <1>2, <1>5, <1>6 DEF TickRest, TypeInv, TypeOK, planVars, bringUp, site
  <1>7. ASSUME NEW h \in Segment \cup {NoSegment}, NewBringUp(d, h)
        PROVE  TypeInv'
    BY <1>2, <1>5, <1>7, NewBringUpType DEF TickRest, TypeInv, TypeOK, planVars, site
  <1> QED
    BY <1>1, <1>2, <1>6, <1>7

\* A step of the bring-up leaves the driver at it, submits an action or ends the tick.
LEMMA StepTypeInv ==
  ASSUME TypeInv, NEW d \in Driver, StepOf(d)
  PROVE  TypeInv'
  <1>1. pc[d] = "step" /\ key[d] \in Segment /\ todo[d] = Nothing
    BY DEF StepOf, StepInit, StepPoint, StepSettle, StepTable, StepModes, StepFleet, StepWarm,
           StepArm, StepDone, At, TypeInv, AtWork
  <1>2. StepRest
    BY DEF StepOf, StepInit, StepPoint, StepSettle, StepTable, StepModes, StepFleet, StepWarm,
           StepArm, StepDone
  <1>3. \/ \E to \in Stage, seen \in SUBSET Seen : Advance(d, to, seen)
        \/ Block(d) \/ Wait(d)
        \/ Same /\ Goto(d, "idle") /\ UNCHANGED todo
        \/ /\ \E a \in OwnAction \cup KnownMode : Submit(d, a)
           /\ UNCHANGED pointed \/ pointed' = [pointed EXCEPT ![d] = TRUE]
    <2>1. CASE StepInit(d)
      BY <2>1 DEF StepInit, Stage, Seen
    <2>2. CASE StepPoint(d) \/ StepArm(d) \/ StepDone(d)
      BY <2>2 DEF StepPoint, StepArm, StepDone, OwnAction
    <2>3. CASE StepSettle(d)
      BY <2>3 DEF StepSettle, WaitOrBlock, Stage
    <2>4. CASE StepTable(d)
      BY <2>4 DEF StepTable, WaitOrBlock, OwnAction, Stage, Seen
    <2>5. CASE StepModes(d)
      BY <2>5 DEF StepModes, Stage
    <2>6. CASE StepFleet(d)
      BY <2>6 DEF StepFleet, OwnAction, Stage, Seen
    <2>7. CASE StepWarm(d)
      BY <2>7 DEF StepWarm, WaitOrBlock, Stage, Seen
    <2> QED
      BY <2>1, <2>2, <2>3, <2>4, <2>5, <2>6, <2>7 DEF StepOf
  <1> USE DEF TypeInv, TypeOK, AtWork, StepRest, planVars, site
  <1>4. ASSUME NEW to \in Stage, NEW seen \in SUBSET Seen, Advance(d, to, seen)
        PROVE  TypeInv'
    BY <1>1, <1>2, <1>4 DEF Advance
  <1>5. CASE Block(d)
    BY <1>1, <1>2, <1>5 DEF Block, Goto, Stage
  <1>6. CASE Wait(d)
    BY <1>1, <1>2, <1>6 DEF Wait, Goto
  <1>7. CASE Same /\ Goto(d, "idle") /\ UNCHANGED todo
    BY <1>1, <1>2, <1>7 DEF Same, Goto, bringUp
  <1>8. ASSUME NEW a \in OwnAction \cup KnownMode, Submit(d, a),
               UNCHANGED pointed \/ pointed' = [pointed EXCEPT ![d] = TRUE]
        PROVE  TypeInv'
    <2>1. a # Nothing
      BY ObservingAssumption DEF Action
    <2> QED
      BY <1>1, <1>2, <1>8, <2>1 DEF Submit, Goto
  <1> QED
    BY <1>3, <1>4, <1>5, <1>6, <1>7, <1>8

LEMMA EffectType ==
  ASSUME TypeInv, NEW a, NEW target \in Dec, Effect(a, target)
  PROVE  /\ dec' \in Dec \cup {NoDec}
         /\ fleet' \in {"offline", "preparing", "prepared", "observing"}
         /\ fleetDec' \in Dec \cup {NoDec}
  BY DEF Effect, TypeInv, TypeOK

\* Where an accepted action takes the bring-up: the action tells its stage.
LEMMA NextStageOf ==
  ASSUME NEW a \in OwnAction \cup KnownMode
  PROVE  /\ NextStage(a) \in Stage
         /\ a = "point_array" => NextStage(a) = "settle"
         /\ a = "build_fstable" => NextStage(a) = IF policy.live THEN "fstable" ELSE "modes"
         /\ a = "deploy_fstable" => NextStage(a) = "fstable"
         /\ a \in {"start_fleet", "restart_all"} => NextStage(a) = "warm"
         /\ a = "utc_start" => NextStage(a) = "done"
         /\ a \in Mode => NextStage(a) = "modes"
  <1>1. a \in Mode => a \notin OwnAction
    BY ObservingAssumption
  <1>2. a \in OwnAction \/ a \in Mode
    BY ObservingAssumption
  <1> QED
    BY <1>1, <1>2 DEF NextStage, OwnAction, Stage

LEMMA EvaluateTypeInv ==
  ASSUME TypeInv, NEW d \in Driver, Evaluate(d)
  PROVE  TypeInv'
  <1> DEFINE a == todo[d]
  <1>1. pc[d] = "act" /\ key[d] \in Segment /\ a \in OwnAction \cup KnownMode
    BY DEF Evaluate, TypeInv, AtWork, TypeOK
  <1>2. Target(d) \in Dec
    BY <1>1, ObservingAssumption DEF Target
  <1>3. /\ todo' = [todo EXCEPT ![d] = Nothing]
        /\ ActRest /\ UNCHANGED faults
        /\ \/ Effect(a, Target(d)) /\ did' = [did EXCEPT ![d] = did[d] \cup {a}]
           \/ UNCHANGED <<site, did>>
        /\ Accepted(d, a) \/ Refused(d, a)
    BY DEF Evaluate
  <1>4. a \in Action /\ NextStage(a) \in Stage
    BY <1>1, NextStageOf, ObservingAssumption DEF Action
  <1> HIDE DEF a
  <1>5. /\ dec' \in Dec \cup {NoDec}
        /\ fleet' \in {"offline", "preparing", "prepared", "observing"}
        /\ fleetDec' \in Dec \cup {NoDec}
        /\ did' \in [Driver -> SUBSET (Action \cup Seen)]
    BY <1>2, <1>3, <1>4, EffectType DEF TypeInv, TypeOK, site
  <1>6. /\ stage' \in [Driver -> Stage]
        /\ built' \in [Driver -> BOOLEAN]
        /\ modesDone' \in [Driver -> SUBSET KnownMode]
        /\ deadline' \in [Driver -> {"none", "set", "past"}]
        /\ UNCHANGED <<sid, key, pointed>>
        /\ \E to \in {"idle", "step"} : pc' = [pc EXCEPT ![d] = to]
    <2>1. CASE Accepted(d, a)
      <3>1. {a} \cap Mode \subseteq KnownMode
        BY <1>1, ObservingAssumption
      <3>2. stage' \in [Driver -> Stage]
        BY <1>4, <2>1 DEF Accepted, TypeInv, TypeOK
      <3>3. built' \in [Driver -> BOOLEAN]
        BY <2>1, ObservingAssumption, Zenon DEF Accepted, TypeInv, TypeOK, Policy
      <3>4. modesDone' \in [Driver -> SUBSET KnownMode]
        BY <2>1, <3>1 DEF Accepted, TypeInv, TypeOK
      <3>5. deadline' \in [Driver -> {"none", "set", "past"}]
        BY <2>1 DEF Accepted, TypeInv, TypeOK
      <3> QED
        BY <2>1, <3>2, <3>3, <3>4, <3>5 DEF Accepted, Goto
    <2>2. CASE Refused(d, a)
      BY <2>2 DEF Refused, Goto, TypeInv, TypeOK, Stage
    <2> QED
      BY <1>3, <2>1, <2>2
  <1> QED
    BY <1>1, <1>3, <1>5, <1>6 DEF TypeInv, TypeOK, AtWork, ActRest, planVars

LEMMA FaultTypeInv ==
  ASSUME TypeInv, NEW d \in Driver, TickRaises(d)
  PROVE  TypeInv'
  <1>1. /\ todo' = [todo EXCEPT ![d] = Nothing]
        /\ pc' = [pc EXCEPT ![d] = "idle"]
        /\ ActRest /\ Same
        /\ faults' \in 0..MaxFaults
    BY ObservingAssumption DEF TickRaises, Goto, Fault, TypeInv, TypeOK
  <1>2. UNCHANGED site \/ (pc[d] = "act" /\ Effect(todo[d], Target(d)))
    BY DEF TickRaises
  <1>3. pc[d] = "act" => Target(d) \in Dec
    BY ObservingAssumption DEF TypeInv, AtWork, Target
  <1>4. /\ dec' \in Dec \cup {NoDec}
        /\ fleet' \in {"offline", "preparing", "prepared", "observing"}
        /\ fleetDec' \in Dec \cup {NoDec}
    BY <1>2, <1>3, EffectType DEF TypeInv, TypeOK, site
  <1> QED
    BY <1>1, <1>4 DEF TypeInv, TypeOK, AtWork, ActRest, Same, planVars, bringUp

LEMMA RestartTypeInv ==
  ASSUME TypeInv, NEW s \in Session, Restart(s)
  PROVE  TypeInv'
  <1>1. /\ plan' \in Plan /\ edit' \in [Session -> Plan]
        /\ faults' \in 0..MaxFaults
    <2>1. NoPlan \in Plan
      BY DEF Plan, NoPlan
    <2>2. plan' \in {plan, NoPlan} /\ edit' = [edit EXCEPT ![s] = NoPlan] /\ Fault
      BY DEF Restart
    <2> QED
      BY <2>1, <2>2, ObservingAssumption DEF Fault, TypeInv, TypeOK
  <1>2. /\ pc' \in [Driver -> {"idle", "plan", "holder", "apply", "step", "act"}]
        /\ sid' \in [Driver -> Session \cup {NoSession}]
        /\ key' \in [Driver -> Segment \cup {NoSegment}]
        /\ stage' \in [Driver -> Stage]
    BY DEF Restart, TypeInv, TypeOK, Stage
  <1>3. /\ pointed' \in [Driver -> BOOLEAN]
        /\ built' \in [Driver -> BOOLEAN]
    BY Zenon DEF Restart, TypeInv, TypeOK
  <1>4. /\ modesDone' \in [Driver -> SUBSET KnownMode]
        /\ deadline' \in [Driver -> {"none", "set", "past"}]
        /\ todo' \in [Driver -> OwnAction \cup KnownMode \cup {Nothing}]
        /\ did' \in [Driver -> SUBSET (Action \cup Seen)]
    BY DEF Restart, TypeInv, TypeOK
  <1>5. AtWork'
    BY DEF Restart, TypeInv, TypeOK, AtWork
  <1> QED
    BY <1>1, <1>2, <1>3, <1>4, <1>5 DEF Restart, TypeInv, TypeOK, site

LEMMA RestTypeInv ==
  ASSUME TypeInv,
         \/ \E s \in Session : RunnerTick(s)
         \/ \E d \in Driver : Timeout(d)
  PROVE  TypeInv'
  <1>1. ASSUME NEW s \in Session, RunnerTick(s)
        PROVE  TypeInv'
    <2>1. SegmentNow \in Segment
      BY <1>1, SegmentNowType DEF RunnerTick
    <2>2. dec' \in Dec
      BY <1>1, <2>1, ObservingAssumption DEF RunnerTick
    <2> QED
      BY <1>1, <2>2 DEF RunnerTick, TypeInv, TypeOK, AtWork, planVars, bringUp
  <1>2. ASSUME NEW d \in Driver, Timeout(d)
        PROVE  TypeInv'
    BY <1>2 DEF Timeout, TypeInv, TypeOK, AtWork, planVars, site
  <1> QED
    BY <1>1, <1>2

LEMMA TypeStepInv ==
  ASSUME TypeInv, [Next]_vars
  PROVE  TypeInv'
  <1>1. CASE UNCHANGED vars
    BY <1>1 DEF vars, TypeInv, TypeOK, AtWork, planVars, bringUp, site
  <1>2. ASSUME NEW s \in Session, Person(s) \/ Restart(s)
        PROVE  TypeInv'
    BY <1>2, EditTypeInv, RestTypeInv, RestartTypeInv DEF Person
  <1>3. ASSUME NEW d \in Driver, DriverStep(d) \/ ManualStep(d) \/ Timeout(d) \/ TickRaises(d)
        PROVE  TypeInv'
    BY <1>3, TickTypeInv, ApplyTypeInv, StepTypeInv, EvaluateTypeInv, RestTypeInv, FaultTypeInv
       DEF DriverStep
  <1> QED
    BY <1>1, <1>2, <1>3, WorldTypeInv DEF Next

LEMMA TypeInvariant == Spec => []TypeInv
  <1>1. Init => TypeInv
    <2> SUFFICES ASSUME Init
                 PROVE  TypeInv
      OBVIOUS
    <2>1. TypeOK
      BY ObservingAssumption DEF Init, TypeOK, Plan, NoPlan, Stage
    <2>2. AtWork
      BY DEF Init, AtWork
    <2> QED
      BY <2>1, <2>2 DEF TypeInv
  <1>2. TypeInv /\ [Next]_vars => TypeInv'
    BY TypeStepInv
  <1> QED
    BY <1>1, <1>2, PTL DEF Spec

\* Every variable keeps its type, for any sessions, drivers, plans and bounds: what a driver
\* submits, it submits about a segment (session.py:241-290).
THEOREM ObservingType == Spec => []TypeOK
  <1>1. TypeInv => TypeOK
    BY DEF TypeInv
  <1> QED
    BY <1>1, TypeInvariant, PTL

-----------------------------------------------------------------------------
(* What is brought up was armed by a person: the plan, and every edit of   *)
(* it that is under way, is armed only with segments that were confirmed.  *)

ArmedIsConfirmed(p) == p.armed => p.segments \subseteq confirmed

ConfirmedInv ==
  /\ ArmedIsConfirmed(plan)
  /\ \A s \in Session : ArmedIsConfirmed(edit[s])
  /\ OnlyConfirmed

\* A new bring-up is about a segment of an armed plan, or about none.
LEMMA NewBringUpConfirmed ==
  ASSUME TypeInv, OnlyConfirmed, NEW d \in Driver, NEW g,
         g # NoSegment => g \in confirmed,
         NewBringUp(d, g), UNCHANGED confirmed
  PROVE  OnlyConfirmed'
  BY DEF OnlyConfirmed, NewBringUp, TypeInv, TypeOK

LEMMA PlanConfirmedInv ==
  ASSUME TypeInv, ConfirmedInv, NEW s \in Session, Person(s) \/ Restart(s)
  PROVE  ConfirmedInv'
  <1> USE DEF ConfirmedInv, ArmedIsConfirmed, OnlyConfirmed
  <1>1. CASE SetPlan(s)
    BY <1>1 DEF SetPlan, PlanEdit
  <1>2. ASSUME NEW armed \in BOOLEAN, ReadToArm(s, armed)
        PROVE  ConfirmedInv'
    <2>1. /\ confirmed \subseteq confirmed'
          /\ armed => plan.segments \subseteq confirmed'
          /\ edit' = [edit EXCEPT ![s] = [segments |-> plan.segments, armed |-> armed]]
          /\ UNCHANGED <<plan, key>>
      BY <1>2 DEF ReadToArm, PlanEdit
    <2> QED
      BY <2>1 DEF TypeInv, TypeOK
  <1>3. CASE WriteArmed(s)
    BY <1>3 DEF WriteArmed, NoPlan, TypeInv, TypeOK
  <1>4. CASE RunnerTick(s)
    BY <1>4 DEF RunnerTick, planVars
  <1>5. CASE Restart(s)
    BY <1>5 DEF Restart, NoPlan, TypeInv, TypeOK
  <1> QED
    BY <1>1, <1>2, <1>3, <1>4, <1>5 DEF Person

LEMMA ApplyConfirmedInv ==
  ASSUME TypeInv, ConfirmedInv, NEW d \in Driver, Apply(d)
  PROVE  ConfirmedInv'
  <1> DEFINE g == IF Armed THEN SegmentNow ELSE NoSegment
  <1>1. g # NoSegment => g \in confirmed
    BY SegmentNowType DEF Armed, ConfirmedInv, ArmedIsConfirmed
  <1>2. UNCHANGED <<plan, edit, confirmed>>
    BY DEF Apply, TickRest, planVars
  <1>3. NewBringUp(d, NoSegment) \/ NewBringUp(d, g) \/ UNCHANGED key
    BY DEF Apply
  <1> HIDE DEF g
  <1>4. OnlyConfirmed'
    BY <1>1, <1>2, <1>3, NewBringUpConfirmed DEF ConfirmedInv, OnlyConfirmed
  <1> QED
    BY <1>2, <1>4 DEF ConfirmedInv, ArmedIsConfirmed

\* No other step has a say in what is armed or brought up.
LEMMA RestConfirmedInv ==
  ASSUME TypeInv, ConfirmedInv, NEW d \in Driver,
         \/ CheckMine(d) \/ CheckArmed(d) \/ ReadHolder(d) \/ SupervisorTick(d)
         \/ StepOf(d) \/ Evaluate(d) \/ ManualStep(d) \/ Timeout(d) \/ TickRaises(d)
  PROVE  ConfirmedInv'
  <1>1. UNCHANGED <<plan, edit, confirmed>>
    <2>1. CASE \/ CheckMine(d) \/ CheckArmed(d) \/ ReadHolder(d) \/ SupervisorTick(d)
               \/ ManualStep(d)
      BY <2>1 DEF CheckMine, CheckArmed, ReadHolder, SupervisorTick, ManualStep, TickRest, planVars
    <2>2. CASE StepOf(d)
      BY <2>2 DEF StepOf, StepInit, StepPoint, StepSettle, StepTable, StepModes, StepFleet,
                  StepWarm, StepArm, StepDone, StepRest, planVars
    <2>3. CASE Evaluate(d) \/ Timeout(d) \/ TickRaises(d)
      BY <2>3 DEF Evaluate, Timeout, TickRaises, ActRest, planVars
    <2> QED
      BY <2>1, <2>2, <2>3
  <1>2. UNCHANGED key \/ NewBringUp(d, NoSegment)
    <2>1. CASE \/ CheckMine(d) \/ CheckArmed(d) \/ ReadHolder(d) \/ SupervisorTick(d)
               \/ ManualStep(d)
      BY <2>1 DEF CheckMine, CheckArmed, ReadHolder, SupervisorTick, ManualStep, Same, NewSequencer
    <2>2. CASE StepOf(d)
      BY <2>2 DEF StepOf, StepInit, StepPoint, StepSettle, StepTable, StepModes, StepFleet,
                  StepWarm, StepArm, StepDone, Advance, Submit, Wait, WaitOrBlock, Block, Same
    <2>3. CASE Evaluate(d) \/ Timeout(d) \/ TickRaises(d)
      BY <2>3 DEF Evaluate, Accepted, Refused, Timeout, TickRaises, Same
    <2> QED
      BY <2>1, <2>2, <2>3
  <1>3. OnlyConfirmed'
    BY <1>1, <1>2, NewBringUpConfirmed DEF ConfirmedInv, OnlyConfirmed
  <1> QED
    BY <1>1, <1>3 DEF ConfirmedInv, ArmedIsConfirmed

LEMMA ConfirmedStepInv ==
  ASSUME TypeInv, ConfirmedInv, [Next]_vars
  PROVE  ConfirmedInv'
  <1>1. CASE UNCHANGED vars \/ LeaseChanges \/ NextSlot \/ SiteChanges
    <2>1. UNCHANGED <<plan, edit, confirmed, key>>
      BY <1>1 DEF vars, LeaseChanges, NextSlot, SiteChanges, planVars
    <2> QED
      BY <2>1 DEF ConfirmedInv, ArmedIsConfirmed, OnlyConfirmed
  <1> QED
    BY <1>1, PlanConfirmedInv, ApplyConfirmedInv, RestConfirmedInv DEF Next, DriverStep

\* A driver brings up only segments of a plan that a person has armed, whatever edits,
\* restarts and hand-overs come in between, for any number of consoles and drivers
\* (plan.py, session.py:535-537).
THEOREM Confirmed == Spec => []OnlyConfirmed
  <1>1. Init => ConfirmedInv
    BY DEF Init, NoPlan, ConfirmedInv, ArmedIsConfirmed, OnlyConfirmed
  <1>2. TypeInv /\ ConfirmedInv /\ [Next]_vars => ConfirmedInv'
    BY ConfirmedStepInv
  <1>3. ConfirmedInv => OnlyConfirmed
    BY DEF ConfirmedInv
  <1> QED
    BY <1>1, <1>2, <1>3, TypeInvariant, PTL DEF Spec

-----------------------------------------------------------------------------
(* The list: what each stage of a bring-up has behind it, and what has     *)
(* been submitted at which stage.                                          *)

\* With a live executor: without one, a rendered action passes for done.
Real == policy.live /\ policy.wired

\* An action is submitted at its own stage.
StageOf(a) ==
  CASE a = "point_array" -> "point"
    [] a \in {"build_fstable", "deploy_fstable"} -> "fstable"
    [] a \in {"start_fleet", "restart_all"} -> "fleet"
    [] a = "utc_start" -> "arm"
    [] OTHER -> "modes"

SubmittedAtStage(d) == todo[d] # Nothing => stage[d] = StageOf(todo[d])

\* From a stage on: it is pointed; the table is there; the setup is applied; the fleet is
\* started, anew after a slew; and it is warm.
Pointed(d) ==
  stage[d] \in {"settle", "fstable", "modes", "fleet", "warm", "arm"} =>
    did[d] \cap {"on_target", "point_array"} # {}

Table(d) == stage[d] \in {"modes", "fleet", "warm", "arm"} => "table" \in did[d]

Modes(d) ==
  /\ modesDone[d] \subseteq did[d]
  /\ stage[d] \in {"fleet", "warm", "arm"} => SetupOf[key[d]] \subseteq modesDone[d]

Started(d) ==
  /\ todo[d] = "point_array" \/ "point_array" \in did[d] => pointed[d]
  /\ stage[d] \in {"warm", "arm"} =>
       /\ did[d] \cap {"start_fleet", "restart_all", "running"} # {}
       /\ pointed[d] => did[d] \cap {"start_fleet", "restart_all"} # {}

Warm(d) == stage[d] = "arm" => "warm" \in did[d]

Recorded(d) == stage[d] = "done" => did[d] \cap {"utc_start", "observing"} # {}

Behind(d) == /\ Pointed(d) /\ Table(d) /\ Modes(d) /\ Started(d)
             /\ Warm(d) /\ Recorded(d)

ListInv == \A d \in Driver : SubmittedAtStage(d) /\ (Real => Behind(d))

\* A driver whose bring-up is as it was, or new, has nothing more behind it.
Unmoved(d) ==
  /\ key'[d] = key[d] /\ stage'[d] = stage[d] /\ did'[d] = did[d]
  /\ pointed'[d] = pointed[d] /\ modesDone'[d] = modesDone[d]
  /\ todo'[d] \in {todo[d], Nothing}

Anew(d) ==
  /\ stage'[d] = "init" /\ did'[d] = {} /\ modesDone'[d] = {}
  /\ todo'[d] = Nothing

LEMMA NothingIsNoAction ==
  Nothing \notin OwnAction /\ Nothing # "point_array"
  BY ObservingAssumption DEF Action, OwnAction

LEMMA ListKept ==
  ASSUME ListInv, UNCHANGED policy, NEW d \in Driver, Unmoved(d) \/ Anew(d)
  PROVE  (SubmittedAtStage(d) /\ (Real => Behind(d)))'
  <1>1. CASE Unmoved(d)
    BY <1>1, NothingIsNoAction
       DEF Unmoved, ListInv, SubmittedAtStage, Real, Behind, Pointed, Table, Modes,
                Started, Warm, Recorded
  <1>2. CASE Anew(d)
    BY <1>2, NothingIsNoAction
       DEF Anew, SubmittedAtStage, Real, Behind, Pointed, Table, Modes, Started, Warm, Recorded
  <1> QED
    BY <1>1, <1>2

\* People, the site, a restart and the reads of a tick.
LEMMA WorldListInv ==
  ASSUME TypeInv, ListInv,
         \/ LeaseChanges \/ NextSlot \/ SiteChanges \/ UNCHANGED vars
         \/ \E s \in Session : Person(s) \/ Restart(s)
  PROVE  ListInv'
  <1>1. CASE \/ LeaseChanges \/ NextSlot \/ SiteChanges \/ UNCHANGED vars
             \/ \E s \in Session : Person(s)
    <2>1. UNCHANGED <<policy, key, bringUp, todo>>
      BY <1>1 DEF LeaseChanges, NextSlot, SiteChanges, vars, Person, SetPlan, ReadToArm,
                  PlanEdit, WriteArmed, RunnerTick
    <2>2. \A d \in Driver : Unmoved(d)
      BY <2>1 DEF bringUp, Unmoved
    <2> QED
      BY <2>1, <2>2, ListKept DEF ListInv
  <1>2. ASSUME NEW s \in Session, Restart(s)
        PROVE  ListInv'
    <2>1. \A d \in Driver : Unmoved(d) \/ Anew(d)
      BY <1>2 DEF Restart, Unmoved, Anew
    <2>2. UNCHANGED policy
      BY <1>2 DEF Restart
    <2> QED
      BY <2>1, <2>2, ListKept DEF ListInv
  <1> QED
    BY <1>1, <1>2

LEMMA TickListInv ==
  ASSUME TypeInv, ListInv, NEW d \in Driver,
         \/ CheckMine(d) \/ CheckArmed(d) \/ ReadHolder(d) \/ SupervisorTick(d)
         \/ ManualStep(d) \/ Apply(d) \/ Timeout(d) \/ TickRaises(d)
  PROVE  ListInv'
  <1>1. CASE \/ CheckMine(d) \/ CheckArmed(d) \/ ReadHolder(d) \/ SupervisorTick(d)
             \/ ManualStep(d) \/ Apply(d)
    <2>1. todo[d] = Nothing /\ UNCHANGED <<policy, todo>>
      BY <1>1 DEF CheckMine, CheckArmed, ReadHolder, SupervisorTick, ManualStep, Apply,
                  TickRest, TypeInv, AtWork
    <2>2. UNCHANGED <<key, bringUp>> \/ \E g : NewBringUp(d, g)
      BY <1>1 DEF CheckMine, CheckArmed, ReadHolder, SupervisorTick, ManualStep, Apply, Same,
                  NewSequencer
    <2>3. \A q \in Driver : Unmoved(q) \/ Anew(q)
      BY <2>1, <2>2 DEF bringUp, NewBringUp, Unmoved, Anew, TypeInv, TypeOK
    <2> QED
      BY <2>1, <2>3, ListKept DEF ListInv
  <1>2. CASE Timeout(d) \/ TickRaises(d)
    <2>1. \A q \in Driver : Unmoved(q)
      BY <1>2 DEF Timeout, TickRaises, Same, bringUp, Unmoved, TypeInv, TypeOK
    <2>2. UNCHANGED policy
      BY <1>2 DEF Timeout, TickRaises, ActRest
    <2> QED
      BY <2>1, <2>2, ListKept DEF ListInv
  <1> QED
    BY <1>1, <1>2

\* A step of driver d leaves the other drivers as they are.
LEMMA StepApart ==
  ASSUME TypeInv, NEW d \in Driver, StepOf(d) \/ Evaluate(d)
  PROVE  UNCHANGED <<policy, key>> /\ \A q \in Driver \ {d} : Unmoved(q)
  <1> USE DEF TypeInv, TypeOK, Unmoved
  <1>1. CASE StepOf(d)
    <2>1. CASE StepInit(d) \/ StepPoint(d) \/ StepSettle(d) \/ StepTable(d) \/ StepModes(d)
      BY <2>1 DEF StepInit, StepPoint, StepSettle, StepTable, StepModes, StepRest, Advance,
                  Submit, WaitOrBlock, Wait, Block
    <2>2. CASE StepFleet(d) \/ StepWarm(d) \/ StepArm(d) \/ StepDone(d)
      BY <2>2 DEF StepFleet, StepWarm, StepArm, StepDone, StepRest, Advance, Submit,
                  WaitOrBlock, Wait, Block, Same, bringUp
    <2> QED
      BY <1>1, <2>1, <2>2 DEF StepOf
  <1>2. CASE Evaluate(d)
    BY <1>2 DEF Evaluate, ActRest, Accepted, Refused, site
  <1> QED
    BY <1>1, <1>2

LEMMA StepListInv ==
  ASSUME TypeInv, ListInv, NEW d \in Driver, StepOf(d)
  PROVE  ListInv'
  <1>1. UNCHANGED policy /\ \A q \in Driver \ {d} : Unmoved(q)
    BY StepApart
  <1>2. todo[d] = Nothing /\ (Real => Behind(d)) /\ UNCHANGED <<policy, key>>
    <2>1. pc[d] = "step"
      BY DEF StepOf, StepInit, StepPoint, StepSettle, StepTable, StepModes, StepFleet,
             StepWarm, StepArm, StepDone, At
    <2> QED
      BY <2>1, StepApart DEF TypeInv, AtWork, ListInv
  <1> USE DEF SubmittedAtStage, StageOf, Behind, Pointed, Table, Modes, Started, Warm, Recorded
  <1>3. ASSUME UNCHANGED <<stage, pointed, modesDone, did, todo>>
        PROVE  (SubmittedAtStage(d) /\ (Real => Behind(d)))'
    BY <1>2, <1>3 DEF Real
  <1>4. ASSUME WaitOrBlock(d) \/ Block(d)
        PROVE  (SubmittedAtStage(d) /\ (Real => Behind(d)))'
    <2>1. CASE Wait(d)
      BY <1>3, <2>1 DEF Wait
    <2>2. CASE Block(d)
      BY <1>2, <2>2 DEF Block, Real, TypeInv, TypeOK
    <2> QED
      BY <1>4, <2>1, <2>2 DEF WaitOrBlock
  <1>5. (SubmittedAtStage(d) /\ (Real => Behind(d)))'
    <2>1. CASE StepInit(d)
      BY <1>2, <2>1 DEF StepInit, At, Advance, Real, TypeInv, TypeOK
    <2>2. CASE StepPoint(d)
      BY <1>2, <2>2 DEF StepPoint, At, Submit, Real, TypeInv, TypeOK
    <2>3. CASE StepSettle(d)
      <3>1. ASSUME Advance(d, "fstable", {}), stage[d] = "settle"
            PROVE  (SubmittedAtStage(d) /\ (Real => Behind(d)))'
        BY <1>2, <3>1 DEF Advance, Real, TypeInv, TypeOK
      <3> QED
        BY <1>4, <2>3, <3>1 DEF StepSettle, At
    <2>4. CASE StepTable(d)
      <3>1. CASE Advance(d, "modes", {"table"})
        BY <1>2, <2>4, <3>1 DEF StepTable, At, Advance, Real, TypeInv, TypeOK
      <3>2. ASSUME NEW a \in {"build_fstable", "deploy_fstable"}, Submit(d, a), UNCHANGED pointed
            PROVE  (SubmittedAtStage(d) /\ (Real => Behind(d)))'
        BY <1>2, <2>4, <3>2 DEF StepTable, At, Submit, Real, TypeInv, TypeOK
      <3> QED
        BY <1>4, <2>4, <3>1, <3>2 DEF StepTable
    <2>5. CASE StepModes(d)
      <3>1. CASE SetupOf[key[d]] \ modesDone[d] = {} /\ Advance(d, "fleet", {})
        BY <1>2, <2>5, <3>1 DEF StepModes, At, Advance, Real, TypeInv, TypeOK
      <3>2. ASSUME NEW m \in KnownMode, Submit(d, m), UNCHANGED pointed
            PROVE  (SubmittedAtStage(d) /\ (Real => Behind(d)))'
        <4>1. StageOf(m) = "modes" /\ m # "point_array"
          BY ObservingAssumption DEF OwnAction
        <4> QED
          BY <1>2, <2>5, <3>2, <4>1 DEF StepModes, At, Submit, Real, TypeInv, TypeOK
      <3> QED
        BY <1>4, <2>5, <3>1, <3>2 DEF StepModes
    <2>6. CASE StepFleet(d)
      <3>1. CASE ~pointed[d] /\ Advance(d, "warm", {"running"})
        BY <1>2, <2>6, <3>1 DEF StepFleet, At, Advance, Real, TypeInv, TypeOK
      <3>2. ASSUME NEW a \in {"start_fleet", "restart_all"}, Submit(d, a), UNCHANGED pointed
            PROVE  (SubmittedAtStage(d) /\ (Real => Behind(d)))'
        BY <1>2, <2>6, <3>2 DEF StepFleet, At, Submit, Real, TypeInv, TypeOK
      <3> QED
        BY <2>6, <3>1, <3>2 DEF StepFleet
    <2>7. CASE StepWarm(d)
      <3>1. CASE Advance(d, "done", {"observing"})
        BY <1>2, <2>7, <3>1 DEF StepWarm, At, Advance, Real, TypeInv, TypeOK
      <3>2. CASE Advance(d, "arm", {"warm"}) \/ (~policy.live /\ Advance(d, "arm", {}))
        BY <1>2, <2>7, <3>2 DEF StepWarm, At, Advance, Real, TypeInv, TypeOK
      <3> QED
        BY <1>4, <2>7, <3>1, <3>2 DEF StepWarm
    <2>8. CASE StepArm(d)
      BY <1>2, <2>8 DEF StepArm, At, Submit, Real, TypeInv, TypeOK
    <2>9. CASE StepDone(d)
      BY <1>3, <2>9 DEF StepDone, Same, bringUp
    <2> QED
      BY <2>1, <2>2, <2>3, <2>4, <2>5, <2>6, <2>7, <2>8, <2>9 DEF StepOf
  <1> QED
    BY <1>1, <1>5, ListKept DEF ListInv

\* The engine's answer: with a live executor only an execution takes the bring-up on, and
\* then what was submitted is behind it.
LEMMA EvaluateListInv ==
  ASSUME TypeInv, ListInv, NEW d \in Driver, Evaluate(d)
  PROVE  ListInv'
  <1> DEFINE a == todo[d]
  <1>1. UNCHANGED <<policy, key>> /\ \A q \in Driver \ {d} : Unmoved(q)
    BY StepApart
  <1>2. /\ a \in OwnAction \cup KnownMode /\ stage[d] = StageOf(a)
        /\ Real => Behind(d)
        /\ todo'[d] = Nothing
    BY DEF Evaluate, TypeInv, AtWork, TypeOK, ListInv, SubmittedAtStage
  <1>3. PICK outcome \in Outcomes(d) :
          /\ IF outcome = "executed" THEN did' = [did EXCEPT ![d] = did[d] \cup {a}]
                                     ELSE UNCHANGED did
          /\ IF Accepts(outcome) THEN Accepted(d, a) ELSE Refused(d, a)
    BY DEF Evaluate
  <1> USE DEF TypeInv, TypeOK
  <1>4. CASE Accepts(outcome)
    <2>1. /\ stage'[d] = NextStage(a)
          /\ modesDone'[d] = modesDone[d] \cup ({a} \cap Mode)
          /\ pointed'[d] = pointed[d]
      BY <1>3, <1>4 DEF Accepted
    <2>2. Real => did'[d] = did[d] \cup {a}
      BY <1>3, <1>4 DEF Accepts, Real
    <2>3. a \in Mode => a \notin OwnAction
      BY ObservingAssumption
    <2> HIDE DEF a
    <2>4. /\ a = "point_array" => stage[d] = "point"
          /\ a \in {"build_fstable", "deploy_fstable"} => stage[d] = "fstable"
          /\ a \in {"start_fleet", "restart_all"} => stage[d] = "fleet"
          /\ a = "utc_start" => stage[d] = "arm"
          /\ a \in Mode => stage[d] = "modes"
      BY <1>2, <2>3 DEF StageOf, OwnAction
    <2>5. a \in Mode \/ a \in OwnAction
      BY <1>2, ObservingAssumption
    <2>6. ASSUME Real, Behind(d)
          PROVE  Behind(d)'
      <3> USE DEF Behind, Pointed, Table, Modes, Started, Warm, Recorded
      <3>1. did'[d] = did[d] \cup {a} /\ modesDone'[d] \subseteq did'[d]
        BY <2>1, <2>2, <2>6
      <3>2. CASE a = "point_array"
        BY NothingIsNoAction, <1>1, <1>2, <2>1, <2>3, <2>6, <3>1, <3>2, NextStageOf DEF a
      <3>3. CASE a \in {"build_fstable", "deploy_fstable"}
        BY NothingIsNoAction, <1>1, <1>2, <2>1, <2>4, <2>6, <3>1, <3>3, NextStageOf DEF Real
      <3>4. CASE a \in {"start_fleet", "restart_all"}
        BY NothingIsNoAction, <1>1, <1>2, <2>1, <2>4, <2>6, <3>1, <3>4, NextStageOf
      <3>5. CASE a = "utc_start"
        BY NothingIsNoAction, <1>1, <1>2, <2>1, <2>4, <2>6, <3>1, <3>5, NextStageOf
      <3>6. CASE a \in Mode
        <4>1. a # "point_array" /\ stage'[d] = "modes"
          BY <1>2, <2>1, <2>3, <3>6, NextStageOf DEF OwnAction
        <4> QED
          BY NothingIsNoAction, <1>1, <1>2, <2>1, <2>4, <2>6, <3>1, <3>6, <4>1
      <3> QED
        BY <2>5, <3>2, <3>3, <3>4, <3>5, <3>6 DEF OwnAction
    <2> QED
      BY <1>1, <1>2, <2>6, ListKept DEF a, Real, SubmittedAtStage, ListInv
  <1>5. CASE ~Accepts(outcome)
    <2>1. outcome # "executed" /\ UNCHANGED <<did, pointed, modesDone>>
      BY <1>3, <1>5 DEF Accepts, Refused
    <2>2. stage'[d] \in {stage[d], "blocked"}
      BY <1>3, <1>5 DEF Refused
    <2>3. (SubmittedAtStage(d) /\ (Real => Behind(d)))'
      BY NothingIsNoAction, <1>1, <1>2, <2>1, <2>2
         DEF Real, SubmittedAtStage, Behind, Pointed, Table, Modes, Started, Warm, Recorded
    <2> QED
      BY <1>1, <2>3, ListKept DEF ListInv
  <1> QED
    BY <1>4, <1>5

LEMMA ListStepInv ==
  ASSUME TypeInv, ListInv, [Next]_vars
  PROVE  ListInv'
  BY WorldListInv, TickListInv, StepListInv, EvaluateListInv DEF Next, DriverStep

LEMMA ListInvariant == Spec => [](TypeInv /\ ListInv)
  <1>1. Init => ListInv
    BY NothingIsNoAction
       DEF Init, ListInv, SubmittedAtStage, Behind, Pointed, Table, Modes, Started, Warm,
           Recorded
  <1>2. TypeInv /\ ListInv /\ [Next]_vars => ListInv'
    BY ListStepInv
  <1> QED
    BY <1>1, <1>2, TypeInvariant, PTL DEF Spec

\* A bring-up about to start recording has been through the list, for any drivers, setups,
\* policies and faults: each stage has behind it what the stages before were for
\* (session.py:7-17).
THEOREM ListFollowed == Spec => []ThroughTheList
  <1>1. TypeInv /\ ListInv => ThroughTheList
    <2> SUFFICES ASSUME ListInv, NEW d \in Driver, todo[d] = "utc_start", Real, TypeInv
                 PROVE  /\ did[d] \cap {"on_target", "point_array"} # {}
                        /\ {"table", "warm"} \cup SetupOf[key[d]] \subseteq did[d]
                        /\ did[d] \cap {"start_fleet", "restart_all", "running"} # {}
                        /\ "point_array" \in did[d]
                             => did[d] \cap {"start_fleet", "restart_all"} # {}
      BY DEF ThroughTheList, Real
    <2>1. stage[d] = "arm" /\ Behind(d)
      BY ObservingAssumption DEF ListInv, SubmittedAtStage, StageOf, Action, OwnAction
    <2> QED
      BY <2>1 DEF Behind, Pointed, Table, Modes, Started, Warm
  <1> QED
    BY <1>1, ListInvariant, PTL

\* With a live executor a bring-up is done only if it has started recording or found it
\* started (session.py:276-290).
THEOREM DoneIsObserving == Spec => []DoneMeansObserving
  <1>1. ListInv => DoneMeansObserving
    BY DEF ListInv, Real, Behind, Recorded, DoneMeansObserving
  <1> QED
    BY <1>1, ListInvariant, PTL
=============================================================================
