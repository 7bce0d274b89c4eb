------------------------- MODULE ControlEngineProofs -------------------------
(***************************************************************************)
(* Proofs about ControlEngine, for any policy, actions, operators,         *)
(* sessions, evaluations and approvals and any number of faults.           *)
(***************************************************************************)
EXTENDS ControlEngine, FiniteSetTheorems, TLAPS

-----------------------------------------------------------------------------
(* The inductive invariant.                                                *)

GateInv ==
  /\ TypeOK /\ SpentIsGone
  /\ Underway /\ ClearedSoFar /\ GrantsCounted /\ Authorised /\ Recorded

-----------------------------------------------------------------------------
(* Which steps touch what.                                                 *)

\* A step of people or of the approval store leaves every evaluation alone.
Quiet == UNCHANGED <<pc, callVars, workVars, spent, faults>> /\ Observe

LEMMA HumanIsQuiet ==
  ASSUME HumanStep
  PROVE  Quiet /\ UNCHANGED store
  BY DEF HumanStep, LeaseChanges, Pause, SetAuthority, BeginResume, Resume, Quiet,
         callVars, workVars

LEMMA StoreIsQuiet ==
  ASSUME StoreStep
  PROVE  Quiet /\ UNCHANGED humanVars
  BY DEF StoreStep, RequestApproval, GrantApproval, ExpireApproval,
         OnlyStoreChanges, Quiet

\* A step of one evaluation leaves the others alone.
Same(f) ==
  /\ pc'[f] = pc[f] /\ act'[f] = act[f] /\ ses'[f] = ses[f] /\ pin'[f] = pin[f]
  /\ appr'[f] = appr[f] /\ left'[f] = left[f] /\ moved'[f] = moved[f]
  /\ row'[f] = row[f]

LEMMA OthersAreSame ==
  ASSUME TypeOK, NEW e \in Evaluation, NEW f \in Evaluation \ {e}, EvaluationStep(e)
  PROVE  Same(f)
  <1> USE DEF TypeOK, Same, Leave, Step, callVars, workVars
  <1>1. CASE CheckAuthority(e)
    BY <1>1 DEF CheckAuthority
  <1>2. CASE CheckLease(e)
    BY <1>2 DEF CheckLease
  <1>3. CASE CheckGate(e)
    BY <1>3 DEF CheckGate, Proceed
  <1>4. CASE ExecuteUnit(e) \/ ExecuteFails(e)
    BY <1>4 DEF ExecuteUnit, ExecuteFails
  <1>5. CASE AuditFailure(e) \/ AuditDone(e)
    BY <1>5 DEF AuditFailure, AuditDone
  <1>6. CASE ConsumeAndReturn(e) \/ ReturnFailure(e) \/ EvaluationRaises(e)
    BY <1>6 DEF ConsumeAndReturn, ReturnFailure, EvaluationRaises
  <1>7. CASE \E a \in Action, s \in Local : BeginEvaluation(e, a, s)
    BY <1>7 DEF BeginEvaluation
  <1> QED
    BY <1>1, <1>2, <1>3, <1>4, <1>5, <1>6, <1>7 DEF EvaluationStep

-----------------------------------------------------------------------------
(* Types.                                                                  *)

\* TypeOK in two halves: what belongs to one evaluation, and what is shared.
CallTypes ==
  /\ pc \in [Evaluation -> {"idle", "authority", "lease", "gate", "execute",
                            "failed", "audit", "consume", "return"}]
  /\ act \in [Evaluation -> Action \cup {NoAction}]
  /\ ses \in [Evaluation -> Session \cup {NoSession}]
  /\ pin \in [Evaluation -> Operator \cup {NoOperator}]
  /\ appr \in [Evaluation -> Approval \cup {NoApproval}]
  /\ left \in [Evaluation -> Nat]
  /\ moved \in [Evaluation -> BOOLEAN]
  /\ row \in [Evaluation -> {"none", "live", "shadow"}]

SharedTypes ==
  /\ holder \in Session \cup {NoSession}
  /\ paused \in BOOLEAN
  /\ authority \in [enabled : BOOLEAN, pin : Operator \cup {NoOperator}]
  /\ store \in [Approval -> Request \cup {Unused}]
  /\ resuming \in SUBSET Session
  /\ cleared \in [Evaluation -> SUBSET Clearance]
  /\ spent \in SUBSET Approval
  /\ faults \in 0..MaxFaults

LEMMA TypeHalves == TypeOK <=> CallTypes /\ SharedTypes
  BY DEF TypeOK, CallTypes, SharedTypes

LEMMA TypeHalvesPrime == TypeOK' <=> CallTypes' /\ SharedTypes'
  BY TypeHalves, PTL

\* An evaluation that is over is as it was before it began.
LEMMA LeaveTypes ==
  ASSUME CallTypes, NEW e \in Evaluation, Leave(e)
  PROVE  CallTypes'
  <1>1. moved' \in [Evaluation -> BOOLEAN]
    BY DEF CallTypes, Leave
  <1> QED
    BY <1>1 DEF CallTypes, Leave

LEMMA InitType == Init => TypeOK
  <1> SUFFICES ASSUME Init PROVE TypeOK
    OBVIOUS
  <1>1. /\ moved \in [Evaluation -> BOOLEAN]
        /\ paused \in BOOLEAN
        /\ authority \in [enabled : BOOLEAN, pin : Operator \cup {NoOperator}]
    BY DEF Init
  <1> QED
    BY <1>1, EngineAssumption DEF Init, TypeOK

\* The history variable holds clearances only, grows while an evaluation is in the
\* gauntlet, is kept while it executes, and holds what is in force after a check.
LEMMA Observed ==
  ASSUME TypeOK, Observe
  PROVE  /\ cleared' \in [Evaluation -> SUBSET Clearance]
         /\ \A e \in Evaluation :
              /\ pc'[e] \in Gauntlet \cup {"execute"} =>
                   cleared[e] \subseteq cleared'[e]
              /\ pc'[e] \in Gauntlet => InForce(e)' \subseteq cleared'[e]
  BY DEF TypeOK, Observe, Gauntlet, InForce

\* Every step but a stutter ends with an observation.
LEMMA StepsObserve ==
  ASSUME NEW e \in Evaluation, EvaluationStep(e)
  PROVE  Observe
  BY DEF EvaluationStep, CheckAuthority, CheckLease, CheckGate, ExecuteUnit,
         ExecuteFails, AuditFailure, AuditDone, ConsumeAndReturn, ReturnFailure,
         EvaluationRaises, BeginEvaluation

\* An evaluation touches the store only to consume its approval.
LEMMA StepsConsume ==
  ASSUME NEW e \in Evaluation, EvaluationStep(e)
  PROVE  Consume(e) \/ UNCHANGED store
  BY DEF EvaluationStep, CheckAuthority, CheckLease, CheckGate, ExecuteUnit,
         ExecuteFails, AuditFailure, AuditDone, ConsumeAndReturn, ReturnFailure,
         EvaluationRaises, BeginEvaluation

\* What a step does to one request: nothing, makes it, grants it once, or changes
\* its state for good.
RequestStep(a) ==
  \/ store'[a] = store[a]
  \/ /\ store[a].state = "unused"
     /\ \E about \in Known, by \in Operator :
          store'[a] = [state |-> "held", about |-> about, by |-> by,
                       grants |-> 0, grantedBy |-> {}]
  \/ /\ store[a].state = "held"
     /\ \E op \in Operator :
          /\ MayGrant(a, op)
          /\ store'[a] = [state |-> "held", about |-> store[a].about,
                          by |-> store[a].by, grants |-> store[a].grants + 1,
                          grantedBy |-> store[a].grantedBy \cup {op}]
  \/ /\ store[a].state = "held"
     /\ store'[a] = [store[a] EXCEPT !.state = "expired"]
  \/ /\ store[a].state # "unused"
     /\ store'[a] = [store[a] EXCEPT !.state = "gone"]

LEMMA StoreSteps ==
  ASSUME TypeOK, Authorised, Next
  PROVE  /\ DOMAIN store' = Approval
         /\ store' = [a \in Approval |-> store'[a]]
         /\ \A a \in Approval : RequestStep(a)
  <1> DEFINE Goal == /\ DOMAIN store' = Approval
                     /\ store' = [a \in Approval |-> store'[a]]
                     /\ \A a \in Approval : RequestStep(a)
  <1>1. CASE UNCHANGED store
    BY <1>1 DEF TypeOK, RequestStep
  <1>2. ASSUME NEW a \in Approval, NEW about \in Known, NEW by \in Operator,
               RequestApproval(a, about, by)
        PROVE  Goal
    BY <1>2 DEF RequestApproval, TypeOK, RequestStep
  <1>3. ASSUME NEW a \in Approval, NEW op \in Operator, GrantApproval(a, op)
        PROVE  Goal
    BY <1>3 DEF GrantApproval, TypeOK, RequestStep
  <1>4. ASSUME NEW a \in Approval, ExpireApproval(a)
        PROVE  Goal
    BY <1>4 DEF ExpireApproval, TypeOK, RequestStep
  <1>5. ASSUME NEW e \in Evaluation, Consume(e)
        PROVE  Goal
    BY <1>5 DEF Consume, TypeOK, RequestStep, Authorised
  <1>6. CASE Crash
    BY <1>6 DEF Crash, TypeOK, RequestStep, Unused, Request
  <1> HIDE DEF Goal
  <1>7. CASE StoreStep
    BY <1>2, <1>3, <1>4, <1>7 DEF StoreStep, Goal
  <1>8. CASE HumanStep
    BY <1>1, <1>8, HumanIsQuiet
  <1> QED
    BY <1>1, <1>5, <1>6, <1>7, <1>8, StepsConsume DEF Next, Goal

LEMMA StoreType ==
  ASSUME TypeOK, Authorised, Next
  PROVE  store' \in [Approval -> Request \cup {Unused}]
  <1> SUFFICES ASSUME NEW a \in Approval
               PROVE  store'[a] \in Request \cup {Unused}
    BY StoreSteps
  <1>1. RequestStep(a) /\ store[a] \in Request \cup {Unused}
    BY StoreSteps DEF TypeOK
  <1> QED
    <2>1. CASE store'[a] = store[a]
      BY <1>1, <2>1
    <2>2. ASSUME NEW about \in Known, NEW by \in Operator,
                 store'[a] = [state |-> "held", about |-> about, by |-> by,
                              grants |-> 0, grantedBy |-> {}]
          PROVE  store'[a] \in Request
      BY <2>2, PolicyAssumption DEF Request
    <2>3. CASE store[a].state # "unused"
      <3>1. store[a] \in Request
        BY <1>1, <2>3 DEF Unused
      <3>2. ASSUME NEW op \in Operator,
                   store'[a] = [state |-> "held", about |-> store[a].about,
                                by |-> store[a].by, grants |-> store[a].grants + 1,
                                grantedBy |-> store[a].grantedBy \cup {op}]
            PROVE  store'[a] \in Request
        BY <3>1, <3>2 DEF Request
      <3>3. ASSUME NEW to \in {"expired", "gone"},
                   store'[a] = [store[a] EXCEPT !.state = to]
            PROVE  store'[a] \in Request
        BY <3>1, <3>3 DEF Request
      <3> QED
        BY <1>1, <2>1, <2>3, <3>2, <3>3 DEF RequestStep
    <2> QED
      BY <1>1, <2>1, <2>2, <2>3 DEF RequestStep

LEMMA NextObserves ==
  ASSUME Next
  PROVE  Observe
  BY HumanIsQuiet, StoreIsQuiet, StepsObserve DEF Next, Quiet, Crash

LEMMA SharedStep ==
  ASSUME TypeOK, Authorised, Next
  PROVE  SharedTypes'
  <1>1. /\ store' \in [Approval -> Request \cup {Unused}]
        /\ cleared' \in [Evaluation -> SUBSET Clearance]
    BY StoreType, NextObserves, Observed
  <1>2. CASE HumanStep
    <2>1. UNCHANGED <<spent, faults>>
      BY <1>2, HumanIsQuiet DEF Quiet
    <2>2. CASE LeaseChanges
      <3>1. holder' \in Session \cup {NoSession}
        BY <2>2 DEF LeaseChanges, Executor!SENext, Executor!Claim, Executor!Vacate
      <3> QED
        BY <1>1, <2>1, <2>2, <3>1 DEF LeaseChanges, TypeOK, SharedTypes
    <2>3. CASE Pause
      BY <1>1, <2>1, <2>3 DEF Pause, TypeOK, SharedTypes
    <2>4. CASE SetAuthority
      <3>1. authority' \in [enabled : BOOLEAN, pin : Operator \cup {NoOperator}]
        <4>1. {ActorOf[s] : s \in Session} \subseteq Operator
          BY EngineAssumption
        <4>2. /\ authority' = [enabled |-> authority'.enabled,
                               pin |-> authority'.pin]
              /\ authority'.enabled \in BOOLEAN
              /\ authority'.pin \in {ActorOf[s] : s \in Session} \cup {NoOperator}
          BY <2>4 DEF SetAuthority
        <4>3. authority'.pin \in Operator \cup {NoOperator}
          BY <4>1, <4>2
        <4> QED
          BY <4>2, <4>3
      <3> QED
        BY <1>1, <2>1, <2>4, <3>1 DEF SetAuthority, TypeOK, SharedTypes
    <2>5. ASSUME NEW s \in Session, BeginResume(s) \/ Resume(s)
          PROVE  SharedTypes'
      BY <1>1, <2>1, <2>5 DEF BeginResume, Resume, TypeOK, SharedTypes
    <2> QED
      BY <1>2, <2>2, <2>3, <2>4, <2>5 DEF HumanStep
  <1>3. CASE StoreStep
    BY <1>1, <1>3, StoreIsQuiet DEF Quiet, humanVars, TypeOK, SharedTypes
  <1>4. CASE Crash
    <2>1. faults' \in 0..MaxFaults
      BY <1>4, EngineAssumption DEF Crash, Fault, TypeOK
    <2>2. resuming' \in SUBSET Session
      BY <1>4 DEF Crash, TypeOK
    <2> QED
      BY <1>1, <1>4, <2>1, <2>2 DEF Crash, TypeOK, SharedTypes
  <1>5. ASSUME NEW e \in Evaluation, EvaluationStep(e)
        PROVE  SharedTypes'
    <2>1. UNCHANGED humanVars
      BY <1>5
      DEF EvaluationStep, CheckAuthority, CheckLease, CheckGate, ExecuteUnit,
          ExecuteFails, AuditFailure, AuditDone, ConsumeAndReturn, ReturnFailure,
          EvaluationRaises, BeginEvaluation
    <2>2. spent' \in SUBSET Approval
      BY <1>5
      DEF EvaluationStep, CheckAuthority, CheckLease, CheckGate, Proceed,
          ExecuteUnit, ExecuteFails, AuditFailure, AuditDone, ConsumeAndReturn,
          ReturnFailure, EvaluationRaises, BeginEvaluation, TypeOK
    <2>3. faults' \in 0..MaxFaults
      <3>1. UNCHANGED faults \/ Fault
        BY <1>5
        DEF EvaluationStep, CheckAuthority, CheckLease, CheckGate, ExecuteUnit,
            ExecuteFails, AuditFailure, AuditDone, ConsumeAndReturn, ReturnFailure,
            EvaluationRaises, BeginEvaluation
      <3> QED
        BY <3>1, EngineAssumption DEF Fault, TypeOK
    <2> QED
      BY <1>1, <2>1, <2>2, <2>3 DEF humanVars, TypeOK, SharedTypes
  <1> QED
    BY <1>2, <1>3, <1>4, <1>5 DEF Next

LEMMA CallStep ==
  ASSUME TypeOK, Underway, NEW e \in Evaluation, EvaluationStep(e)
  PROVE  CallTypes'
  <1> USE DEF Step, callVars, workVars
  <1>1. CallTypes
    BY TypeHalves
  <1>2. ASSUME Leave(e) PROVE CallTypes'
    BY <1>1, <1>2, LeaveTypes
  <1>3. CASE CheckAuthority(e)
    <2>1. CASE authority.enabled
      BY <1>1, <1>3, <2>1 DEF CheckAuthority, TypeOK, CallTypes
    <2> QED
      BY <1>2, <1>3, <2>1 DEF CheckAuthority
  <1>4. CASE CheckLease(e)
    <2>1. CASE MayAct(e)
      BY <1>1, <1>4, <2>1 DEF CheckLease, CallTypes
    <2> QED
      BY <1>2, <1>4, <2>1 DEF CheckLease
  <1>5. CASE CheckGate(e)
    <2>1. act[e] \in Action
      BY <1>5, PolicyAssumption DEF CheckGate, Underway
    <2>2. ASSUME NEW a \in Approval \cup {NoApproval}, Proceed(e, a),
                 UNCHANGED <<humanVars, store, faults>>
          PROVE  CallTypes'
      BY <1>1, <2>1, <2>2, EngineAssumption DEF Proceed, CallTypes
    <2> QED
      BY <1>2, <1>5, <2>2 DEF CheckGate, ActiveFor
  <1>6. CASE ExecuteUnit(e)
    <2>1. left' \in [Evaluation -> Nat]
      BY <1>1, <1>6 DEF ExecuteUnit, Underway, CallTypes
    <2>2. moved' \in [Evaluation -> BOOLEAN]
      BY <1>1, <1>6 DEF ExecuteUnit, CallTypes
    <2> QED
      BY <1>1, <1>6, <2>1, <2>2 DEF ExecuteUnit, CallTypes
  <1>7. CASE ExecuteFails(e)
    <2>1. moved' \in [Evaluation -> BOOLEAN]
      BY <1>1, <1>7, Zenon DEF ExecuteFails, CallTypes
    <2> QED
      BY <1>1, <1>7, <2>1 DEF ExecuteFails, CallTypes
  <1>8. CASE AuditFailure(e) \/ AuditDone(e)
    BY <1>1, <1>8 DEF AuditFailure, AuditDone, CallTypes
  <1>9. CASE ConsumeAndReturn(e) \/ ReturnFailure(e) \/ EvaluationRaises(e)
    BY <1>2, <1>9 DEF ConsumeAndReturn, ReturnFailure, EvaluationRaises
  <1>10. CASE \E a \in Action, s \in Local : BeginEvaluation(e, a, s)
    BY <1>1, <1>10, EngineAssumption DEF BeginEvaluation, CallTypes
  <1> QED
    BY <1>3, <1>4, <1>5, <1>6, <1>7, <1>8, <1>9, <1>10 DEF EvaluationStep

LEMMA TypeStep ==
  ASSUME GateInv, Next
  PROVE  TypeOK'
  <1>1. SharedTypes'
    BY SharedStep DEF GateInv
  <1>2. CASE HumanStep \/ StoreStep
    <2>1. UNCHANGED <<pc, callVars, workVars>>
      BY <1>2, HumanIsQuiet, StoreIsQuiet DEF Quiet
    <2> QED
      BY <1>1, <2>1, TypeHalves, TypeHalvesPrime
      DEF GateInv, CallTypes, callVars, workVars
  <1>3. CASE Crash
    BY <1>1, <1>3, TypeHalvesPrime DEF Crash, CallTypes
  <1>4. ASSUME NEW e \in Evaluation, EvaluationStep(e)
        PROVE  TypeOK'
    BY <1>1, <1>4, CallStep, TypeHalvesPrime DEF GateInv
  <1> QED
    BY <1>2, <1>3, <1>4 DEF Next

-----------------------------------------------------------------------------
(* Each part of the invariant is kept.                                     *)

\* What a step leaves of an evaluation f it does not belong to: all, or (a crash)
\* nothing.
Over(f) ==
  pc'[f] = "idle" /\ act'[f] = NoAction /\ appr'[f] = NoApproval /\ ~moved'[f]

LEMMA Apart ==
  ASSUME TypeOK, Next, NEW f \in Evaluation, ~EvaluationStep(f)
  PROVE  Same(f) \/ Over(f)
  <1>1. CASE HumanStep \/ StoreStep
    BY <1>1, HumanIsQuiet, StoreIsQuiet DEF Quiet, Same, callVars, workVars
  <1>2. CASE Crash
    BY <1>2 DEF Crash, Over
  <1>3. ASSUME NEW e \in Evaluation, EvaluationStep(e)
        PROVE  Same(f)
    BY <1>3, OthersAreSame
  <1> QED
    BY <1>1, <1>2, <1>3 DEF Next

\* An evaluation that leaves is over.
LEMMA LeaveIsOver ==
  ASSUME TypeOK, NEW e \in Evaluation, Leave(e)
  PROVE  Over(e)
  BY DEF TypeOK, Leave, Over

LEMMA KeepsUnderway ==
  ASSUME GateInv, Next
  PROVE  Underway'
  <1> SUFFICES ASSUME NEW e \in Evaluation
               PROVE  /\ pc'[e] # "idle" => act'[e] \in Known /\ ses'[e] \in Local
                      /\ pc'[e] = "execute" => left'[e] # 0
                      /\ pc'[e] = "idle" => appr'[e] = NoApproval
    BY DEF Underway
  <1>1. CASE ~EvaluationStep(e)
    BY <1>1, Apart DEF GateInv, Underway, Same, Over
  <1>2. CASE EvaluationStep(e)
    <2> USE DEF GateInv, TypeOK, Underway, Step, callVars, workVars
    <2>1. CASE Leave(e)
      BY <2>1, LeaveIsOver DEF Over
    <2>2. CASE CheckAuthority(e) \/ CheckLease(e)
      BY <2>1, <2>2 DEF CheckAuthority, CheckLease
    <2>3. CASE CheckGate(e)
      <3>1. Units[act[e]] # 0
        BY <2>3, EngineAssumption, PolicyAssumption DEF CheckGate
      <3> QED
        BY <2>1, <2>3, <3>1 DEF CheckGate, Proceed
    <2>4. CASE ExecuteUnit(e)
      BY <2>4 DEF ExecuteUnit
    <2>5. CASE ExecuteFails(e) \/ AuditFailure(e) \/ AuditDone(e)
      BY <2>5 DEF ExecuteFails, AuditFailure, AuditDone
    <2>6. CASE ConsumeAndReturn(e) \/ ReturnFailure(e) \/ EvaluationRaises(e)
      BY <2>1, <2>6 DEF ConsumeAndReturn, ReturnFailure, EvaluationRaises
    <2>7. CASE \E a \in Action, s \in Local : BeginEvaluation(e, a, s)
      BY <2>7 DEF BeginEvaluation
    <2> QED
      BY <1>2, <2>2, <2>3, <2>4, <2>5, <2>6, <2>7 DEF EvaluationStep
  <1> QED
    BY <1>1, <1>2

LEMMA KeepsCleared ==
  ASSUME GateInv, Next
  PROVE  ClearedSoFar'
  <1> SUFFICES
        ASSUME NEW e \in Evaluation
        PROVE  /\ pc'[e] \in Gauntlet \cup {"execute"} => "unpaused" \in cleared'[e]
               /\ pc'[e] \in {"lease", "gate", "execute"} =>
                    /\ "enabled" \in cleared'[e]
                    /\ pin'[e] \in {NoOperator, ActorOf[ses'[e]]} =>
                         "pinned" \in cleared'[e]
               /\ pc'[e] \in {"gate", "execute"} => cleared'[e] = Clearance
    BY DEF ClearedSoFar
  <1> USE DEF GateInv, ClearedSoFar
  <1>1. /\ cleared'[e] \subseteq Clearance
        /\ pc'[e] \in Gauntlet \cup {"execute"} => cleared[e] \subseteq cleared'[e]
        /\ pc'[e] \in Gauntlet => InForce(e)' \subseteq cleared'[e]
    BY NextObserves, Observed
  <1>2. CASE ~EvaluationStep(e)
    BY <1>1, <1>2, Apart DEF Same, Over, Gauntlet
  <1>3. CASE EvaluationStep(e)
    <2> USE DEF TypeOK, Step, callVars, workVars, humanVars
    <2>1. CASE Leave(e)
      BY <2>1, LeaveIsOver DEF Over, Gauntlet
    <2>2. CASE \E a \in Action, s \in Local : BeginEvaluation(e, a, s)
      <3>1. pc'[e] = "authority" /\ "unpaused" \in InForce(e)'
        BY <2>2 DEF BeginEvaluation, InForce, Clearance
      <3> QED
        BY <1>1, <3>1 DEF Gauntlet
    <2>3. CASE CheckAuthority(e)
      <3>1. CASE authority.enabled
        <4>1. /\ pc[e] = "authority" /\ pc'[e] = "lease"
              /\ pin'[e] = authority.pin
              /\ ses'[e] = ses[e] /\ ses[e] \in Session
              /\ UNCHANGED humanVars
          BY <2>3, <3>1, EngineAssumption DEF CheckAuthority, Underway
        <4>2. "enabled" \in InForce(e)'
          BY <3>1, <4>1 DEF InForce, Clearance
        <4>3. pin'[e] \in {NoOperator, ActorOf[ses'[e]]} => "pinned" \in InForce(e)'
          BY <4>1 DEF InForce, Clearance
        <4> QED
          BY <1>1, <4>1, <4>2, <4>3 DEF Gauntlet
      <3> QED
        BY <2>1, <2>3, <3>1 DEF CheckAuthority
    <2>4. CASE CheckLease(e)
      <3>1. CASE MayAct(e)
        <4>1. /\ pc[e] = "lease" /\ pc'[e] = "gate"
              /\ pin'[e] = pin[e] /\ ses'[e] = ses[e]
              /\ UNCHANGED humanVars
          BY <2>4, <3>1 DEF CheckLease
        <4>2. "executor" \in InForce(e)'
          BY <3>1, <4>1 DEF MayAct, InForce, Clearance
        <4>3. {"unpaused", "enabled", "pinned"} \subseteq cleared[e]
          BY <3>1, <4>1 DEF MayAct, Gauntlet
        <4>4. cleared'[e] = Clearance
          BY <1>1, <4>1, <4>2, <4>3 DEF Gauntlet, Clearance
        <4> QED
          BY <4>1, <4>4 DEF Clearance
      <3> QED
        BY <2>1, <2>4, <3>1 DEF CheckLease
    <2>5. CASE CheckGate(e)
      <3>1. pc[e] = "gate" /\ (Leave(e) \/ pc'[e] \in {"execute", "audit"})
        BY <2>5 DEF CheckGate, Proceed
      <3> QED
        BY <1>1, <2>1, <3>1 DEF Clearance, Gauntlet
    <2>6. CASE ExecuteUnit(e)
      <3>1. pc[e] = "execute" /\ pc'[e] \in {"execute", "audit"}
        BY <2>6 DEF ExecuteUnit
      <3> QED
        BY <1>1, <3>1 DEF Clearance, Gauntlet
    <2>7. CASE ExecuteFails(e) \/ AuditFailure(e) \/ AuditDone(e)
      <3>1. pc'[e] \in {"failed", "return", "consume"}
        BY <2>7 DEF ExecuteFails, AuditFailure, AuditDone
      <3> QED
        BY <3>1 DEF Gauntlet
    <2>8. CASE ConsumeAndReturn(e) \/ ReturnFailure(e) \/ EvaluationRaises(e)
      BY <2>1, <2>8 DEF ConsumeAndReturn, ReturnFailure, EvaluationRaises
    <2> QED
      BY <1>3, <2>2, <2>3, <2>4, <2>5, <2>6, <2>7, <2>8 DEF EvaluationStep
  <1> QED
    BY <1>2, <1>3

LEMMA KeepsCounts ==
  ASSUME GateInv, Next
  PROVE  GrantsCounted'
  <1> SUFFICES
        ASSUME NEW a \in Approval, store'[a].state # "unused"
        PROVE  /\ IsFiniteSet(store'[a].grantedBy)
               /\ Cardinality(store'[a].grantedBy) = store'[a].grants
               /\ store'[a].about \in TwoPerson =>
                    store'[a].by \notin store'[a].grantedBy
    BY DEF GrantsCounted
  <1> USE DEF GateInv
  <1>1. RequestStep(a)
    BY StoreSteps
  <1>2. CASE store'[a] = store[a]
    BY <1>2 DEF GrantsCounted
  <1>3. ASSUME NEW about \in Known, NEW by \in Operator,
               store'[a] = [state |-> "held", about |-> about, by |-> by,
                            grants |-> 0, grantedBy |-> {}]
        PROVE  /\ IsFiniteSet(store'[a].grantedBy)
               /\ Cardinality(store'[a].grantedBy) = store'[a].grants
               /\ store'[a].by \notin store'[a].grantedBy
    BY <1>3, FS_EmptySet
  <1>4. CASE store[a].state # "unused"
    <2>1. /\ store[a] \in Request
          /\ IsFiniteSet(store[a].grantedBy)
          /\ Cardinality(store[a].grantedBy) = store[a].grants
          /\ store[a].about \in TwoPerson => store[a].by \notin store[a].grantedBy
      BY <1>4 DEF GrantsCounted, TypeOK, Unused
    <2>2. ASSUME NEW op \in Operator, MayGrant(a, op),
                 store'[a] = [state |-> "held", about |-> store[a].about,
                              by |-> store[a].by, grants |-> store[a].grants + 1,
                              grantedBy |-> store[a].grantedBy \cup {op}]
          PROVE  /\ IsFiniteSet(store'[a].grantedBy)
                 /\ Cardinality(store'[a].grantedBy) = store'[a].grants
                 /\ store'[a].about \in TwoPerson =>
                      store'[a].by \notin store'[a].grantedBy
      <3>1. op \notin store[a].grantedBy
        BY <2>2 DEF MayGrant
      <3>2. /\ IsFiniteSet(store[a].grantedBy \cup {op})
            /\ Cardinality(store[a].grantedBy \cup {op}) = store[a].grants + 1
        BY <2>1, <3>1, FS_AddElement
      <3>3. store[a].about \in TwoPerson =>
              store[a].by \notin store[a].grantedBy \cup {op}
        BY <2>1, <2>2 DEF MayGrant
      <3> QED
        BY <2>2, <3>2, <3>3
    <2>3. ASSUME NEW to \in {"expired", "gone"},
                 store'[a] = [store[a] EXCEPT !.state = to]
          PROVE  /\ store'[a].grantedBy = store[a].grantedBy
                 /\ store'[a].grants = store[a].grants
                 /\ store'[a].about = store[a].about /\ store'[a].by = store[a].by
      BY <2>1, <2>3 DEF Request
    <2> QED
      BY <1>1, <1>2, <1>4, <2>1, <2>2, <2>3 DEF RequestStep
  <1> QED
    BY <1>1, <1>2, <1>3, <1>4 DEF RequestStep

\* A request made stays made, about the same action and by the same person; its
\* grants are never taken back, and one that is gone stays gone.
LEMMA RequestsStay ==
  ASSUME GateInv, Next, NEW a \in Approval, store[a].state # "unused"
  PROVE  /\ store'[a].state # "unused"
         /\ store'[a].about = store[a].about
         /\ store'[a].grants \in Nat /\ store'[a].grants >= store[a].grants
         /\ store[a].state = "gone" => store'[a].state = "gone"
  <1>1. store[a] \in Request /\ RequestStep(a)
    BY StoreSteps DEF GateInv, TypeOK, Unused
  <1>2. store[a].grants \in Nat
    BY <1>1 DEF Request
  <1>3. ASSUME NEW to \in {"expired", "gone"},
               store'[a] = [store[a] EXCEPT !.state = to]
        PROVE  /\ store'[a].grants = store[a].grants
               /\ store'[a].about = store[a].about /\ store'[a].state = to
    BY <1>1, <1>3 DEF Request
  <1>4. CASE store'[a] = store[a]
    BY <1>2, <1>4
  <1>5. ASSUME NEW op \in Operator, store[a].state = "held",
               store'[a] = [state |-> "held", about |-> store[a].about,
                            by |-> store[a].by, grants |-> store[a].grants + 1,
                            grantedBy |-> store[a].grantedBy \cup {op}]
        PROVE  /\ store'[a].state = "held"
               /\ store'[a].about = store[a].about
               /\ store'[a].grants = store[a].grants + 1
    BY <1>5
  <1>6. \/ store'[a] = store[a]
        \/ /\ store[a].state = "held"
           /\ \E op \in Operator :
                store'[a] = [state |-> "held", about |-> store[a].about,
                             by |-> store[a].by, grants |-> store[a].grants + 1,
                             grantedBy |-> store[a].grantedBy \cup {op}]
        \/ store[a].state = "held" /\ store'[a] = [store[a] EXCEPT !.state = "expired"]
        \/ store'[a] = [store[a] EXCEPT !.state = "gone"]
    BY <1>1 DEF RequestStep
  <1>7. \/ store'[a] = store[a]
        \/ /\ store[a].state = "held" /\ store'[a].state \in {"held", "expired"}
           /\ store'[a].about = store[a].about
           /\ store'[a].grants \in {store[a].grants, store[a].grants + 1}
        \/ /\ store'[a].state = "gone" /\ store'[a].about = store[a].about
           /\ store'[a].grants = store[a].grants
    BY <1>3, <1>5, <1>6, Zenon
  <1> QED
    BY <1>2, <1>7

LEMMA KeepsAuthorised ==
  ASSUME GateInv, Next
  PROVE  Authorised'
  <1> SUFFICES
        ASSUME NEW e \in Evaluation
        PROVE  /\ appr'[e] # NoApproval =>
                    /\ store'[appr'[e]].state # "unused"
                    /\ store'[appr'[e]].about = act'[e]
                    /\ store'[appr'[e]].grants >= RequiredApprovers(act'[e])
               /\ pc'[e] = "execute" =>
                    /\ GateFor(act'[e]) # "forbidden"
                    /\ GateFor(act'[e]) = "approval" => appr'[e] # NoApproval
    BY DEF Authorised
  <1> DEFINE Holds(a, x) == /\ a \in Approval
                            /\ store[a].state # "unused"
                            /\ store[a].about = x
                            /\ store[a].grants >= RequiredApprovers(x)
  <1>1. ASSUME NEW a, NEW x, Holds(a, x)
        PROVE  /\ store'[a].state # "unused"
               /\ store'[a].about = x
               /\ store'[a].grants >= RequiredApprovers(x)
    <2>1. store[a].grants \in Nat
      BY <1>1 DEF GateInv, TypeOK, Request, Unused
    <2> QED
      BY <1>1, <2>1, RequestsStay DEF RequiredApprovers
  <1>2. appr[e] # NoApproval => Holds(appr[e], act[e])
    BY DEF GateInv, TypeOK, Authorised
  <1> HIDE DEF Holds
  <1> USE DEF GateInv
  <1>3. CASE /\ appr'[e] = appr[e] /\ act'[e] = act[e]
             /\ pc'[e] = "execute" => pc[e] = "execute"
    BY <1>1, <1>2, <1>3 DEF Authorised
  <1>4. CASE Over(e)
    BY <1>4 DEF Over
  <1>5. CASE ~EvaluationStep(e)
    BY <1>3, <1>4, <1>5, Apart DEF Same
  <1>6. CASE EvaluationStep(e)
    <2> USE DEF TypeOK, Step, callVars, workVars
    <2>1. CASE Leave(e)
      BY <1>4, <2>1, LeaveIsOver
    <2>2. CASE CheckGate(e)
      <3>1. CASE Proceed(e, NoApproval) /\ GateFor(act[e]) \notin {"forbidden", "approval"}
        BY <3>1 DEF Proceed
      <3>2. ASSUME NEW a \in ActiveFor(act[e]), Proceed(e, a)
            PROVE  Holds(a, act[e]) /\ appr'[e] = a /\ act'[e] = act[e]
        BY <3>2 DEF Proceed, ActiveFor, IsSatisfied, Holds
      <3>3. \A a \in ActiveFor(act[e]) : a # NoApproval
        BY EngineAssumption DEF ActiveFor
      <3> QED
        BY <1>1, <2>1, <2>2, <3>1, <3>2, <3>3 DEF CheckGate
    <2>3. CASE CheckAuthority(e) \/ CheckLease(e)
      BY <1>3, <2>1, <2>3 DEF CheckAuthority, CheckLease
    <2>4. CASE \E a \in Action, s \in Local : BeginEvaluation(e, a, s)
      <3>1. appr'[e] = appr[e] /\ pc'[e] = "authority" /\ pc[e] = "idle"
        BY <2>4 DEF BeginEvaluation
      <3>2. appr[e] = NoApproval
        BY <3>1 DEF Underway
      <3> QED
        BY <3>1, <3>2
    <2>5. CASE ExecuteUnit(e) \/ ExecuteFails(e) \/ AuditFailure(e) \/ AuditDone(e)
      BY <1>3, <2>5 DEF ExecuteUnit, ExecuteFails, AuditFailure, AuditDone
    <2>6. CASE ConsumeAndReturn(e) \/ ReturnFailure(e) \/ EvaluationRaises(e)
      BY <2>1, <2>6 DEF ConsumeAndReturn, ReturnFailure, EvaluationRaises
    <2> QED
      BY <1>6, <2>2, <2>3, <2>4, <2>5, <2>6 DEF EvaluationStep
  <1> QED
    BY <1>5, <1>6

LEMMA KeepsRecorded ==
  ASSUME GateInv, Next
  PROVE  Recorded'
  <1> SUFFICES
        ASSUME NEW e \in Evaluation
        PROVE  /\ pc'[e] = "execute" => ExecutesLive(act'[e])
               /\ moved'[e] =>
                    /\ pc'[e] \in {"execute", "failed", "audit", "consume", "return"}
                    /\ ExecutesLive(act'[e])
               /\ pc'[e] = "consume" /\ ExecutesLive(act'[e]) => row'[e] = "live"
               /\ pc'[e] = "return" => row'[e] = "live"
    BY DEF Recorded, ExecutesLive
  <1> USE DEF GateInv, TypeOK, Step, callVars, workVars
  <1>1. CASE Over(e)
    BY <1>1 DEF Over
  <1>2. CASE ~EvaluationStep(e)
    BY <1>1, <1>2, Apart DEF Same, Recorded
  <1>3. CASE EvaluationStep(e)
    <2>1. CASE Leave(e)
      BY <1>1, <2>1, LeaveIsOver
    <2>2. CASE CheckAuthority(e) \/ CheckLease(e)
      <3>1. Leave(e) \/ (/\ pc[e] \in Gauntlet /\ pc'[e] \in Gauntlet
                         /\ moved'[e] = moved[e])
        BY <2>2 DEF CheckAuthority, CheckLease, Gauntlet
      <3> QED
        BY <2>1, <3>1 DEF Recorded, Gauntlet
    <2>3. CASE CheckGate(e)
      <3>1. \/ Leave(e)
            \/ /\ pc[e] = "gate" /\ moved'[e] = moved[e] /\ act'[e] = act[e]
               /\ \/ pc'[e] = "execute" /\ ExecutesLive(act[e])
                  \/ pc'[e] = "audit"
        BY <2>3 DEF CheckGate, Proceed
      <3> QED
        BY <2>1, <3>1 DEF Recorded
    <2>4. CASE ExecuteUnit(e) \/ ExecuteFails(e)
      <3>1. /\ pc[e] = "execute" /\ act'[e] = act[e]
            /\ pc'[e] \in {"execute", "audit", "failed"}
        BY <2>4 DEF ExecuteUnit, ExecuteFails
      <3> QED
        BY <3>1 DEF Recorded
    <2>5. CASE AuditFailure(e) \/ AuditDone(e)
      BY <2>5 DEF AuditFailure, AuditDone, Recorded
    <2>6. CASE ConsumeAndReturn(e) \/ ReturnFailure(e) \/ EvaluationRaises(e)
      BY <2>1, <2>6 DEF ConsumeAndReturn, ReturnFailure, EvaluationRaises
    <2>7. CASE \E a \in Action, s \in Local : BeginEvaluation(e, a, s)
      <3>1. pc[e] = "idle" /\ pc'[e] = "authority" /\ moved'[e] = moved[e]
        BY <2>7 DEF BeginEvaluation
      <3> QED
        BY <3>1 DEF Recorded
    <2> QED
      BY <1>3, <2>2, <2>3, <2>4, <2>5, <2>6, <2>7 DEF EvaluationStep
  <1> QED
    BY <1>2, <1>3

\* What is spent was consumed in the step that spent it, and nothing brings it back.
LEMMA KeepsSpent ==
  ASSUME GateInv, Next
  PROVE  SpentIsGone'
  <1> SUFFICES ASSUME NEW a \in spent'
               PROVE  store'[a].state = "gone"
    BY DEF SpentIsGone
  <1>1. CASE a \in spent
    <2>1. a \in Approval /\ store[a].state = "gone"
      BY <1>1 DEF GateInv, TypeOK, SpentIsGone
    <2> QED
      BY <2>1, RequestsStay
  <1>2. CASE a \notin spent
    <2>1. spent' # spent
      BY <1>2
    <2>2. PICK e \in Evaluation : ConsumeAndReturn(e)
      <3>1. PICK e \in Evaluation : EvaluationStep(e)
        BY <2>1, HumanIsQuiet, StoreIsQuiet DEF Next, Quiet, Crash
      <3>2. ConsumeAndReturn(e)
        BY <2>1, <3>1
        DEF EvaluationStep, CheckAuthority, CheckLease, CheckGate, Proceed,
            ExecuteUnit, ExecuteFails, AuditFailure, AuditDone, ReturnFailure,
            EvaluationRaises, BeginEvaluation
      <3> QED
        BY <3>2
    <2>3. a = appr[e] /\ a # NoApproval /\ a \in Approval
      BY <1>2, <2>2 DEF ConsumeAndReturn, GateInv, TypeOK
    <2>4. store[a] \in Request
      BY <2>3 DEF GateInv, TypeOK, Authorised, Unused
    <2>5. store'[a] = [store[a] EXCEPT !.state = "gone"]
      BY <2>2, <2>3 DEF ConsumeAndReturn, Consume, GateInv, TypeOK
    <2> QED
      BY <2>4, <2>5 DEF Request
  <1> QED
    BY <1>1, <1>2

LEMMA InitInv == Init => GateInv
  <1> SUFFICES ASSUME Init PROVE GateInv
    OBVIOUS
  <1>1. TypeOK
    BY InitType
  <1>2. Underway /\ ClearedSoFar
    BY DEF Init, Underway, ClearedSoFar, Gauntlet
  <1>3. GrantsCounted /\ Authorised /\ SpentIsGone
    BY EngineAssumption DEF Init, Unused, GrantsCounted, Authorised, SpentIsGone
  <1>4. Recorded
    BY DEF Init, Recorded
  <1> QED
    BY <1>1, <1>2, <1>3, <1>4 DEF GateInv

LEMMA StutterInv ==
  ASSUME GateInv, UNCHANGED vars
  PROVE  GateInv'
  <1> USE DEF vars, humanVars, callVars, workVars
  <1>1. TypeOK' /\ Underway' /\ SpentIsGone'
    BY DEF GateInv, TypeOK, Underway, SpentIsGone
  <1>2. ClearedSoFar' /\ GrantsCounted' /\ Authorised'
    BY DEF GateInv, ClearedSoFar, GrantsCounted, Authorised
  <1>3. Recorded'
    BY DEF GateInv, Recorded, ExecutesLive
  <1> QED
    BY <1>1, <1>2, <1>3 DEF GateInv

LEMMA Inductive == Spec => []GateInv
  <1>1. GateInv /\ [Next]_vars => GateInv'
    BY TypeStep, KeepsUnderway, KeepsCleared, KeepsCounts, KeepsAuthorised,
       KeepsRecorded, KeepsSpent, StutterInv DEF GateInv
  <1> QED
    BY <1>1, InitInv, PTL DEF Spec

-----------------------------------------------------------------------------
(* The theorems.                                                           *)

\* Every variable keeps its type, whatever people, approvals and evaluations do.
THEOREM EngineType == Spec => []TypeOK
  <1>1. GateInv => TypeOK
    BY DEF GateInv
  <1> QED
    BY <1>1, Inductive, PTL

\* Nothing executes without having passed each check of the gauntlet after its call
\* began, for any number of sessions and evaluations (engine.py:175-200).
THEOREM Clearances == Spec => []ClearedToAct
  <1>1. GateInv => ClearedToAct
    BY DEF GateInv, ClearedSoFar, ClearedToAct
  <1> QED
    BY <1>1, Inductive, PTL

\* Nothing behind the approval gate executes without a request for that very action
\* with enough different grantors (approvals.py:7-11, engine.py:202-217).
THEOREM Approvals == Spec => []ApprovedToAct
  <1>1. ASSUME GateInv, NEW e \in Evaluation,
               pc[e] = "execute", GateFor(act[e]) = "approval"
        PROVE  /\ appr[e] # NoApproval
               /\ store[appr[e]].about = act[e]
               /\ Cardinality(store[appr[e]].grantedBy) >= RequiredApprovers(act[e])
               /\ act[e] \in TwoPerson =>
                    store[appr[e]].by \notin store[appr[e]].grantedBy
    <2>1. /\ appr[e] # NoApproval /\ appr[e] \in Approval
          /\ store[appr[e]].state # "unused"
          /\ store[appr[e]].about = act[e]
          /\ store[appr[e]].grants >= RequiredApprovers(act[e])
      BY <1>1 DEF GateInv, Authorised, TypeOK
    <2> QED
      BY <1>1, <2>1 DEF GateInv, GrantsCounted
  <1>2. GateInv => ApprovedToAct
    BY <1>1 DEF ApprovedToAct
  <1> QED
    BY <1>2, Inductive, PTL

\* Whatever executes has a target that lets it, with an approval granted if the target asks
\* for one, for any policy the loader accepts (policy.py:14-16, 80-83).
THEOREM Targets == Spec => []WithinTarget
  <1>1. ASSUME GateInv, NEW e \in Evaluation, pc[e] = "execute"
        PROVE  /\ Target[act[e]] # "forbidden"
               /\ Target[act[e]] = "approval" =>
                    /\ appr[e] # NoApproval /\ store[appr[e]].about = act[e]
                    /\ store[appr[e]].grants # 0
    <2>1. GateFor(act[e]) = Target[act[e]]
      BY <1>1 DEF GateInv, Underway, Recorded, ExecutesLive, GateFor
    <2>2. /\ Target[act[e]] # "forbidden"
          /\ Target[act[e]] = "approval" => appr[e] # NoApproval
      BY <1>1, <2>1 DEF GateInv, Authorised
    <2>3. appr[e] # NoApproval =>
            /\ store[appr[e]].about = act[e]
            /\ store[appr[e]].grants >= RequiredApprovers(act[e])
            /\ store[appr[e]] \in Request
      BY <1>1 DEF GateInv, Authorised, TypeOK, Unused
    <2>4. appr[e] # NoApproval => store[appr[e]].grants # 0
      BY <2>3 DEF RequiredApprovers, Request
    <2> QED
      BY <2>2, <2>3, <2>4
  <1>2. GateInv => WithinTarget
    BY <1>1 DEF WithinTarget
  <1> QED
    BY <1>2, Inductive, PTL

\* At every point an evaluation's clearances, approval and audit row are the ones its
\* position implies, and a request's grants are by different people.
THEOREM Knowledge == Spec => []GateKnowledge
  <1>1. GateInv => GateKnowledge
    BY DEF GateInv, GateKnowledge
  <1> QED
    BY <1>1, Inductive, PTL

\* An approval that an EXECUTED or SHADOW answer was given under is never found
\* again (engine.py:248-249, 309-310).
THEOREM SpentOnce == Spec => []SpentIsGone
  <1>1. GateInv => SpentIsGone
    BY DEF GateInv
  <1> QED
    BY <1>1, Inductive, PTL

\* Whatever changed the observatory returns with a live audit row; the one way
\* around it is a crash or an audit file that cannot be written
\* (engine.py:293-308).
THEOREM Audit == Spec => ChangeIsAudited
  <1>1. ASSUME GateInv, Next, NEW e \in Evaluation, moved[e], pc'[e] = "idle"
        PROVE  row[e] = "live" \/ faults' # faults
    <2>1. /\ pc[e] \in {"execute", "failed", "audit", "consume", "return"}
          /\ ExecutesLive(act[e])
          /\ pc[e] \in {"consume", "return"} => row[e] = "live"
      BY <1>1 DEF GateInv, Recorded
    <2>2. CASE ~EvaluationStep(e)
      <3>1. CASE Crash
        <4>1. faults' = faults + 1
          BY <3>1 DEF Crash, Fault
        <4>2. faults \in Nat
          BY <1>1, EngineAssumption DEF GateInv, TypeOK
        <4> QED
          BY <4>1, <4>2
      <3>2. CASE HumanStep \/ StoreStep
        BY <1>1, <2>1, <3>2, HumanIsQuiet, StoreIsQuiet DEF Quiet
      <3>3. ASSUME NEW f \in Evaluation, EvaluationStep(f)
            PROVE  FALSE
        BY <1>1, <2>1, <2>2, <3>3, OthersAreSame DEF Same, GateInv
      <3> QED
        BY <1>1, <3>1, <3>2, <3>3 DEF Next
    <2>3. CASE EvaluationStep(e)
      <3> USE DEF GateInv, TypeOK, Step
      <3>1. CASE EvaluationRaises(e)
        BY <3>1 DEF EvaluationRaises, Fault
      <3>2. CASE ConsumeAndReturn(e) \/ ReturnFailure(e)
        BY <2>1, <3>2 DEF ConsumeAndReturn, ReturnFailure
      <3>3. CASE ExecuteUnit(e) \/ ExecuteFails(e) \/ AuditFailure(e) \/ AuditDone(e)
        BY <1>1, <3>3 DEF ExecuteUnit, ExecuteFails, AuditFailure, AuditDone
      <3>4. pc[e] \notin Gauntlet \cup {"idle"}
        BY <2>1 DEF Gauntlet
      <3>5. ~CheckAuthority(e) /\ ~CheckLease(e) /\ ~CheckGate(e)
        BY <3>4 DEF CheckAuthority, CheckLease, CheckGate, Gauntlet
      <3>6. ~\E a \in Action, s \in Local : BeginEvaluation(e, a, s)
        BY <3>4 DEF BeginEvaluation
      <3> QED
        BY <2>3, <3>1, <3>2, <3>3, <3>5, <3>6 DEF EvaluationStep
    <2> QED
      BY <2>2, <2>3
  <1>2. ASSUME GateInv, UNCHANGED vars, NEW e \in Evaluation, moved[e], pc'[e] = "idle"
        PROVE  FALSE
    BY <1>2 DEF GateInv, Recorded, vars
  <1>3. GateInv /\ [Next]_vars =>
          [\A e \in Evaluation :
             moved[e] /\ pc'[e] = "idle" => row[e] = "live" \/ faults' # faults]_vars
    BY <1>1, <1>2
  <1> QED
    BY <1>3, Inductive, PTL DEF Spec, ChangeIsAudited
=============================================================================
