---------------------------- MODULE ControlEngine ----------------------------
(***************************************************************************)
(* The gauntlet (control/engine.py) as concurrent evaluations of one       *)
(* process run it, with the approvals it consults (control/approvals.py),  *)
(* the e-stop, the dashboard's authority key (control/authority.py) and    *)
(* the units of work the live executor does (control/executors.py).  Each  *)
(* read of shared state is a step, so everything an evaluation has checked *)
(* may change before it acts.  The lease is the one SingleExecutor         *)
(* specifies, and ExecutorLease implements.                                *)
(***************************************************************************)
EXTENDS Policy, FiniteSets

CONSTANTS
  Session,      \* every session that may hold the lease
  Local,        \* the sessions this process evaluates for
  Operator,     \* names that hold, are pinned, request and approve
  ActorOf,      \* the operator a session acts as
  Live,         \* mode is live and an executor is wired (a boolean)
  Invalid,      \* the actions whose parameters the verb refuses
  Units,        \* what executing an action takes: posts, or puts per antenna
  Evaluation,   \* slots for the evaluations in progress
  Approval,     \* approval ids: a bound on the requests made
  MaxFaults,    \* bound on failed reads, failed audit writes and crashes
  NoSession, NoOperator, NoAction, NoApproval

ASSUME EngineAssumption ==
  /\ Local \subseteq Session
  /\ ActorOf \in [Session -> Operator]
  /\ Live \in BOOLEAN
  /\ Units \in [Action -> Nat \ {0}]
  /\ MaxFaults \in Nat
  /\ NoSession \notin Session
  /\ NoOperator \notin Operator
  /\ NoAction \notin Action
  /\ NoApproval \notin Approval

VARIABLES
  holder,       \* the session that holds the lease, or NoSession
  paused,       \* /operator/control/paused
  authority,    \* what a read of the dashboard's key yields; an unreadable
                \* key yields the same as an open one
  store,        \* ApprovalStore: each request made of it
  resuming,     \* sessions whose resume has passed its lease check
  pc,           \* where each evaluation is
  act, ses,     \* the action it is about, and on whose behalf
  pin,          \* the executor pin it read
  appr,         \* the approval it found
  left,         \* units it has yet to do
  moved,        \* it has changed the observatory
  row,          \* the audit row of its execution: none, live or shadow
  cleared,      \* history: the clearances that held at some moment of it, until
                \* it has executed
  spent,        \* history: approvals under which an evaluation returned
                \* EXECUTED or SHADOW
  faults

humanVars == <<holder, paused, authority, resuming>>
callVars  == <<act, ses, pin, appr>>
workVars  == <<left, moved, row>>
vars == <<humanVars, store, pc, callVars, workVars, cleared, spent, faults>>

Executor == INSTANCE SingleExecutor

\* A request is held until it is consumed, or lost with the process: gone.
Unused == [state |-> "unused", about |-> NoAction, by |-> NoOperator,
           grants |-> 0, grantedBy |-> {}]

Request == [state : {"held", "expired", "gone"}, about : Action, by : Operator,
            grants : Nat, grantedBy : SUBSET Operator]

Clearance == {"unpaused", "enabled", "pinned", "executor"}

TypeOK ==
  /\ holder \in Session \cup {NoSession}
  /\ paused \in BOOLEAN
  /\ authority \in [enabled : BOOLEAN, pin : Operator \cup {NoOperator}]
  /\ store \in [Approval -> Request \cup {Unused}]
  /\ resuming \in SUBSET Session
  /\ pc \in [Evaluation -> {"idle", "authority", "lease", "gate", "execute",
                            "failed", "audit", "consume", "return"}]
  /\ act \in [Evaluation -> Action \cup {NoAction}]
  /\ ses \in [Evaluation -> Session \cup {NoSession}]
  /\ pin \in [Evaluation -> Operator \cup {NoOperator}]
  /\ appr \in [Evaluation -> Approval \cup {NoApproval}]
  /\ left \in [Evaluation -> Nat]
  /\ moved \in [Evaluation -> BOOLEAN]
  /\ row \in [Evaluation -> {"none", "live", "shadow"}]
  /\ cleared \in [Evaluation -> SUBSET Clearance]
  /\ spent \in SUBSET Approval
  /\ faults \in 0..MaxFaults

Init ==
  /\ holder = NoSession
  /\ paused = FALSE
  /\ authority = [enabled |-> TRUE, pin |-> NoOperator]
  /\ store = [a \in Approval |-> Unused]
  /\ resuming = {}
  /\ pc = [e \in Evaluation |-> "idle"]
  /\ act = [e \in Evaluation |-> NoAction]
  /\ ses = [e \in Evaluation |-> NoSession]
  /\ pin = [e \in Evaluation |-> NoOperator]
  /\ appr = [e \in Evaluation |-> NoApproval]
  /\ left = [e \in Evaluation |-> 0]
  /\ moved = [e \in Evaluation |-> FALSE]
  /\ row = [e \in Evaluation |-> "none"]
  /\ cleared = [e \in Evaluation |-> {}]
  /\ spent = {}
  /\ faults = 0

Fault ==
  /\ faults < MaxFaults
  /\ faults' = faults + 1

\* The clearances in force for evaluation e in the current state.
InForce(e) ==
  {c \in Clearance :
     \/ c = "unpaused" /\ ~paused
     \/ c = "enabled" /\ authority.enabled
     \/ c = "pinned" /\ \/ authority.pin = NoOperator
                        \/ ses[e] \in Session /\ authority.pin = ActorOf[ses[e]]
     \/ c = "executor" /\ holder = ses[e]}

Gauntlet == {"authority", "lease", "gate"}

\* Keeps the history variable cleared; part of every step.
Observe ==
  cleared' = [e \in Evaluation |->
                IF pc'[e] \in Gauntlet THEN cleared[e] \cup InForce(e)'
                ELSE IF pc'[e] = "execute" THEN cleared[e] ELSE {}]

-----------------------------------------------------------------------------
(* The lease, the e-stop and the dashboard.                                *)

LeaseChanges ==
  /\ Executor!SENext
  /\ UNCHANGED <<paused, authority, resuming, store, pc, callVars, workVars,
                 spent, faults>>
  /\ Observe

Pause ==
  /\ paused' = TRUE
  /\ UNCHANGED <<holder, authority, resuming, store, pc, callVars, workVars,
                 spent, faults>>
  /\ Observe

\* Only the executor may resume; the check and the write are two requests.
BeginResume(s) ==
  /\ holder = s
  /\ resuming' = resuming \cup {s}
  /\ UNCHANGED <<holder, paused, authority, store, pc, callVars, workVars,
                 spent, faults>>
  /\ Observe

Resume(s) ==
  /\ s \in resuming
  /\ resuming' = resuming \ {s}
  /\ paused' = FALSE
  /\ UNCHANGED <<holder, authority, store, pc, callVars, workVars, spent,
                 faults>>
  /\ Observe

\* A human on the dashboard writes the key; a pin on somebody without a session
\* is as good as any pin that does not match.
SetAuthority ==
  /\ authority' \in [enabled : BOOLEAN,
                     pin : {ActorOf[s] : s \in Session} \cup {NoOperator}]
  /\ UNCHANGED <<holder, paused, resuming, store, pc, callVars, workVars,
                 spent, faults>>
  /\ Observe

-----------------------------------------------------------------------------
(* ApprovalStore.  Its lock makes each method one step.                    *)

OnlyStoreChanges ==
  /\ UNCHANGED <<humanVars, pc, callVars, workVars, spent, faults>>
  /\ Observe

\* Requests about actions behind another gate are never looked up: left out.
RequestApproval(a, about, by) ==
  /\ store[a].state = "unused"
  /\ GateFor(about) = "approval"
  /\ store' = [store EXCEPT ![a] = [state |-> "held", about |-> about, by |-> by,
                                   grants |-> 0, grantedBy |-> {}]]
  /\ OnlyStoreChanges

\* Mutant: the approver is not looked up among those who already granted.
AnyoneButRequester(a, op) == store[a].about \in TwoPerson => op # store[a].by

MayGrant(a, op) ==
  /\ op \notin store[a].grantedBy
  /\ store[a].about \in TwoPerson => op # store[a].by

\* A list in the code: grants is its length, grantedBy the names in it.
GrantApproval(a, op) ==
  /\ store[a].state = "held"
  /\ MayGrant(a, op)
  /\ store' = [store EXCEPT ![a] = [state |-> "held", about |-> @.about, by |-> @.by,
                                   grants |-> @.grants + 1,
                                   grantedBy |-> @.grantedBy \cup {op}]]
  /\ OnlyStoreChanges

ExpireApproval(a) ==
  /\ store[a].state = "held"
  /\ store' = [store EXCEPT ![a].state = "expired"]
  /\ OnlyStoreChanges

\* Mutant: every action needs one approver.
OneIsEnough(a) == store[a].grants >= 1

IsSatisfied(a) == store[a].grants >= RequiredApprovers(store[a].about)

\* The approvals find_active() may return: the first of them in the store.
ActiveFor(about) ==
  {a \in Approval : /\ store[a].state = "held"
                    /\ store[a].about = about
                    /\ IsSatisfied(a)}

-----------------------------------------------------------------------------
(* The gauntlet, read by read.                                             *)

\* The evaluation is over, by a decision or an exception.
Leave(e) ==
  /\ pc' = [pc EXCEPT ![e] = "idle"]
  /\ act' = [act EXCEPT ![e] = NoAction]
  /\ ses' = [ses EXCEPT ![e] = NoSession]
  /\ pin' = [pin EXCEPT ![e] = NoOperator]
  /\ appr' = [appr EXCEPT ![e] = NoApproval]
  /\ left' = [left EXCEPT ![e] = 0]
  /\ moved' = [moved EXCEPT ![e] = FALSE]
  /\ row' = [row EXCEPT ![e] = "none"]

Step(e, from, to) ==
  /\ pc[e] = from
  /\ pc' = [pc EXCEPT ![e] = to]

\* An unknown action, or any while the e-stop is engaged, is denied at once.
BeginEvaluation(e, a, s) ==
  /\ a \in Known
  /\ ~paused
  /\ Step(e, "idle", "authority")
  /\ act' = [act EXCEPT ![e] = a]
  /\ ses' = [ses EXCEPT ![e] = s]
  /\ UNCHANGED <<humanVars, store, pin, appr, workVars, spent, faults>>
  /\ Observe

CheckAuthority(e) ==
  /\ pc[e] = "authority"
  /\ IF authority.enabled
       THEN /\ Step(e, "authority", "lease")
            /\ pin' = [pin EXCEPT ![e] = authority.pin]
            /\ UNCHANGED <<act, ses, appr, workVars>>
       ELSE Leave(e)
  /\ UNCHANGED <<humanVars, store, spent, faults>>
  /\ Observe

\* Mutant: any holder will do, not the one the call is made for.
SomeoneMayAct(e) ==
  holder # NoSession /\ pin[e] \in {NoOperator, ActorOf[holder]}

MayAct(e) ==
  /\ holder # NoSession
  /\ holder = ses[e]
  /\ pin[e] \in {NoOperator, ActorOf[holder]}

CheckLease(e) ==
  /\ pc[e] = "lease"
  /\ IF MayAct(e)
       THEN Step(e, "lease", "gate") /\ UNCHANGED <<callVars, workVars>>
       ELSE Leave(e)
  /\ UNCHANGED <<humanVars, store, spent, faults>>
  /\ Observe

ExecutesLive(a) == Live /\ a \in Promoted

\* The verb has built its plan: hand it to the executor, or render it.
Proceed(e, a) ==
  /\ appr' = [appr EXCEPT ![e] = a]
  /\ IF ExecutesLive(act[e])
       THEN /\ Step(e, "gate", "execute")
            /\ left' = [left EXCEPT ![e] = Units[act[e]]]
       ELSE /\ Step(e, "gate", "audit")
            /\ UNCHANGED left
  /\ UNCHANGED <<act, ses, pin, moved, row, spent>>

\* Whatever is neither forbidden nor behind an approval goes by itself.
CheckGate(e) ==
  LET gate == GateFor(act[e])
      found == ActiveFor(act[e])
      denied == \/ gate = "forbidden"
                \/ gate = "approval" /\ found = {}
                \/ act[e] \in Invalid
  IN /\ pc[e] = "gate"
     /\ \/ denied /\ Leave(e) /\ UNCHANGED spent
        \/ ~denied /\ gate # "approval" /\ Proceed(e, NoApproval)
        \/ ~denied /\ gate = "approval" /\ \E a \in found : Proceed(e, a)
     /\ UNCHANGED <<humanVars, store, faults>>
     /\ Observe

-----------------------------------------------------------------------------
(* Execution, audit, consumption.                                          *)

\* Mutant: one unit more than the plan has.
ExecuteUnitTooMany(e) ==
  /\ pc[e] = "execute"
  /\ moved' = [moved EXCEPT ![e] = TRUE]
  /\ left' = [left EXCEPT ![e] = @ - 1]
  /\ pc' = [pc EXCEPT ![e] = IF left[e] = 0 THEN "audit" ELSE "execute"]
  /\ UNCHANGED <<humanVars, store, callVars, row, spent, faults>>
  /\ Observe

\* One post, or one antenna's put.
ExecuteUnit(e) ==
  /\ pc[e] = "execute"
  /\ moved' = [moved EXCEPT ![e] = TRUE]
  /\ left' = [left EXCEPT ![e] = @ - 1]
  /\ pc' = [pc EXCEPT ![e] = IF left[e] = 1 THEN "audit" ELSE "execute"]
  /\ UNCHANGED <<humanVars, store, callVars, row, spent, faults>>
  /\ Observe

\* The unit raises: refused, or applied with its answer lost.
ExecuteFails(e) ==
  /\ Step(e, "execute", "failed")
  /\ \E applied \in BOOLEAN : moved' = [moved EXCEPT ![e] = @ \/ applied]
  /\ UNCHANGED <<humanVars, store, callVars, left, row, spent, faults>>
  /\ Observe

\* Mutant: the failure is returned without a row.
ReturnUnaudited(e) ==
  /\ Step(e, "failed", "return")
  /\ UNCHANGED <<humanVars, store, callVars, workVars, spent, faults>>
  /\ Observe

\* A failed execution is audited and denied; its approval stays.
AuditFailure(e) ==
  /\ Step(e, "failed", "return")
  /\ row' = [row EXCEPT ![e] = "live"]
  /\ UNCHANGED <<humanVars, store, callVars, left, moved, spent, faults>>
  /\ Observe

AuditDone(e) ==
  /\ Step(e, "audit", "consume")
  /\ row' = [row EXCEPT ![e] = IF ExecutesLive(act[e]) THEN "live" ELSE "shadow"]
  /\ UNCHANGED <<humanVars, store, callVars, left, moved, spent, faults>>
  /\ Observe

\* Mutant: only a dry run uses its approval up.
ConsumeIfShadow(e) ==
  IF appr[e] # NoApproval /\ row[e] = "shadow"
    THEN store' = [store EXCEPT ![appr[e]].state = "gone"]
    ELSE UNCHANGED store

Consume(e) ==
  IF appr[e] # NoApproval
    THEN store' = [store EXCEPT ![appr[e]].state = "gone"]
    ELSE UNCHANGED store

ConsumeAndReturn(e) ==
  /\ pc[e] = "consume"
  /\ Consume(e)
  /\ spent' = spent \cup ({appr[e]} \ {NoApproval})
  /\ Leave(e)
  /\ UNCHANGED <<humanVars, faults>>
  /\ Observe

ReturnFailure(e) ==
  /\ pc[e] = "return"
  /\ Leave(e)
  /\ UNCHANGED <<humanVars, store, spent, faults>>
  /\ Observe

-----------------------------------------------------------------------------
(* Failures.                                                               *)

\* The read of the lease raises, or the audit file cannot be written: the
\* exception leaves evaluate().
EvaluationRaises(e) ==
  /\ pc[e] \in {"lease", "failed", "audit"}
  /\ Fault
  /\ Leave(e)
  /\ UNCHANGED <<humanVars, store, spent>>
  /\ Observe

\* The process dies: evaluations and approvals are in its memory only.
Crash ==
  /\ Fault
  /\ store' = [a \in Approval |->
                 IF store[a] = Unused THEN Unused
                 ELSE [store[a] EXCEPT !.state = "gone"]]
  /\ resuming' = resuming \ Local
  /\ pc' = [e \in Evaluation |-> "idle"]
  /\ act' = [e \in Evaluation |-> NoAction]
  /\ ses' = [e \in Evaluation |-> NoSession]
  /\ pin' = [e \in Evaluation |-> NoOperator]
  /\ appr' = [e \in Evaluation |-> NoApproval]
  /\ left' = [e \in Evaluation |-> 0]
  /\ moved' = [e \in Evaluation |-> FALSE]
  /\ row' = [e \in Evaluation |-> "none"]
  /\ UNCHANGED <<holder, paused, authority, spent>>
  /\ Observe

-----------------------------------------------------------------------------
EvaluationStep(e) ==
  \/ CheckAuthority(e) \/ CheckLease(e) \/ CheckGate(e)
  \/ ExecuteUnit(e) \/ ExecuteFails(e) \/ AuditFailure(e) \/ AuditDone(e)
  \/ ConsumeAndReturn(e) \/ ReturnFailure(e) \/ EvaluationRaises(e)
  \/ \E a \in Action, s \in Local : BeginEvaluation(e, a, s)

HumanStep ==
  \/ LeaseChanges \/ Pause \/ SetAuthority
  \/ \E s \in Session : BeginResume(s) \/ Resume(s)

StoreStep ==
  \E a \in Approval :
    \/ \E about \in Known, op \in Operator : RequestApproval(a, about, op)
    \/ \E op \in Operator : GrantApproval(a, op)
    \/ ExpireApproval(a)

Next ==
  \/ HumanStep \/ StoreStep \/ Crash
  \/ \E e \in Evaluation : EvaluationStep(e)

Spec == Init /\ [][Next]_vars

-----------------------------------------------------------------------------
(* Properties.                                                             *)

\* An evaluation past its first check is about a known action and one of this
\* process's sessions, one that executes has something left to do, and a slot that is
\* idle holds no approval.
Underway ==
  \A e \in Evaluation :
    /\ pc[e] # "idle" => act[e] \in Known /\ ses[e] \in Local
    /\ pc[e] = "execute" => left[e] # 0
    /\ pc[e] = "idle" => appr[e] = NoApproval

\* Each check passed has left its clearance behind.  The pin is read with the
\* lockout and compared after the lease: it counts if it will match.
ClearedSoFar ==
  \A e \in Evaluation :
    /\ pc[e] \in Gauntlet \cup {"execute"} => "unpaused" \in cleared[e]
    /\ pc[e] \in {"lease", "gate", "execute"} =>
         /\ "enabled" \in cleared[e]
         /\ pin[e] \in {NoOperator, ActorOf[ses[e]]} => "pinned" \in cleared[e]
    /\ pc[e] \in {"gate", "execute"} => cleared[e] = Clearance

\* The grants on a request are by as many different people, and for a two-person
\* action the requester is not one of them.
GrantsCounted ==
  \A a \in Approval : store[a].state # "unused" =>
    /\ IsFiniteSet(store[a].grantedBy)
    /\ Cardinality(store[a].grantedBy) = store[a].grants
    /\ store[a].about \in TwoPerson => store[a].by \notin store[a].grantedBy

\* An evaluation that found an approval still has it, whatever became of it since; what
\* executes is not forbidden.
Authorised ==
  \A e \in Evaluation :
    /\ appr[e] # NoApproval =>
         /\ store[appr[e]].state # "unused"
         /\ store[appr[e]].about = act[e]
         /\ store[appr[e]].grants >= RequiredApprovers(act[e])
    /\ pc[e] = "execute" => /\ GateFor(act[e]) # "forbidden"
                            /\ GateFor(act[e]) = "approval" => appr[e] # NoApproval

\* Only a live execution changes anything, and it has its row before it returns.
Recorded ==
  \A e \in Evaluation :
    /\ pc[e] = "execute" => ExecutesLive(act[e])
    /\ moved[e] => /\ pc[e] \in {"execute", "failed", "audit", "consume", "return"}
                   /\ ExecutesLive(act[e])
    /\ pc[e] = "consume" /\ ExecutesLive(act[e]) => row[e] = "live"
    /\ pc[e] = "return" => row[e] = "live"

\* What an evaluation may rely on at each point (engine.py:175-314).
GateKnowledge ==
  Underway /\ ClearedSoFar /\ GrantsCounted /\ Authorised /\ Recorded

\* Whatever changes the observatory had each clearance at some moment between
\* its call and now: not paused, not locked out, not pinned to another, and the
\* holder of the lease.  A stop, lockout, pin or seizure that was in force before
\* the call and throughout is never ignored (engine.py:175-200).
ClearedToAct == \A e \in Evaluation : pc[e] = "execute" => cleared[e] = Clearance

\* What executes behind the approval gate does so under a request for that very
\* action, granted by as many different people as it needs, none of whom asked
\* for a two-person action themselves (approvals.py:7-11).
ApprovedToAct ==
  \A e \in Evaluation :
    pc[e] = "execute" /\ GateFor(act[e]) = "approval" =>
      LET request == store[appr[e]] IN
      /\ appr[e] # NoApproval
      /\ request.about = act[e]
      /\ Cardinality(request.grantedBy) >= RequiredApprovers(act[e])
      /\ act[e] \in TwoPerson => request.by \notin request.grantedBy

\* A promotion loosens an action no further than its target, by whatever gates the policy
\* names: what executes has no target of forbidden, and with a target of approval it does
\* so under a request that was granted (policy.py:14-16, 80-83, engine.py:202-214, 282-287).
WithinTarget ==
  \A e \in Evaluation :
    pc[e] = "execute" =>
      /\ Target[act[e]] # "forbidden"
      /\ Target[act[e]] = "approval" =>
           appr[e] # NoApproval /\ store[appr[e]].about = act[e] /\ store[appr[e]].grants # 0

\* Once an evaluation has returned EXECUTED or SHADOW under an approval, no later
\* one can find that approval (engine.py:248-249, 309-310).
SpentIsGone == \A a \in spent : store[a].state = "gone"

\* An evaluation that changed anything, wholly or in part, returns with a live
\* audit row; only a crash or an unwritable audit file leaves none.
ChangeIsAudited ==
  [][\A e \in Evaluation :
       moved[e] /\ pc'[e] = "idle" => row[e] = "live" \/ faults' # faults]_vars

\* "Remove a grant after it authorises an action (single-use)" (approvals.py:128):
\* no two executions are under way by virtue of one approval.
SingleUse ==
  \A e, f \in Evaluation :
    e # f /\ pc[e] = "execute" /\ pc[f] = "execute" /\ appr[e] # NoApproval
      => appr[e] # appr[f]
=============================================================================
