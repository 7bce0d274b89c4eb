--------------------------------- MODULE Agent --------------------------------
(***************************************************************************)
(* A chat turn (web/app.py, agent/claude.py): the model asks for tools in  *)
(* rounds, and the console runs them for the session of the person who     *)
(* chats (agent/control.py), while other people pause, pin, lock out and   *)
(* pass the lease on.  The pre-flight (control/preflight.py), the snapshot *)
(* in the prompt and the advice that goes with a denial tell the model     *)
(* what the engine would do.  An evaluation is one step here, which        *)
(* ControlEngine looks into; nothing is assumed of the model.              *)
(***************************************************************************)
EXTENDS Verbs, Naturals

CONSTANTS
  Session,      \* sessions that may hold the lease
  Here,         \* the session that chats
  Operator,     \* names that hold and are pinned
  ActorOf,      \* the operator a session acts as
  Known,        \* the actions of the policy
  Target, Commissioning, TwoPerson,     \* see Policy
  Policies,     \* modes, builds and promotions to look at
  Asked,        \* actions the model proposes: known ones and an invented one
  MaxRounds,    \* MAX_TOOL_ITERS
  MaxCalls,     \* bound on the tool calls of a round
  MaxFaults,    \* bound on failures of the model's API and of writes
  NoSession, NoOperator, NoTool

\* Whether the mode is live and a live executor is wired; and the actions promoted.
Setting == [live : BOOLEAN, wired : BOOLEAN, promoted : SUBSET Known]

ASSUME AgentAssumption ==
  /\ Here \in Session /\ NoSession \notin Session
  /\ ActorOf \in [Session -> Operator] /\ NoOperator \notin Operator
  /\ Known \subseteq Registry
  /\ Policies \subseteq Setting
  /\ MaxRounds \in Nat \ {0} /\ MaxCalls \in Nat \ {0} /\ MaxFaults \in Nat

VARIABLES
  policy,       \* read at startup: never changes
  brain,        \* which agent was built: claude, or the stub without a key
  holder, paused, authority,    \* as in ControlEngine
  plan,         \* PLAN_KEY: none, staged or armed
  approvals,    \* per action behind an approval: none, pending or granted
  at,           \* where the turn is
  rounds,       \* requests made of the model
  left,         \* tool calls of this round that have not been run
  tool,         \* the plan tool that has seen the lease and not yet written
  bare,         \* history: changes this turn made that have no audit row
  faults

person == <<holder, paused, authority>>
turn   == <<at, rounds, left, tool, bare>>
vars   == <<policy, brain, person, plan, approvals, turn, faults>>

Executor == INSTANCE SingleExecutor

P == INSTANCE Policy WITH Action <- Known, Promoted <- policy.promoted

EditTool == {"set", "arm", "disarm", "clear"}

TypeOK ==
  /\ policy \in Policies
  /\ brain \in {"claude", "stub"}
  /\ holder \in Session \cup {NoSession}
  /\ paused \in BOOLEAN
  /\ authority \in [enabled : BOOLEAN, pin : Operator \cup {NoOperator}]
  /\ plan \in {"none", "staged", "armed"}
  /\ approvals \in [Known -> {"none", "pending", "granted"}]
  /\ at \in {"idle", "model", "tools", "edit", "answered", "failed"}
  /\ rounds \in 0..MaxRounds /\ left \in 0..MaxCalls
  /\ tool \in EditTool \cup {NoTool}
  /\ bare \in 0..MaxRounds * MaxCalls
  /\ faults \in 0..MaxFaults

Init ==
  /\ policy \in Policies
  /\ brain \in {"claude", "stub"}
  /\ holder = NoSession
  /\ paused = FALSE
  /\ authority = [enabled |-> TRUE, pin |-> NoOperator]
  /\ plan = "none"
  /\ approvals = [a \in Known |-> "none"]
  /\ at = "idle" /\ rounds = 0 /\ left = 0
  /\ tool = NoTool /\ bare = 0
  /\ faults = 0

\* What is done succeeds; or it fails, which is a fault.
Succeeds(ok) == \/ ok /\ UNCHANGED faults
                \/ ~ok /\ faults < MaxFaults /\ faults' = faults + 1

-----------------------------------------------------------------------------
(* People.                                                                 *)

Elsewhere == UNCHANGED <<policy, brain, at, rounds, left, tool, bare, faults>>

LeaseChanges ==
  /\ Executor!SENext
  /\ UNCHANGED <<paused, authority, plan, approvals>> /\ Elsewhere

Stops ==
  /\ \/ paused' = ~paused /\ UNCHANGED authority
     \/ /\ authority' \in [enabled : BOOLEAN, pin : Operator \cup {NoOperator}]
        /\ UNCHANGED paused
  /\ UNCHANGED <<holder, plan, approvals>> /\ Elsewhere

\* The holder of the lease edits the plan in another window or from another console.
OthersEdit ==
  /\ holder # NoSession
  /\ plan' \in {"none", "staged", "armed"}
  /\ UNCHANGED <<person, approvals>> /\ Elsewhere

\* As many people as the action needs grant a request; or it expires.
PeopleDecide ==
  /\ \E a \in Known : /\ approvals[a] # "none"
                      /\ \E v \in {"none", "granted"} : approvals' = [approvals EXCEPT ![a] = v]
  /\ UNCHANGED <<person, plan>> /\ Elsewhere

-----------------------------------------------------------------------------
(* What evaluate() says, and what is told of it beforehand.                *)

\* The first reason there is to deny session s the action, or none.
Denial(a, s) ==
  CASE a \notin Known -> "unknown_action"
    [] a \in Known /\ paused -> "paused"
    [] a \in Known /\ ~paused /\ ~authority.enabled -> "locked_out"
    [] a \in Known /\ ~paused /\ authority.enabled /\ holder # s -> "not_executor"
    [] OTHER ->
         IF authority.pin \notin {NoOperator, ActorOf[s]} THEN "executor_pinned"
         ELSE IF P!GateFor(a) = "forbidden" THEN "forbidden"
         ELSE IF P!GateFor(a) = "approval" /\ approvals[a] # "granted" THEN "needs_approval"
         ELSE "none"

ExecutesLive(a) == policy.wired /\ policy.live /\ a \in policy.promoted

CriticalBringup == {"point_array", "build_fstable", "deploy_fstable", "start_fleet",
                    "restart_all", "utc_start"}

\* What the sequencer and the plan runner evaluate.
BringupActions == CriticalBringup \cup {"set_spectral_line"}

\* The actions of config/policy.yaml: the bring-up needs no approval, promoted or not.
BringupIsAutonomous ==
  /\ BringupActions \subseteq Known
  /\ \A a \in BringupActions : Target[a] = "autonomous" /\ Commissioning[a] = "autonomous"

\* What of it would be a dry run; an action the policy does not list is passed over.
Unpromoted == (CriticalBringup \cap Known) \ policy.promoted

\* Mutant: any holder will do.
LeaseIsFree(s) == holder = NoSession

LeaseCheckFails(s) == holder # s

\* observing_preflight for a session: the checks that are not ok.  The pin is compared
\* with whoever holds the lease.
FailingChecks(s) ==
  {c \in {"policy_mode_live", "promote", "live_executor_wired", "estop_clear",
          "agents_enabled", "hold_lease", "executor_not_pinned_away"} :
     \/ c = "policy_mode_live" /\ ~policy.live
     \/ c = "promote" /\ Unpromoted # {}
     \/ c = "live_executor_wired" /\ ~policy.wired
     \/ c = "estop_clear" /\ paused
     \/ c = "agents_enabled" /\ ~authority.enabled
     \/ c = "hold_lease" /\ LeaseCheckFails(s)
     \/ /\ c = "executor_not_pinned_away" /\ holder # NoSession
        /\ authority.pin \notin {NoOperator, ActorOf[holder]}}

\* The command line has no session, and looks at the lease only to compare the pin.
FailingChecksOfMain == FailingChecks(Here) \ {"hold_lease"}

Ready(s) == FailingChecks(s) = {}

Read == {"lease", "estop", "authority"}

\* situation_snapshot: the lines that say something is in the way.  A read that fails
\* leaves its lines out.
Warnings(unread) ==
  {w \in {"shadow", "lease", "estop", "lockout", "pin", "unpromoted"} :
     \/ w = "shadow" /\ ~policy.live
     \/ w = "lease" /\ "lease" \notin unread /\ holder # Here
     \/ w = "estop" /\ "estop" \notin unread /\ paused
     \/ /\ "authority" \notin unread
        /\ \/ w = "lockout" /\ ~authority.enabled
           \/ w = "pin" /\ authority.pin # NoOperator
     \/ w = "unpromoted" /\ policy.live /\ Unpromoted # {}}

\* The words of evaluate()'s messages that the advice is looked up by.
Words(reason) ==
  CASE reason = "paused" -> {"paused", "e-stop"}
    [] reason = "locked_out" -> {"locked out"}
    [] reason = "not_executor" -> {"lease"}
    [] reason = "executor_pinned" -> {"pinned"}
    [] reason = "forbidden" -> {"forbidden"}
    [] OTHER -> {}

\* _reason_code, in the order of its tests.
ReasonCode(words) ==
  IF "lease" \in words THEN "not_executor"
  ELSE IF "locked out" \in words THEN "locked_out"
  ELSE IF "pinned" \in words THEN "executor_pinned"
  ELSE IF words \cap {"paused", "e-stop"} # {} THEN "paused"
  ELSE IF "forbidden" \in words THEN "forbidden" ELSE "none"

\* What the pre-flight calls a reason that evaluate() gives.
CheckOf(reason) ==
  CASE reason = "paused" -> "estop_clear"
    [] reason = "locked_out" -> "agents_enabled"
    [] reason = "not_executor" -> "hold_lease"
    [] reason = "executor_pinned" -> "executor_not_pinned_away"

-----------------------------------------------------------------------------
(* A turn.                                                                 *)

Goto(to) == at' = to

\* A person sends a message; its audit row could be written.
Ask ==
  /\ at = "idle"
  /\ Goto("model")
  /\ UNCHANGED <<policy, brain, person, plan, approvals, rounds, left, tool, bare, faults>>

\* The stub runs one tool that only reads, and answers; an error it does not expect
\* ends the turn.
StubAnswers ==
  /\ at = "model" /\ brain = "stub"
  /\ \E ok \in BOOLEAN : Succeeds(ok) /\ Goto(IF ok THEN "answered" ELSE "failed")
  /\ UNCHANGED <<policy, brain, person, plan, approvals, rounds, left, tool, bare>>

\* Mutant: the calls are counted instead of the rounds.
CountsCalls(n) == rounds + n

\* Mutant: only a round of several calls is counted.
CountsSeveral(n) == IF n > 1 THEN rounds + 1 ELSE rounds

Counts(n) == rounds + 1

\* The model answers, or asks for tools.
ModelAnswers ==
  /\ at = "model" /\ brain = "claude" /\ rounds < MaxRounds
  /\ \E n \in 0..MaxCalls :
       /\ rounds' = Counts(n)
       /\ left' = n
       /\ Goto(IF n = 0 THEN "answered" ELSE "tools")
  /\ UNCHANGED <<policy, brain, person, plan, approvals, tool, bare, faults>>

\* Its API fails: the exception ends the turn, and nothing it has done is reported.
ModelFails ==
  /\ at = "model" /\ brain = "claude" /\ rounds < MaxRounds
  /\ Succeeds(FALSE)
  /\ Goto("failed")
  /\ UNCHANGED <<policy, brain, person, plan, approvals, rounds, left, tool, bare>>

\* The rounds are used up: the turn is answered with the calls it has made.
RoundsAreOver ==
  /\ at = "model" /\ rounds = MaxRounds
  /\ Goto("answered")
  /\ UNCHANGED <<policy, brain, person, plan, approvals, rounds, left, tool, bare, faults>>

\* Mutant: only the errors a tool means to raise are caught.
CaughtIfMeant(raised) == raised # "other"

Caught(raised) == TRUE

\* _run_tool returns and the call is put on the list; an exception that is not caught
\* would take the list with it.
CallEnds(raised) ==
  /\ left' = left - 1
  /\ Goto(IF ~Caught(raised) THEN "failed" ELSE IF left = 1 THEN "model" ELSE "tools")

\* A tool that only reads, or is not known, or is called with the wrong arguments.
Look ==
  /\ at = "tools"
  /\ \E raised \in {"nothing", "meant", "other"} : CallEnds(raised)
  /\ UNCHANGED <<policy, brain, person, plan, approvals, rounds, tool, bare, faults>>

\* What an evaluation comes to.
Answers(a, flaw) ==
  IF Denial(a, Here) # "none" THEN {"denied"}
  ELSE CASE PlanOf(a, flaw) = "refused" -> {"denied"}
         [] PlanOf(a, flaw) = "raises"  -> {"raises"}
         [] OTHER -> IF ~ExecutesLive(a) THEN {"shadow"}
                     ELSE IF Carrier(a) = "hand" THEN {"failed"} ELSE {"executed", "failed"}

\* Mutant: a failure has no row.
RowlessOutcomes == {"raises", "failed"}

Rowless == {"raises"}

\* propose_action.  Every outcome has its row, unless the row cannot be written, which
\* raises, or a conversion raises before there is an outcome.
Propose(a, flaw) ==
  /\ at = "tools"
  /\ \E o \in Answers(a, flaw), written, moved \in BOOLEAN :
       /\ o = "raises" => written
       /\ moved => o \in {"executed", "failed"}
       /\ o = "executed" => moved
       /\ Succeeds(written)
       /\ bare' = IF moved /\ (~written \/ o \in Rowless) THEN bare + 1 ELSE bare
       /\ approvals' = IF written /\ o \in {"executed", "shadow"} /\ P!GateFor(a) = "approval"
                       THEN [approvals EXCEPT ![a] = "none"] ELSE approvals
       /\ CallEnds(IF o = "raises" \/ ~written THEN "other" ELSE "nothing")
  /\ UNCHANGED <<policy, brain, person, plan, rounds, tool>>

\* request_approval: a request for people to grant, also about an action that needs no
\* approval.  Its row may fail to be written, which goes unnoticed.
RequestApproval(a) ==
  /\ at = "tools"
  /\ \/ a \notin Known /\ CallEnds("meant") /\ UNCHANGED <<approvals, bare, faults>>
     \/ /\ a \in Known /\ CallEnds("nothing")
        /\ approvals' = [approvals EXCEPT ![a] = IF @ = "granted" THEN @ ELSE "pending"]
        /\ \E written \in BOOLEAN :
             Succeeds(written) /\ bare' = IF written THEN bare ELSE bare + 1
  /\ UNCHANGED <<policy, brain, person, plan, rounds, tool>>

\* run_observing_step and tick_plan evaluate such actions for the session that holds the
\* lease, each with its row, and under an approval if it needs one.
RunStep ==
  LET allowed == {a \in BringupActions \cap Known : Denial(a, Here) = "none"}
      spends  == {a \in allowed : P!GateFor(a) = "approval"}
  IN
  /\ at = "tools"
  /\ \E moved, written \in BOOLEAN :
       /\ moved => holder = Here /\ plan # "none" /\ \E a \in allowed : ExecutesLive(a)
       /\ ~written => moved
       /\ Succeeds(written)
       /\ bare' = IF written THEN bare ELSE bare + 1
       /\ CallEnds(IF holder # Here THEN "meant" ELSE IF written THEN "nothing" ELSE "other")
  /\ approvals' \in {approvals} \cup {[approvals EXCEPT ![a] = "none"] : a \in spends}
  /\ UNCHANGED <<policy, brain, person, plan, rounds, tool>>

\* set_observing_plan, observe_at_dec, arm, disarm and clear look at the lease first.
BeginEdit(t) ==
  /\ at = "tools"
  /\ IF holder = Here
     THEN Goto("edit") /\ tool' = t /\ UNCHANGED left
     ELSE CallEnds("meant") /\ UNCHANGED tool
  /\ UNCHANGED <<policy, brain, person, plan, approvals, rounds, bare, faults>>

PlanAfter(t) == CASE t = "set" -> "staged" [] t = "arm" -> "armed" [] t = "disarm" -> "staged"
                  [] t = "clear" -> "none"

\* The write, of a plan that is valid and there; then its row.  Either may fail: the
\* write after it was applied, too.
FinishEdit ==
  /\ at = "edit"
  /\ \/ \* no plan to arm or disarm, which disarm does not mind, or an invalid one to set
        /\ tool # "clear" /\ (tool \in {"arm", "disarm"} => plan = "none")
        /\ CallEnds(IF tool = "disarm" THEN "nothing" ELSE "meant")
        /\ UNCHANGED <<plan, bare, faults>>
     \/ /\ tool \in {"arm", "disarm"} => plan # "none"
        /\ plan' = PlanAfter(tool)
        /\ \E written \in BOOLEAN, raised \in {"nothing", "other"} :
             /\ raised = "other" => ~written
             /\ Succeeds(written)
             /\ bare' = IF written THEN bare ELSE bare + 1
             /\ CallEnds(raised)
     \/ /\ Succeeds(FALSE)
        /\ CallEnds("other")
        /\ UNCHANGED <<plan, bare>>
  /\ tool' = NoTool
  /\ UNCHANGED <<policy, brain, person, approvals, rounds>>

\* The person sees the answer with the calls that were made, or an error and no call.
Respond ==
  /\ at \in {"answered", "failed"}
  /\ Goto("idle")
  /\ rounds' = 0 /\ left' = 0 /\ bare' = 0
  /\ UNCHANGED <<policy, brain, person, plan, approvals, tool, faults>>

-----------------------------------------------------------------------------

RunTool ==
  \/ Look \/ RunStep \/ FinishEdit
  \/ \E a \in Asked : RequestApproval(a) \/ \E flaw \in Flaw : Propose(a, flaw)
  \/ \E t \in EditTool : BeginEdit(t)

TurnStep ==
  StubAnswers \/ ModelAnswers \/ ModelFails \/ RoundsAreOver \/ RunTool \/ Respond

Next == LeaseChanges \/ Stops \/ OthersEdit \/ PeopleDecide \/ Ask \/ TurnStep

Spec == Init /\ [][Next]_vars

\* The request's thread runs, and the model's API answers or times out
\* (claude.py:73-98).
FairSpec == Spec /\ WF_vars(TurnStep)

-----------------------------------------------------------------------------
(* Properties.                                                             *)

\* What a turn has changed can be traced: the person is told of the call, or, when the
\* turn fails and tells nothing, the audit trail has its row; two failures together may
\* hide one change (claude.py:88-98, 118-125, app.py:371-386, engine.py:295-310).
ChangesAreTraceable == at = "failed" /\ bare > 0 => bare < faults

WouldExecute(s, actions) ==
  \A a \in actions : Denial(a, s) = "none" /\ ExecutesLive(a)

\* Four accounts of one thing agree as far as they go: the engine that decides, the
\* pre-flight, the snapshot in the prompt, and the advice on a denial.  The pre-flight is
\* ready exactly if every action the bring-up issues would be executed, but for the modes,
\* whose set_spectral_line it does not look at; on the command line it says so of whoever
\* holds the lease.  A prompt that could be put together whole and warns of nothing leaves
\* nothing in the way but a missing executor, and a warning, whatever could not be read,
\* is one the pre-flight has too, but for a pin on oneself.  What a denial names is among
\* the blockers (engine.py:163-200, preflight.py:107-208, session.py:83-87,
\* agent/control.py:47-56, 129-195, 444-456).  It takes a policy that lets the bring-up go
\* by itself, as config/policy.yaml does: the pre-flight does not look at the gates.
AccountsAgree ==
  BringupIsAutonomous =>
    LET modesToo == "set_spectral_line" \in policy.promoted IN
    /\ (Ready(Here) /\ modesToo) <=> WouldExecute(Here, BringupActions)
    /\ holder # NoSession =>
         ((FailingChecksOfMain = {} /\ modesToo) <=> WouldExecute(holder, BringupActions))
    /\ Warnings({}) = {} => FailingChecks(Here) \subseteq {"live_executor_wired"}
    /\ \A unread \in SUBSET Read : Warnings(unread) \ {"pin"} # {} => ~Ready(Here)
    /\ \A a \in BringupActions :
         LET reason == Denial(a, Here) IN
         reason # "none" => /\ CheckOf(reason) \in FailingChecks(Here)
                            /\ ReasonCode(Words(reason)) = reason

\* A turn ends, however many tools the model asks for (claude.py:28, 73, 100-103).
TurnsEnd == at # "idle" ~> at = "idle"
=============================================================================
