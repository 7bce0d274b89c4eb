----------------------------- MODULE AgentProofs -----------------------------
(***************************************************************************)
(* What Agent promises for any sessions, policies, actions and bounds: the *)
(* changes of a turn can be traced, the accounts of the rules agree, and a *)
(* turn stays within its rounds and calls.                                 *)
(***************************************************************************)
EXTENDS Agent, TLAPS

-----------------------------------------------------------------------------
(* Traces: a change without a row costs a fault, and so does a turn that   *)
(* fails, as no exception of a tool leaves _run_tool.                      *)

TraceInv ==
  /\ bare \in Nat /\ faults \in Nat
  /\ bare <= faults
  /\ at = "failed" => bare < faults

\* A call that ends does not end the turn.
LEMMA CallsDoNotFail ==
  ASSUME NEW raised, CallEnds(raised)
  PROVE  at' # "failed"
  BY DEF CallEnds, Goto, Caught

\* A row that is missing is a write that failed.
LEMMA RowsCost ==
  ASSUME TraceInv, at' # "failed",
         \/ UNCHANGED <<bare, faults>>
         \/ \E written \in BOOLEAN : /\ Succeeds(written)
                                     /\ bare' \in {bare, IF written THEN bare ELSE bare + 1}
  PROVE  TraceInv'
  BY DEF TraceInv, Succeeds

LEMMA PeopleTraceInv ==
  ASSUME TraceInv, LeaseChanges \/ Stops \/ OthersEdit \/ PeopleDecide \/ Ask
  PROVE  TraceInv'
  <1>1. UNCHANGED <<bare, faults>> /\ (at' = at \/ at' = "model")
    BY DEF LeaseChanges, Stops, OthersEdit, PeopleDecide, Ask, Elsewhere, Goto
  <1> QED
    BY <1>1 DEF TraceInv

LEMMA ModelTraceInv ==
  ASSUME TraceInv,
         StubAnswers \/ ModelAnswers \/ ModelFails \/ RoundsAreOver \/ Respond
  PROVE  TraceInv'
  <1>1. CASE StubAnswers
    <2>1. PICK ok \in BOOLEAN : Succeeds(ok) /\ Goto(IF ok THEN "answered" ELSE "failed")
      BY <1>1 DEF StubAnswers
    <2>2. UNCHANGED bare
      BY <1>1 DEF StubAnswers
    <2> QED
      BY <2>1, <2>2 DEF TraceInv, Succeeds, Goto
  <1>2. CASE ModelAnswers
    <2>1. UNCHANGED <<bare, faults>> /\ at' \in {"answered", "tools"}
      BY <1>2 DEF ModelAnswers, Goto
    <2> QED
      BY <2>1 DEF TraceInv
  <1>3. CASE ModelFails
    BY <1>3 DEF ModelFails, Goto, Succeeds, TraceInv
  <1>4. CASE RoundsAreOver \/ Respond
    BY <1>4 DEF RoundsAreOver, Respond, Goto, TraceInv
  <1> QED
    BY <1>1, <1>2, <1>3, <1>4

LEMMA ToolTraceInv ==
  ASSUME TraceInv, RunTool
  PROVE  TraceInv'
  <1>1. CASE Look
    BY <1>1, CallsDoNotFail, RowsCost DEF Look
  <1>2. CASE RunStep
    <2>1. /\ at' # "failed"
          /\ \E written \in BOOLEAN : /\ Succeeds(written)
                                      /\ bare' = IF written THEN bare ELSE bare + 1
      BY <1>2, CallsDoNotFail DEF RunStep
    <2> QED
      BY <2>1, RowsCost
  <1>3. CASE FinishEdit
    <2>1. at' # "failed"
      BY <1>3, CallsDoNotFail DEF FinishEdit
    <2>2. \/ UNCHANGED <<bare, faults>>
          \/ \E written \in BOOLEAN : /\ Succeeds(written)
                                      /\ bare' \in {bare, IF written THEN bare ELSE bare + 1}
      BY <1>3 DEF FinishEdit
    <2> QED
      BY <2>1, <2>2, RowsCost
  <1>4. ASSUME NEW a \in Asked, RequestApproval(a)
        PROVE  TraceInv'
    <2>1. at' # "failed"
      BY <1>4, CallsDoNotFail DEF RequestApproval
    <2>2. \/ UNCHANGED <<bare, faults>>
          \/ \E written \in BOOLEAN : /\ Succeeds(written)
                                      /\ bare' = IF written THEN bare ELSE bare + 1
      BY <1>4 DEF RequestApproval
    <2> QED
      BY <2>1, <2>2, RowsCost
  <1>5. ASSUME NEW a \in Asked, NEW flaw \in Flaw, Propose(a, flaw)
        PROVE  TraceInv'
    <2>1. PICK o \in Answers(a, flaw), written \in BOOLEAN, moved \in BOOLEAN :
            /\ moved => o \in {"executed", "failed"}
            /\ Succeeds(written)
            /\ bare' = IF moved /\ (~written \/ o \in Rowless) THEN bare + 1 ELSE bare
            /\ CallEnds(IF o = "raises" \/ ~written THEN "other" ELSE "nothing")
      BY <1>5 DEF Propose
    <2>2. at' # "failed"
      BY <2>1, CallsDoNotFail
    <2>3. bare' \in {bare, IF written THEN bare ELSE bare + 1}
      BY <2>1 DEF Rowless
    <2> QED
      BY <2>1, <2>2, <2>3, RowsCost
  <1>6. ASSUME NEW t \in EditTool, BeginEdit(t)
        PROVE  TraceInv'
    <2>1. UNCHANGED <<bare, faults>>
      BY <1>6 DEF BeginEdit
    <2>2. at' # "failed"
      BY <1>6, CallsDoNotFail DEF BeginEdit, Goto
    <2> QED
      BY <2>1, <2>2, RowsCost
  <1> QED
    BY <1>1, <1>2, <1>3, <1>4, <1>5, <1>6 DEF RunTool

\* What a turn that fails has changed is in the audit trail, but for what a second failure
\* hides, for any model, policy and number of rounds, calls and faults
\* (claude.py:88-98, 118-125, app.py:371-386).
THEOREM Traceable == Spec => []ChangesAreTraceable
  <1>1. Init => TraceInv
    BY DEF Init, TraceInv
  <1>2. TraceInv /\ [Next]_vars => TraceInv'
    <2> SUFFICES ASSUME TraceInv, [Next]_vars
                 PROVE  TraceInv'
      OBVIOUS
    <2>1. CASE UNCHANGED vars
      BY <2>1 DEF vars, turn, TraceInv
    <2> QED
      BY <2>1, PeopleTraceInv, ModelTraceInv, ToolTraceInv DEF Next, TurnStep
  <1>3. TraceInv => ChangesAreTraceable
    BY DEF TraceInv, ChangesAreTraceable
  <1> QED
    BY <1>1, <1>2, <1>3, PTL DEF Spec

-----------------------------------------------------------------------------
(* Accounts: the engine's reasons, one by one, against what is told.       *)

\* What the engine says of an action that needs no approval.
LEMMA DenialOfBringup ==
  ASSUME BringupIsAutonomous, NEW a \in BringupActions, NEW s
  PROVE  Denial(a, s) =
           IF paused THEN "paused"
           ELSE IF ~authority.enabled THEN "locked_out"
           ELSE IF holder # s THEN "not_executor"
           ELSE IF authority.pin \notin {NoOperator, ActorOf[s]} THEN "executor_pinned"
           ELSE "none"
  <1>1. a \in Known /\ P!GateFor(a) = "autonomous"
    BY DEF BringupIsAutonomous, P!GateFor, P!Stricter, P!Rank
  <1> QED
    BY <1>1 DEF Denial

\* Nothing is in the way of session s.
Clear(s) == /\ ~paused /\ authority.enabled /\ holder = s
            /\ authority.pin \in {NoOperator, ActorOf[s]}

LEMMA ExecutesWhenClear ==
  ASSUME BringupIsAutonomous, NEW s
  PROVE  WouldExecute(s, BringupActions)
           <=> /\ Clear(s) /\ policy.wired /\ policy.live
               /\ Unpromoted = {} /\ "set_spectral_line" \in policy.promoted
  <1>1. \A a \in BringupActions : Denial(a, s) = "none" <=> Clear(s)
    BY DenialOfBringup DEF Clear
  <1>2. Unpromoted = {} /\ "set_spectral_line" \in policy.promoted
          <=> \A a \in BringupActions : a \in policy.promoted
    BY DEF Unpromoted, BringupIsAutonomous, BringupActions
  <1>3. "set_spectral_line" \in BringupActions
    BY DEF BringupActions
  <1> QED
    BY <1>1, <1>2, <1>3 DEF WouldExecute, ExecutesLive

LEMMA ChecksOneByOne ==
  ASSUME NEW s
  PROVE  /\ "policy_mode_live" \in FailingChecks(s) <=> ~policy.live
         /\ "promote" \in FailingChecks(s) <=> Unpromoted # {}
         /\ "live_executor_wired" \in FailingChecks(s) <=> ~policy.wired
         /\ "estop_clear" \in FailingChecks(s) <=> paused
         /\ "agents_enabled" \in FailingChecks(s) <=> ~authority.enabled
         /\ "hold_lease" \in FailingChecks(s) <=> holder # s
         /\ "executor_not_pinned_away" \in FailingChecks(s)
              <=> holder # NoSession /\ authority.pin \notin {NoOperator, ActorOf[holder]}
         /\ FailingChecks(s) \subseteq
              {"policy_mode_live", "promote", "live_executor_wired", "estop_clear",
               "agents_enabled", "hold_lease", "executor_not_pinned_away"}
  BY DEF FailingChecks, LeaseCheckFails

\* In every state, for any sessions, pins, promotions and policy that lets the bring-up go
\* by itself, the pre-flight is ready and set_spectral_line promoted exactly if the engine
\* would execute whatever the sequencer issues; the prompt warns of nothing the pre-flight
\* would not block on, whatever it could not read, and of everything it could read; and a
\* denial's advice and blocker are of its own reason (engine.py:163-200,
\* preflight.py:107-208, session.py:83-87, agent/control.py:47-56, 129-195).
THEOREM Accounts == Spec => []AccountsAgree
  <1>1. AccountsAgree
    <2> SUFFICES ASSUME BringupIsAutonomous
                 PROVE  AccountsAgree
      BY DEF AccountsAgree
    <2>1. Ready(Here) /\ "set_spectral_line" \in policy.promoted
            <=> WouldExecute(Here, BringupActions)
      BY ChecksOneByOne, ExecutesWhenClear, AgentAssumption DEF Ready, Clear
    <2>2. ASSUME holder # NoSession
          PROVE  FailingChecksOfMain = {} /\ "set_spectral_line" \in policy.promoted
                   <=> WouldExecute(holder, BringupActions)
      BY <2>2, ChecksOneByOne, ExecutesWhenClear DEF FailingChecksOfMain, Clear
    <2>3. ASSUME Warnings({}) = {}
          PROVE  FailingChecks(Here) \subseteq {"live_executor_wired"}
      <3>1. /\ policy.live /\ holder = Here /\ ~paused /\ authority.enabled
            /\ authority.pin = NoOperator /\ Unpromoted = {}
        BY <2>3 DEF Warnings
      <3> QED
        BY <3>1, ChecksOneByOne
    <2>5. ASSUME NEW unread \in SUBSET Read, Warnings(unread) \ {"pin"} # {}
          PROVE  ~Ready(Here)
      <3>1. \/ ~policy.live \/ holder # Here \/ paused \/ ~authority.enabled
            \/ Unpromoted # {}
        BY <2>5 DEF Warnings
      <3> QED
        BY <3>1, ChecksOneByOne DEF Ready
    <2>4. ASSUME NEW a \in BringupActions, Denial(a, Here) # "none"
          PROVE  /\ CheckOf(Denial(a, Here)) \in FailingChecks(Here)
                 /\ ReasonCode(Words(Denial(a, Here))) = Denial(a, Here)
      <3>1. CASE paused
        <4>1. Denial(a, Here) = "paused" /\ "estop_clear" \in FailingChecks(Here)
          BY <3>1, DenialOfBringup, ChecksOneByOne
        <4> QED
          BY <4>1 DEF CheckOf, ReasonCode, Words
      <3>2. CASE ~paused /\ ~authority.enabled
        <4>1. Denial(a, Here) = "locked_out" /\ "agents_enabled" \in FailingChecks(Here)
          BY <3>2, DenialOfBringup, ChecksOneByOne
        <4> QED
          BY <4>1 DEF CheckOf, ReasonCode, Words
      <3>3. CASE ~paused /\ authority.enabled /\ holder # Here
        <4>1. Denial(a, Here) = "not_executor" /\ "hold_lease" \in FailingChecks(Here)
          BY <3>3, DenialOfBringup, ChecksOneByOne
        <4> QED
          BY <4>1 DEF CheckOf, ReasonCode, Words
      <3>4. CASE ~paused /\ authority.enabled /\ holder = Here
        <4>1. /\ Denial(a, Here) = "executor_pinned"
              /\ "executor_not_pinned_away" \in FailingChecks(Here)
          BY <2>4, <3>4, DenialOfBringup, ChecksOneByOne, AgentAssumption
        <4> QED
          BY <4>1 DEF CheckOf, ReasonCode, Words
      <3> QED
        BY <3>1, <3>2, <3>3, <3>4
    <2> QED
      BY <2>1, <2>2, <2>3, <2>4, <2>5 DEF AccountsAgree
  <1> QED
    BY <1>1, PTL

-----------------------------------------------------------------------------
(* Types: a call of a round adds at most one to what is bare.              *)

\* Calls that are yet to come or have left no row are calls of the rounds so far.
Budget ==
  /\ bare \in Nat /\ left \in 0..MaxCalls /\ rounds \in 0..MaxRounds
  /\ bare + left <= rounds * MaxCalls
  /\ at \in {"tools", "edit"} => left > 0

Place == {"idle", "model", "tools", "edit", "answered", "failed"}
Stage == {"none", "staged", "armed"}
Standing == {"none", "pending", "granted"}

RestType ==
  /\ policy \in Policies /\ brain \in {"claude", "stub"}
  /\ holder \in Session \cup {NoSession} /\ paused \in BOOLEAN
  /\ authority \in [enabled : BOOLEAN, pin : Operator \cup {NoOperator}]
  /\ plan \in Stage
  /\ approvals \in [Known -> Standing]
  /\ at \in Place /\ tool \in EditTool \cup {NoTool}
  /\ at = "edit" => tool \in EditTool
  /\ faults \in 0..MaxFaults

LEMMA RoundBudget ==
  ASSUME NEW r \in Nat, r <= MaxRounds
  PROVE  /\ r * MaxCalls \in Nat /\ (r + 1) * MaxCalls = r * MaxCalls + MaxCalls
         /\ r * MaxCalls <= MaxRounds * MaxCalls
  BY AgentAssumption

LEMMA OneLess ==
  ASSUME NEW b \in Nat, NEW c \in Nat, NEW k \in Nat, NEW n \in Nat, NEW m \in Nat,
         c <= b + 1, n = k - 1, b + k <= m
  PROVE  c + n <= m
  OBVIOUS

\* A call that ends takes its share of the budget along.
LEMMA CallBudget ==
  ASSUME Budget, at \in {"tools", "edit"}, NEW raised, CallEnds(raised),
         UNCHANGED rounds, bare' \in {bare, bare + 1}
  PROVE  Budget'
  <1>1. left > 0 /\ left' = left - 1
    BY DEF Budget, CallEnds
  <1>2. at' \in {"tools", "edit"} => left > 1
    BY <1>1 DEF Budget, CallEnds, Goto, Caught
  <1>3. rounds * MaxCalls \in Nat
    BY RoundBudget, AgentAssumption DEF Budget
  <1> DEFINE most == rounds * MaxCalls
  <1>4. /\ bare \in Nat /\ left \in 0..MaxCalls /\ bare + left <= most
    BY DEF Budget
  <1>5. /\ bare' \in Nat /\ left' \in 0..MaxCalls /\ bare' + left' <= most
        /\ at' \in {"tools", "edit"} => left' > 0
    <2>1. most \in Nat
      BY <1>3
    <2>2. bare' \in Nat /\ bare' <= bare + 1
      BY <1>4
    <2> HIDE DEF most
    <2>3. left' \in 0..MaxCalls /\ (left > 1 => left' > 0)
      BY <1>1, <1>4, AgentAssumption
    <2>4. bare' + left' <= most
      <3>1. bare \in Nat /\ left \in Nat /\ bare + left <= most
        BY <1>4, AgentAssumption
      <3>2. left' \in Nat /\ left' = left - 1
        BY <1>1, <2>3, AgentAssumption
      <3> QED
        BY <2>1, <2>2, <3>1, <3>2, OneLess
    <2> QED
      BY <1>2, <2>2, <2>3, <2>4
  <1> QED
    BY <1>5 DEF Budget

LEMMA BudgetApart ==
  ASSUME Budget, UNCHANGED <<bare, rounds, left>>,
         at' \in {"tools", "edit"} => at \in {"tools", "edit"}
  PROVE  Budget'
  BY DEF Budget

\* What the tools do to the turn.
LEMMA ToolCalls ==
  ASSUME RunTool
  PROVE  /\ at \in {"tools", "edit"} /\ UNCHANGED rounds
         /\ \/ \E raised : CallEnds(raised) /\ bare' \in {bare, bare + 1}
            \/ at' = "edit" /\ UNCHANGED <<left, bare>>
  <1>1. CASE Look
    BY <1>1 DEF Look
  <1>2. CASE RunStep
    BY <1>2 DEF RunStep
  <1>3. CASE FinishEdit
    BY <1>3 DEF FinishEdit
  <1>4. ASSUME NEW a \in Asked, RequestApproval(a)
        PROVE  /\ at = "tools" /\ UNCHANGED rounds
               /\ \E raised : CallEnds(raised) /\ bare' \in {bare, bare + 1}
    BY <1>4 DEF RequestApproval
  <1>5. ASSUME NEW a \in Asked, NEW flaw \in Flaw, Propose(a, flaw)
        PROVE  /\ at = "tools" /\ UNCHANGED rounds
               /\ \E raised : CallEnds(raised) /\ bare' \in {bare, bare + 1}
    BY <1>5 DEF Propose
  <1>6. ASSUME NEW t \in EditTool, BeginEdit(t)
        PROVE  /\ at = "tools" /\ UNCHANGED rounds
               /\ \/ \E raised : CallEnds(raised) /\ bare' \in {bare, bare + 1}
                  \/ at' = "edit" /\ UNCHANGED <<left, bare>>
    BY <1>6 DEF BeginEdit, Goto
  <1> QED
    BY <1>1, <1>2, <1>3, <1>4, <1>5, <1>6 DEF RunTool

LEMMA BudgetInv ==
  ASSUME Budget, [Next]_vars
  PROVE  Budget'
  <1>1. CASE UNCHANGED vars
    BY <1>1, BudgetApart DEF vars, turn
  <1>2. CASE LeaseChanges \/ Stops \/ OthersEdit \/ PeopleDecide \/ Ask
    BY <1>2, BudgetApart DEF LeaseChanges, Stops, OthersEdit, PeopleDecide, Ask, Elsewhere, Goto
  <1>3. CASE StubAnswers \/ ModelFails \/ RoundsAreOver
    BY <1>3, BudgetApart DEF StubAnswers, ModelFails, RoundsAreOver, Goto
  <1>4. CASE ModelAnswers
    <2>1. PICK n \in 0..MaxCalls : /\ rounds' = rounds + 1 /\ left' = n /\ bare' = bare
                                   /\ Goto(IF n = 0 THEN "answered" ELSE "tools")
      BY <1>4 DEF ModelAnswers, Counts
    <2>2. rounds < MaxRounds /\ rounds \in Nat /\ left \in Nat
      BY <1>4 DEF ModelAnswers, Budget
    <2>3. rounds * MaxCalls \in Nat /\ (rounds + 1) * MaxCalls = rounds * MaxCalls + MaxCalls
      BY <2>2, RoundBudget, AgentAssumption
    <2>4. bare + n <= (rounds + 1) * MaxCalls
      <3> DEFINE most == rounds * MaxCalls
                 next == (rounds + 1) * MaxCalls
      <3>1. bare + left <= most /\ bare \in Nat /\ most \in Nat /\ next = most + MaxCalls
        BY <2>3 DEF Budget
      <3> HIDE DEF most, next
      <3>2. bare + n <= next
        BY <2>2, <3>1, AgentAssumption
      <3> QED
        BY <3>2 DEF next
    <2>5. at' \in {"tools", "edit"} => n > 0
      BY <2>1 DEF Goto
    <2> QED
      BY <2>1, <2>2, <2>4, <2>5, AgentAssumption DEF Budget
  <1>5. CASE Respond
    <2>1. rounds' = 0 /\ left' = 0 /\ bare' = 0 /\ at' = "idle"
      BY <1>5 DEF Respond, Goto
    <2> QED
      BY <2>1, AgentAssumption DEF Budget
  <1>6. CASE RunTool
    <2>1. CASE at' = "edit" /\ UNCHANGED <<left, bare>>
      BY <1>6, <2>1, ToolCalls, BudgetApart
    <2>2. CASE \E raised : CallEnds(raised) /\ bare' \in {bare, bare + 1}
      BY <1>6, <2>2, ToolCalls, CallBudget
    <2> QED
      BY <1>6, <2>1, <2>2, ToolCalls
  <1> QED
    BY <1>1, <1>2, <1>3, <1>4, <1>5, <1>6 DEF Next, TurnStep

-----------------------------------------------------------------------------
(* Types: everything else.                                                 *)

LEMMA FaultsBounded ==
  ASSUME faults \in 0..MaxFaults, NEW ok, Succeeds(ok)
  PROVE  faults' \in 0..MaxFaults
  BY AgentAssumption DEF Succeeds

LEMMA CallsGoOn ==
  ASSUME NEW raised, CallEnds(raised)
  PROVE  at' \in Place /\ at' # "edit"
  BY DEF CallEnds, Goto, Place

LEMMA ApprovalsTyped ==
  ASSUME approvals \in [Known -> Standing], NEW a, NEW v \in Standing
  PROVE  [approvals EXCEPT ![a] = v] \in [Known -> Standing]
  OBVIOUS

\* A step of the turn leaves the people alone.
LEMMA TurnTyped ==
  ASSUME RestType, UNCHANGED <<policy, brain, person>>,
         plan' \in Stage, approvals' \in [Known -> Standing], faults' \in 0..MaxFaults,
         at' \in Place, tool' \in EditTool \cup {NoTool}, at' = "edit" => tool' \in EditTool
  PROVE  RestType'
  BY DEF RestType, person

LEMMA PeopleTyped ==
  ASSUME RestType, LeaseChanges \/ Stops \/ OthersEdit \/ PeopleDecide \/ Ask
  PROVE  RestType'
  <1>1. CASE LeaseChanges
    <2>1. holder' \in Session \cup {NoSession}
      BY <1>1 DEF LeaseChanges, Executor!SENext, Executor!Claim, Executor!Vacate
    <2>2. UNCHANGED <<policy, brain, paused, authority, plan, approvals, at, tool, faults>>
      BY <1>1 DEF LeaseChanges, Elsewhere
    <2> QED
      BY <2>1, <2>2 DEF RestType
  <1>2. CASE Stops
    <2>1. paused' \in BOOLEAN
      BY <1>2 DEF Stops, RestType
    <2>2. authority' \in [enabled : BOOLEAN, pin : Operator \cup {NoOperator}]
      BY <1>2 DEF Stops, RestType
    <2>3. UNCHANGED <<policy, brain, holder, plan, approvals, at, tool, faults>>
      BY <1>2 DEF Stops, Elsewhere
    <2> QED
      BY <2>1, <2>2, <2>3 DEF RestType
  <1>3. CASE OthersEdit
    BY <1>3 DEF OthersEdit, Elsewhere, person, RestType, Stage
  <1>4. CASE PeopleDecide
    <2>1. approvals' \in [Known -> Standing]
      BY <1>4, ApprovalsTyped DEF PeopleDecide, RestType, Standing
    <2>2. UNCHANGED <<policy, brain, person, plan, at, tool, faults>>
      BY <1>4 DEF PeopleDecide, Elsewhere
    <2> QED
      BY <2>1, <2>2 DEF RestType, person
  <1>5. CASE Ask
    BY <1>5, TurnTyped DEF Ask, Goto, Place, RestType
  <1> QED
    BY <1>1, <1>2, <1>3, <1>4, <1>5

LEMMA ModelTyped ==
  ASSUME RestType,
         StubAnswers \/ ModelAnswers \/ ModelFails \/ RoundsAreOver \/ Respond
  PROVE  RestType'
  <1>1. faults' \in 0..MaxFaults
    BY FaultsBounded DEF StubAnswers, ModelAnswers, ModelFails, RoundsAreOver, Respond, RestType
  <1>2. at' \in Place /\ at' # "edit"
    BY DEF StubAnswers, ModelAnswers, ModelFails, RoundsAreOver, Respond, Goto, Place
  <1>3. UNCHANGED <<policy, brain, person, plan, approvals, tool>>
    BY DEF StubAnswers, ModelAnswers, ModelFails, RoundsAreOver, Respond
  <1> QED
    BY <1>1, <1>2, <1>3, TurnTyped DEF RestType

LEMMA ToolTyped ==
  ASSUME RestType, RunTool
  PROVE  RestType'
  <1>0. /\ plan \in Stage /\ approvals \in [Known -> Standing] /\ faults \in 0..MaxFaults
        /\ tool \in EditTool \cup {NoTool}
    BY DEF RestType
  <1>1. CASE Look
    <2>1. at' \in Place /\ at' # "edit"
      BY <1>1, CallsGoOn DEF Look
    <2>2. UNCHANGED <<policy, brain, person, plan, approvals, tool, faults>>
      BY <1>1 DEF Look
    <2> QED
      BY <1>0, <2>1, <2>2, TurnTyped
  <1>2. CASE RunStep
    <2>1. at' \in Place /\ at' # "edit" /\ faults' \in 0..MaxFaults
      BY <1>0, <1>2, CallsGoOn, FaultsBounded DEF RunStep
    <2>2. approvals' \in [Known -> Standing]
      BY <1>0, <1>2, ApprovalsTyped DEF RunStep, Standing
    <2>3. UNCHANGED <<policy, brain, person, plan, tool>>
      BY <1>2 DEF RunStep
    <2> QED
      BY <1>0, <2>1, <2>2, <2>3, TurnTyped
  <1>3. CASE FinishEdit
    <2>1. at' \in Place /\ at' # "edit" /\ faults' \in 0..MaxFaults
      BY <1>0, <1>3, CallsGoOn, FaultsBounded DEF FinishEdit
    <2>2. tool \in EditTool
      BY <1>3 DEF FinishEdit, RestType
    <2>3. plan' \in Stage
      BY <1>0, <1>3, <2>2 DEF FinishEdit, PlanAfter, EditTool, Stage
    <2>4. UNCHANGED <<policy, brain, person, approvals>> /\ tool' = NoTool
      BY <1>3 DEF FinishEdit
    <2> QED
      BY <1>0, <2>1, <2>3, <2>4, TurnTyped
  <1>4. ASSUME NEW a \in Asked, RequestApproval(a)
        PROVE  RestType'
    <2>1. at' \in Place /\ at' # "edit"
      BY <1>4, CallsGoOn DEF RequestApproval
    <2>2. faults' \in 0..MaxFaults
      BY <1>0, <1>4, FaultsBounded DEF RequestApproval
    <2>3. approvals' \in [Known -> Standing]
      BY <1>0, <1>4 DEF RequestApproval, Standing
    <2>4. UNCHANGED <<policy, brain, person, plan, tool>>
      BY <1>4 DEF RequestApproval
    <2> QED
      BY <1>0, <2>1, <2>2, <2>3, <2>4, TurnTyped
  <1>5. ASSUME NEW a \in Asked, NEW flaw \in Flaw, Propose(a, flaw)
        PROVE  RestType'
    <2>1. at' \in Place /\ at' # "edit" /\ faults' \in 0..MaxFaults
      BY <1>0, <1>5, CallsGoOn, FaultsBounded DEF Propose
    <2>2. approvals' \in [Known -> Standing]
      BY <1>0, <1>5, ApprovalsTyped DEF Propose, Standing
    <2>3. UNCHANGED <<policy, brain, person, plan, tool>>
      BY <1>5 DEF Propose
    <2> QED
      BY <1>0, <2>1, <2>2, <2>3, TurnTyped
  <1>6. ASSUME NEW t \in EditTool, BeginEdit(t)
        PROVE  RestType'
    <2>1. CASE holder = Here
      <3>1. at' = "edit" /\ tool' = t
        BY <1>6, <2>1 DEF BeginEdit, Goto
      <3>2. UNCHANGED <<policy, brain, person, plan, approvals, faults>>
        BY <1>6 DEF BeginEdit
      <3> QED
        BY <1>0, <1>6, <3>1, <3>2, TurnTyped DEF Place
    <2>2. CASE holder # Here
      <3>1. at' \in Place /\ at' # "edit" /\ UNCHANGED tool
        BY <1>6, <2>2, CallsGoOn DEF BeginEdit
      <3>2. UNCHANGED <<policy, brain, person, plan, approvals, faults>>
        BY <1>6 DEF BeginEdit
      <3> QED
        BY <1>0, <3>1, <3>2, TurnTyped
    <2> QED
      BY <2>1, <2>2
  <1> QED
    BY <1>1, <1>2, <1>3, <1>4, <1>5, <1>6 DEF RunTool

\* A turn stays within MAX_TOOL_ITERS rounds and their calls, and leaves no more changes
\* without a row than it made calls; a plan tool that waits to write knows which it is
\* (claude.py:28, 73-103, agent/control.py:249-252).
THEOREM AgentType == Spec => []TypeOK
  <1>1. Init => Budget /\ RestType
    <2> SUFFICES ASSUME Init
                 PROVE  Budget /\ RestType
      OBVIOUS
    <2>1. Budget
      BY AgentAssumption DEF Init, Budget
    <2>2. RestType
      <3>1. policy \in Policies /\ holder = NoSession /\ brain \in {"claude", "stub"}
        BY DEF Init
      <3>2. paused \in BOOLEAN
        BY DEF Init
      <3>3. authority \in [enabled : BOOLEAN, pin : Operator \cup {NoOperator}]
        BY DEF Init
      <3>4. plan \in Stage /\ approvals \in [Known -> Standing]
        BY DEF Init, Stage, Standing
      <3>5. at \in Place /\ at # "edit" /\ tool = NoTool
        BY DEF Init, Place
      <3>6. faults \in 0..MaxFaults
        BY AgentAssumption DEF Init
      <3> QED
        BY <3>1, <3>2, <3>3, <3>4, <3>5, <3>6 DEF RestType
    <2> QED
      BY <2>1, <2>2
  <1>2. Budget /\ [Next]_vars => Budget'
    BY BudgetInv
  <1>3. RestType /\ [Next]_vars => RestType'
    <2> SUFFICES ASSUME RestType, [Next]_vars
                 PROVE  RestType'
      OBVIOUS
    <2>1. CASE UNCHANGED vars
      BY <2>1 DEF vars, turn, person, RestType
    <2> QED
      BY <2>1, PeopleTyped, ModelTyped, ToolTyped DEF Next, TurnStep
  <1>4. Budget /\ RestType => TypeOK
    <2> SUFFICES ASSUME Budget, RestType
                 PROVE  TypeOK
      OBVIOUS
    <2>1. bare \in 0..MaxRounds * MaxCalls
      <3> DEFINE most == rounds * MaxCalls
                 all == MaxRounds * MaxCalls
      <3>1. most <= all /\ most \in Nat
        BY RoundBudget, AgentAssumption DEF Budget
      <3>2. bare \in Nat /\ left \in Nat /\ bare + left <= most
        BY AgentAssumption DEF Budget
      <3>3. all \in Nat
        BY AgentAssumption
      <3> HIDE DEF most, all
      <3>4. bare \in 0..all
        BY <3>1, <3>2, <3>3
      <3> QED
        BY <3>4 DEF all
    <2> QED
      BY <2>1 DEF Budget, RestType, TypeOK, Place, Stage, Standing
  <1> QED
    BY <1>1, <1>2, <1>3, <1>4, PTL DEF Spec
=============================================================================
