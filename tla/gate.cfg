CONSTANTS
  point = point
  code = code
  edit = edit
  never = never
  tab = tab
  other = other
  alice = alice
  bob = bob
  carol = carol
  Action = {point, edit, never}
  Known = {point, edit, never}
  Target <- MCTarget
  Commissioning <- MCCommissioning
  Promoted = {edit, never}
  TwoPerson = {edit}
  Session = {tab, other}
  Local = {tab}
  Operator = {alice, bob, carol}
  ActorOf <- MCActorOf
  Live = TRUE
  Invalid = {}
  Units <- MCUnits
  Evaluation = {e1, e2}
  Approval = {a1}
  MaxFaults = 1
  NoSession = NoSession
  NoOperator = NoOperator
  NoAction = NoAction
  NoApproval = NoApproval
SPECIFICATION Spec
INVARIANTS TypeOK ClearedToAct ApprovedToAct WithinTarget SpentIsGone GateKnowledge
PROPERTIES ChangeIsAudited
SYMMETRY MCSymmetry
