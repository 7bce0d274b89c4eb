CONSTANTS
  point = point
  code = code
  edit = edit
  never = never
  tab = tab
  other = other
  alice = alice
  bob = bob
  carol = carol
  Action = {code}
  Known = {code}
  Target <- MCTarget
  Commissioning <- MCCommissioning
  Promoted = {code}
  TwoPerson = {edit}
  Session = {tab}
  Local = {tab}
  Operator = {alice, bob}
  ActorOf <- MCActorOf
  Live = TRUE
  Invalid = {}
  Units <- MCUnits
  Evaluation = {e1, e2}
  Approval = {a1}
  MaxFaults = 0
  NoSession = NoSession
  NoOperator = NoOperator
  NoAction = NoAction
  NoApproval = NoApproval
SPECIFICATION Spec
INVARIANTS SingleUse
