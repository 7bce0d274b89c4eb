CONSTANTS
  tab = tab
  other = other
  alice = alice
  bob = bob
  Session = {tab, other}
  Here = tab
  Operator = {alice, bob}
  ActorOf <- MCActorOf
  Known <- MCKnown
  Target <- MCTarget
  Commissioning <- MCTarget
  TwoPerson = {}
  Policies <- MCPolicies
  Asked = {"point_array", "update_fleet_code", "reboot_dishes"}
  MaxRounds = 2
  MaxCalls = 2
  MaxFaults = 2
  NoSession = NoSession
  NoOperator = NoOperator
  NoTool = NoTool
SPECIFICATION FairSpec
INVARIANTS TypeOK ChangesAreTraceable AccountsAgree
PROPERTY TurnsEnd
