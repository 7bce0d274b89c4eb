CONSTANTS
  tab = tab
  sup = sup
  auto = auto
  super = super
  hand = hand
  early = early
  late = late
  odd = odd
  north = north
  south = south
  line = line
  wild = wild
  Session = {tab, sup}
  Driver = {auto}
  Autopilot = {auto}
  Supervisor = {}
  SessionOf <- MCSessionOf
  Dec = {north, south}
  Mode = {line, wild}
  KnownMode = {line}
  Segment = {early, late, odd}
  DecOf <- MCDecOf
  SetupOf <- MCSetupOf
  SlotOf <- MCSlotOf
  LastSlot = 1
  Policies <- MCPolicies
  MaxEdits = 3
  MaxFaults = 0
  NoSession = NoSession
  NoSegment = NoSegment
  NoDec = NoDec
  Nothing = Nothing
SPECIFICATION Spec
INVARIANTS TypeOK OnlyConfirmed DoneMeansObserving ThroughTheList
