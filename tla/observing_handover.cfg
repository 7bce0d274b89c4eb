CONSTANTS
  tab = tab
  sup = sup
  auto = auto
  super = super
  hand = hand
  early = early
  late = late
  odd = odd
  north = north
  south = south
  line = line
  wild = wild
  Session = {tab, sup}
  Driver = {super, hand}
  Autopilot = {}
  Supervisor = {super}
  SessionOf <- MCSessionOf
  Dec = {north, south}
  Mode = {line, wild}
  KnownMode = {line}
  Segment = {late}
  DecOf <- MCDecOf
  SetupOf <- MCSetupOf
  SlotOf <- MCSlotOf
  LastSlot = 0
  Policies <- MCLive
  MaxEdits = 2
  MaxFaults = 1
  NoSession = NoSession
  NoSegment = NoSegment
  NoDec = NoDec
  Nothing = Nothing
SPECIFICATION FairSpec
INVARIANTS OnlyConfirmed ThroughTheList
PROPERTIES WaitsEnd
