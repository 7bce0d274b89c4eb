CONSTANTS
  c1 = c1
  c2 = c2
  s1 = s1
  req1 = req1
  ka1 = ka1
  req2 = req2
  main1 = main1
  hb1 = hb1
  alice = alice
  bob = bob
  supervisor = supervisor
  Process = {c1, s1}
  Supervisor = {s1}
  Thread = {req1, main1, hb1}
  ProcessOf <- MCProcessOf
  Heartbeat <- MCHeartbeat
  Session = {alice, supervisor}
  SessionsOf <- MCSessionsOf
  Lease = {1, 2, 3}
  MaxFaults = 1
  NoSession = NoSession
  NoLease = NoLease
  NoProcess = NoProcess
SPECIFICATION FairSpec
INVARIANTS TypeOK LeaseKnowledge KeyBoundToLiveLease
PROPERTIES TenureEndsByRight ImplementsSingleExecutor UnkeptTenureEnds StandingExecutorReclaims
