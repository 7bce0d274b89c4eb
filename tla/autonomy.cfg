CONSTANTS
  standing = standing
  console = console
  sup = sup
  corr1 = corr1
  corr2 = corr2
  search1 = search1
  stream1 = stream1
  CorrNode = {corr1, corr2}
  SearchNode = {search1}
  Stream = {stream1}
  MinCorr = 2
  MinSearch = 1
  FlagWarn = 4
  FlagAlert = 7
  Sites <- MCSites
  Supervisor = {standing}
  Console = {}
  Session = {sup}
  Sup = sup
  Loops = {"auto_recover", "injection_health_check"}
  Stop = {paused}
  paused = paused
  Promoted = {"fire_injection", "bounce_search"}
  MaxMatches = 1
  MaxRows = 1
  MaxFaults = 1
  NoSession = NoSession
  NoReport = NoReport
  NoProbe = NoProbe
SPECIFICATION FairSpec
INVARIANTS TypeOK VerdictsAreEarned EachProbeIsJudged AlertsArePostedOnce EdgesTellTheState OneRemedyPerLook CardAgrees
PROPERTIES AlertsSettle ProbesAreJudged
