CONSTANTS
  request = request
  supervisor = supervisor
  MaxBackoff = 2
  Thread = {request}
  MaxRecords = 3
  Postworthy = {2}
  RingSize = 1
SPECIFICATION Spec
INVARIANT EveryExitStops
