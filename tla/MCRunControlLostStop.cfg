\* A stop asked for while the run is being paused.
SPECIFICATION Spec
CONSTANTS
  r1 = r1
  r2 = r2
  q1 = q1
  q2 = q2
  Runs = {r1}
  Slots = {q1}
  Asked = {"launch", "pause", "stop"}
  Patient = TRUE
  MaxProcs = 1
  MaxRequests = 3
  MaxFaults = 0
  MaxDeletes = 0
PROPERTIES StopsAreActedOn
CHECK_DEADLOCK FALSE
