\* Two resumes of one paused run.
SPECIFICATION Spec
CONSTANTS
  r1 = r1
  r2 = r2
  q1 = q1
  q2 = q2
  Runs = {r1}
  Slots = {q1, q2}
  Asked = {"launch", "pause", "resume"}
  Patient = FALSE
  MaxProcs = 3
  MaxRequests = 4
  MaxFaults = 0
  MaxDeletes = 0
SYMMETRY Alike
INVARIANTS OneDriver
CHECK_DEADLOCK FALSE
