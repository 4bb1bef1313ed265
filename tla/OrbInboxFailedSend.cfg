SPECIFICATION Spec
CONSTANTS
  p1 = p1
  p2 = p2
  Processes = {p1}
  MaxMessage = 2
INVARIANTS WakeBeforeRetirement
