SPECIFICATION Spec
CONSTANTS
  p1 = p1
  p2 = p2
  Processes = {p1, p2}
  MaxMessage = 2
SYMMETRY Peers
INVARIANTS TypeOK CancelledIsNeverAdmitted AdmittedOnce StopCancelsWakes
PROPERTIES ImplementsMailbox NothingAdmittedWhileStopped
