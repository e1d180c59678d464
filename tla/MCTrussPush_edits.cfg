SPECIFICATION Spec
CONSTANTS
  CRs = {m1}
  Configs = {a, b}
  Slots = {s1}
  None = None
  MaxEdits = 1
  MaxFaults = 2
INVARIANTS TypeOK Recoverable DoneMeansCreated
PROPERTIES CreatedOrFalseDone SettledIsStable SlotsReleased
