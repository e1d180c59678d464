SPECIFICATION Spec
CONSTANTS
  CRs = {m1}
  Configs = {a, b}
  Slots = {s1}
  None = None
  MaxEdits = 1
  MaxFaults = 0
PROPERTIES DesiredCreated
