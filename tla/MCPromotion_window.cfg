SPECIFICATION Spec
CONSTANTS
  CRs = {c1}
  Sources = {a, b}
  None = None
  MaxEdits = 1
  MaxFaults = 2
PROPERTIES GiveUpIsEarned
