SPECIFICATION Spec
CONSTANTS
  Envs = {e1, e2}
  CRs = {e1, e2}
  Sources = {a, b}
  None = None
  Production = e2
  Development = {}
  Scaling = {}
  Deleting = {e1, e2}
  Keep <- KeepOne
  MaxId = 4
  MaxEdits = 0
  MaxFaults = 0
PROPERTIES KeepsNewest
