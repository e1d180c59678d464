SPECIFICATION Spec
CONSTANTS
  Envs = {e1, e2}
  CRs = {e1}
  Sources = {a, b}
  None = None
  Production = e2
  Development = {}
  Scaling = {}
  Deleting = {e1}
  Keep <- KeepOne
  MaxId = 3
  MaxEdits = 2
  MaxFaults = 0
PROPERTIES DeletesUnattached
