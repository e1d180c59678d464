SPECIFICATION Spec
CONSTANTS
  Envs = {e1, e2}
  CRs = {e1}
  Sources = {a, b}
  None = None
  Production = e2
  Development = {}
  Scaling = {e1}
  Deleting = {e1}
  Keep <- KeepOne
  MaxId = 3
  MaxEdits = 1
  MaxFaults = 1
INVARIANTS TypeOK
PROPERTIES SparesHeld ScaledInTheEnd DeletedInTheEnd
