SPECIFICATION Spec
CONSTANTS
  CRs = {c1}
  Modes = {"Reconcile", "Observe", "Pause"}
  Policies = {"Retain", "Delete", "DeleteWithGuardrails"}
  MaxModels = 3
  MaxEdits = 0
  MaxFaults = 1
PROPERTIES NeverRecreated
