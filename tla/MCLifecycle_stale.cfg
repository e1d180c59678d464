SPECIFICATION Spec
CONSTANTS
  CRs = {c1}
  Modes = {"Reconcile", "Observe", "Pause"}
  Policies = {"Retain", "Delete", "DeleteWithGuardrails"}
  MaxModels = 2
  MaxEdits = 1
  MaxFaults = 0
PROPERTIES DeletionHeedsMode
