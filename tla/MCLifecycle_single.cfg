SPECIFICATION Spec
CONSTANTS
  CRs = {c1}
  Modes = {"Reconcile", "Observe", "Pause"}
  Policies = {"Retain", "Delete", "DeleteWithGuardrails"}
  MaxModels = 3
  MaxEdits = 1
  MaxFaults = 1
INVARIANTS TypeOK
PROPERTIES DeletionWasAsked ModelIDHeals DeletionCompletes KnownIsNotRecreated HandsOff
