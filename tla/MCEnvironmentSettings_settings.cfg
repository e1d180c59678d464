SPECIFICATION Spec
CONSTANTS
  Specs <- MCSpecs
  Contents <- MCContents
  Names = {p, q}
  p = p
  q = q
  Values = {0, 1}
  Nil = Nil
  MaxId = 5
  MaxEdits = 2
  MaxFaults = 1
INVARIANTS TypeOK
PROPERTIES SettingsConverge SchedulesConverge OnePatchIsEnough Quiet
