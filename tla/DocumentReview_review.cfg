\* Three people, one of whom sends no version, and two re-extractions.
\* The run may stop: every request is over.
SPECIFICATION Spec
CONSTANTS
  x = x y = y p1 = p1 p2 = p2 p3 = p3
  Requests = {p1, p2, p3}
  Versioned = {p1, p2}
  Edits <- ThreeEdits
  Values = {x, y}
  Readings <- TwoReadings
  NoValue = NoValue
  MaxRuns = 2
SYMMETRY Symmetry
INVARIANTS TypeOK DisagreementShown
PROPERTIES OverwritesOnlyRaces KeepsReviewPromise
CHECK_DEADLOCK FALSE
