\* A person confirms the document, and its picture is read again.
\* The run may stop: the request is over.
SPECIFICATION Spec
CONSTANTS
  x = x y = y p1 = p1 p2 = p2 p3 = p3
  Requests = {p1}
  Versioned = {p1}
  Edits <- ThreeEdits
  Values = {x, y}
  Readings <- TwoReadings
  NoValue = NoValue
  MaxRuns = 1
PROPERTIES ConfirmedIsKept
CHECK_DEADLOCK FALSE
