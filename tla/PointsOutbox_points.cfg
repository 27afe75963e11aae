\* Two photos of one receipt without a number, two drains, one kill or overrun.
\* The run may stop: every report over.
SPECIFICATION Spec
CONSTANTS
  ann = ann r1 = r1 r2 = r2  c1 = c1 c2 = c2 d1 = d1 d2 = d2 x = x y = y
  Users = {ann}
  Requests = {r1}
  RequestUser <- AnnsAsk
  Account <- AnnLinks
  Captures = {c1, c2}
  Owner <- Anns
  Receipt <- OneReceipt
  Numbered = {}
  Drainers = {d1, d2}
  WorkerName <- SameName
  MaxAttempts = 2
  MaxFaults = 1
  NoLink = NoLink
  NoName = NoName
  NoCapture = NoCapture
SYMMETRY Symmetry
INVARIANTS TypeOK BrokenIsMarked
PROPERTIES KeepsPointsPromise
CHECK_DEADLOCK FALSE
